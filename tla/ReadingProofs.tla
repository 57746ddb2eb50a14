---------------------------- MODULE ReadingProofs ----------------------------
(***************************************************************************)
(* The ring of the reader stays in order, and what the modem says is taken *)
(* in the order it was said, for every size of the buffer, number of       *)
(* messages and way in which they are cut into pieces.                     *)
(***************************************************************************)
EXTENDS ResultReader, SequenceTheorems, FiniteSetTheorems,
        WellFoundedInduction, TLAPS

(* The filled cells of the ring lie from read on and end at write, which    *)
(* may stand behind the last cell where the first is meant.                 *)
InRing(r) ==
    /\ r.buffer \in [R!Place -> Cells] /\ r.used \in 0..RingSize /\ r.read \in R!Place
    /\ r.write \in 0..RingSize
    /\ R!Wrap(r.write) = R!Wrap(r.read + r.used)

(* The inductive invariant.                                                 *)
ReaderInRing ==
    /\ wire \in Seq(Cells) /\ sent \in Seq(Kinds) /\ InRing(rb)
    /\ readResult \in {0, 1} /\ pc \in {"wait", "read", "gone"}
    /\ results \in Seq([class : Classes \cup {"UNKNOWN"}, text : Seq(Cells)])
    /\ pc = "gone" => rb.used = RingSize

-----------------------------------------------------------------------------
(* What the modem says *)

LEMMA EndOfListType == EndOfList \in Seq(Cells) /\ Len(EndOfList) = 7
  BY DEF EndOfList, Cells, CR, LF

LEMMA CrlfType == CRLF \in Seq(Cells) /\ Len(CRLF) = 2
  BY DEF CRLF, Cells, CR, LF

(* A beginning has two or three cells, and the first two tell which it is.  *)
LEMMA BeginsType ==
  ASSUME NEW c \in Classes
  PROVE  Begins(c) \in Seq(Cells) /\ Len(Begins(c)) \in {2, 3}
<1>1. CASE c = "OK"      BY <1>1 DEF Begins, Cells, CR
<1>2. CASE c = "PROMPT"  BY <1>2 DEF Begins, Cells
<1>3. CASE c = "CMGR"    BY <1>3 DEF Begins, Cells
<1>4. CASE c = "CLCC"    BY <1>4 DEF Begins, Cells
<1>5. CASE c = "CMGS"    BY <1>5 DEF Begins, Cells
<1>6. CASE c = "CSSI"    BY <1>6 DEF Begins, Cells
<1>7. CASE c = "CSSU"    BY <1>7 DEF Begins, Cells
<1>8. CASE c = "CDS"     BY <1>8 DEF Begins, Cells
<1> QED  BY <1>1, <1>2, <1>3, <1>4, <1>5, <1>6, <1>7, <1>8 DEF Classes

LEMMA BeginsTell ==
  ASSUME NEW c \in Classes, NEW d \in Classes,
         Begins(c)[1] = Begins(d)[1], Begins(c)[2] = Begins(d)[2]
  PROVE  c = d
<1> DEFINE first(x) == CASE x = "OK" -> "O" [] x = "PROMPT" -> ">" [] OTHER -> "+"
           second(x) == CASE x = "OK"   -> "K"     [] x = "PROMPT" -> " "
                          [] x = "CMGR" -> "CMGR:" [] x = "CLCC"   -> "CLCC:"
                          [] x = "CMGS" -> "CMGS:" [] x = "CSSI"   -> "CSSI:"
                          [] x = "CSSU" -> "CSSU:" [] x = "CDS"    -> "CDS:"
<1>1. \A x \in Classes : Begins(x)[2] = second(x)
  <2> SUFFICES ASSUME NEW x \in Classes PROVE Begins(x)[2] = second(x)
    OBVIOUS
  <2>1. CASE x = "OK"      BY <2>1 DEF Begins
  <2>2. CASE x = "PROMPT"  BY <2>2 DEF Begins
  <2>3. CASE x = "CMGR"    BY <2>3 DEF Begins
  <2>4. CASE x = "CLCC"    BY <2>4 DEF Begins
  <2>5. CASE x = "CMGS"    BY <2>5 DEF Begins
  <2>6. CASE x = "CSSI"    BY <2>6 DEF Begins
  <2>7. CASE x = "CSSU"    BY <2>7 DEF Begins
  <2>8. CASE x = "CDS"     BY <2>8 DEF Begins
  <2> QED  BY <2>1, <2>2, <2>3, <2>4, <2>5, <2>6, <2>7, <2>8 DEF Classes
<1>2. second(c) = second(d)
  BY <1>1
<1> QED  BY <1>2 DEF Classes

LEMMA SeqsOf ==
  ASSUME NEW S
  PROVE  /\ \A a \in S : <<a>> \in Seq(S)
         /\ \A a, b \in S : <<a, b>> \in Seq(S)
         /\ \A a, b, c \in S : <<a, b, c>> \in Seq(S)
         /\ \A a, b, c, d, e \in S : /\ <<a, b, c, d, e>> \in Seq(S)
                                    /\ Len(<<a, b, c, d, e>>) = 5
  OBVIOUS

LEMMA PiecesType ==
  /\ <<"O", "K">> \in Seq(Cells) /\ <<">", " ">> \in Seq(Cells)
  /\ <<"v", CR, LF, "p", CR>> \in Seq(Cells) /\ <<"v", CR>> \in Seq(Cells)
  /\ <<"v">> \in Seq(Cells) /\ <<"v", CR, LF, "p", "p">> \in Seq(Cells)
  /\ <<"v", CR, LF, "v", "v">> \in Seq(Cells) /\ <<"A", "v", CR>> \in Seq(Cells)
  /\ Len(<<"v", CR, LF, "p", CR>>) = 5
<1>1. /\ CR \in Cells /\ LF \in Cells /\ "O" \in Cells /\ "K" \in Cells /\ ">" \in Cells
      /\ " " \in Cells /\ "v" \in Cells /\ "p" \in Cells /\ "A" \in Cells
  BY DEF Cells
<1> QED  BY <1>1, SeqsOf, Zenon

LEMMA SaidType == ASSUME NEW kind \in AllKinds PROVE Said(kind) \in Seq(Cells)
<1> USE CrlfType, EndOfListType
<1>b. \A c \in Classes : Begins(c) \in Seq(Cells)
  BY BeginsType
<1>0. /\ "CMGR" \in Classes /\ "CLCC" \in Classes /\ "CMGS" \in Classes
      /\ "CSSI" \in Classes /\ "CSSU" \in Classes /\ "CDS" \in Classes
  BY DEF Classes
<1>c. \A s, t \in Seq(Cells) : s \o t \in Seq(Cells)
  OBVIOUS
<1>l. \A s \in Seq(Cells) : Line(s) \in Seq(Cells)
  BY <1>c DEF Line
<1>1. CASE kind = "ok"        BY <1>1, <1>l, PiecesType DEF Said
<1>2. CASE kind = "prompt"    BY <1>2, <1>c, PiecesType DEF Said
<1>3. CASE kind = "message"   BY <1>3, <1>b, <1>0, <1>c, PiecesType DEF Said
<1>4. CASE kind = "calls"     BY <1>4, <1>b, <1>0, <1>c, PiecesType DEF Said
<1>5. CASE kind = "accepted"  BY <1>5, <1>b, <1>0, <1>c, <1>l, PiecesType DEF Said
<1>6. CASE kind = "services"  BY <1>6, <1>b, <1>0, <1>c, <1>l, PiecesType DEF Said
<1>7. CASE kind = "report"    BY <1>7, <1>b, <1>0, <1>c, <1>l, PiecesType DEF Said
<1>8. CASE kind = "lines"     BY <1>8, <1>l, PiecesType DEF Said
<1>9. CASE kind = "echo"      BY <1>9, PiecesType DEF Said
<1>10. CASE kind = "endless"
  <2> DEFINE n == RingSize + 1
  <2>1. RingSize \in Nat
    BY RingAssumption, Zenon
  <2>4. n \in Nat
    BY <2>1
  <2>5. "v" \in Cells
    BY DEF Cells
  <2> HIDE DEF n
  <2>2. [i \in 1..n |-> "v"] \in [1..n -> Cells]
    BY <2>5
  <2>3. [i \in 1..n |-> "v"] \in Seq(Cells)
    BY <2>2, <2>4
  <2> QED  BY <1>10, <2>3, <1>c DEF Said, n
<1> QED
  BY <1>1, <1>2, <1>3, <1>4, <1>5, <1>6, <1>7, <1>8, <1>9, <1>10 DEF AllKinds

(* A message fits in the buffer, so that there is one.                      *)
LEMMA RingHolds == RingSize \in Nat \ {0}
<1>1. Said("message") = CRLF \o Begins("CMGR") \o <<"v", CR, LF, "p", CR>> \o EndOfList
  BY DEF Said
<1>2. Begins("CMGR") \in Seq(Cells) /\ Len(Begins("CMGR")) \in {2, 3}
  BY BeginsType DEF Classes
<1>3. <<"v", CR, LF, "p", CR>> \in Seq(Cells) /\ Len(<<"v", CR, LF, "p", CR>>) = 5
  BY PiecesType
<1>4. Len(Said("message")) > 10
  <2> DEFINE b == Begins("CMGR")
             m == <<"v", CR, LF, "p", CR>>
  <2>1. b \in Seq(Cells) /\ Len(b) \in {2, 3} /\ m \in Seq(Cells) /\ Len(m) = 5
    BY <1>2, <1>3, Zenon
  <2> HIDE DEF b, m
  <2>2. CRLF \o b \in Seq(Cells) /\ Len(CRLF \o b) = Len(CRLF) + Len(b)
    BY <2>1, CrlfType, ConcatProperties
  <2>3. /\ (CRLF \o b) \o m \in Seq(Cells)
        /\ Len((CRLF \o b) \o m) = Len(CRLF \o b) + Len(m)
    BY <2>1, <2>2, ConcatProperties
  <2>4. Len(((CRLF \o b) \o m) \o EndOfList) = Len((CRLF \o b) \o m) + Len(EndOfList)
    BY <2>3, EndOfListType, ConcatProperties
  <2>5. ((2 + Len(b)) + 5) + 7 > 10
    BY <2>1
  <2>6. Len(((CRLF \o b) \o m) \o EndOfList) = ((2 + Len(b)) + 5) + 7
    BY <2>1, <2>2, <2>3, <2>4, CrlfType, EndOfListType, Zenon
  <2> QED  BY <1>1, <2>5, <2>6 DEF b, m
<1>5. RingSize \in Nat /\ RingSize >= Len(Said("message")) - 2
  BY RingAssumption
<1> QED  BY <1>4, <1>5, SaidType DEF AllKinds

-----------------------------------------------------------------------------
(* The ring *)

(* Positions are counted around the ring, whether by one step or by two.    *)
LEMMA WrapPlace ==
  ASSUME NEW b \in R!Place, NEW k \in 0..RingSize
  PROVE  R!Wrap(b + k) \in R!Place
  BY RingHolds DEF R!Wrap, R!Place

LEMMA WrapTwice ==
  ASSUME NEW b \in R!Place, NEW k \in Nat, NEW m \in Nat, k + m <= RingSize
  PROVE  R!Wrap(R!Wrap(b + k) + m) = R!Wrap(b + (k + m))
  BY RingHolds DEF R!Wrap, R!Place

(* The position written to may stand behind the last cell.                  *)
LEMMA WrapOn ==
  ASSUME NEW b \in R!Place, NEW u \in 0..RingSize, NEW w \in 0..RingSize,
         R!Wrap(w) = R!Wrap(b + u), NEW n \in 0..(RingSize - u),
         NEW x, x = IF w + n > RingSize THEN w + n - RingSize ELSE w + n
  PROVE  x \in 0..RingSize /\ R!Wrap(x) = R!Wrap(b + (u + n))
  BY RingHolds DEF R!Wrap, R!Place

LEMMA WrapAhead ==
  ASSUME NEW b \in R!Place, NEW u \in 0..RingSize, NEW w \in 0..RingSize,
         R!Wrap(w) = R!Wrap(b + u), NEW k \in 0..(RingSize - 1),
         NEW p, p = R!Wrap(b + k)
  PROVE  (IF p >= w THEN p - w ELSE p + RingSize - w)
           = IF k >= u THEN k - u ELSE k + RingSize - u
  BY RingHolds DEF R!Wrap, R!Place

(* What is read is as long as what is used, and holds it cell for cell.     *)
LEMMA AllRead ==
  ASSUME NEW r, InRing(r)
  PROVE  /\ R!ReadAll(r) \in Seq(Cells) /\ Len(R!ReadAll(r)) = r.used
         /\ \A k \in 1..r.used : R!ReadAll(r)[k] = r.buffer[R!Wrap(r.read + k - 1)]
<1>1. r.used \in 0..RingSize /\ r.read \in R!Place /\ r.buffer \in [R!Place -> Cells]
  BY DEF InRing
<1>2. \A k \in 1..r.used : R!Wrap(r.read + k - 1) \in R!Place
  BY <1>1, RingHolds DEF R!Wrap, R!Place
<1>3. \A k \in 1..r.used : r.buffer[R!Wrap(r.read + k - 1)] \in Cells
  BY <1>1, <1>2
<1> QED  BY <1>1, <1>3 DEF R!ReadAll, R!ReadN

LEMMA SameSeq ==
  ASSUME NEW S, NEW p \in Seq(S), NEW q \in Seq(S), Len(p) = Len(q),
         \A k \in 1..Len(p) : p[k] = q[k]
  PROVE  p = q
  OBVIOUS

(* What is left of a sequence from an element on.                           *)
LEMMA Rest ==
  ASSUME NEW S, NEW s \in Seq(S), NEW n \in 0..Len(s)
  PROVE  /\ SubSeq(s, n + 1, Len(s)) \in Seq(S)
         /\ Len(SubSeq(s, n + 1, Len(s))) = Len(s) - n
         /\ \A k \in 1..(Len(s) - n) : SubSeq(s, n + 1, Len(s))[k] = s[n + k]
<1>1. \A i \in (n + 1)..Len(s) : s[i] \in S
  OBVIOUS
<1>2. n + 1 \in Int /\ Len(s) \in Int
  OBVIOUS
<1>3. /\ SubSeq(s, n + 1, Len(s)) \in Seq(S)
      /\ Len(SubSeq(s, n + 1, Len(s)))
           = IF n + 1 <= Len(s) THEN Len(s) - (n + 1) + 1 ELSE 0
      /\ \A k \in 1..(Len(s) - (n + 1) + 1) :
            SubSeq(s, n + 1, Len(s))[k] = s[(n + 1) + k - 1]
  BY <1>1, <1>2, SubSeqProperties
<1>4. Len(SubSeq(s, n + 1, Len(s))) = Len(s) - n
  BY <1>2, <1>3
<1>5. \A k \in 1..(Len(s) - n) : SubSeq(s, n + 1, Len(s))[k] = s[n + k]
  <2> TAKE k \in 1..(Len(s) - n)
  <2>1. k \in 1..(Len(s) - (n + 1) + 1) /\ (n + 1) + k - 1 = n + k
    BY <1>2
  <2> QED  BY <1>3, <2>1
<1> QED  BY <1>3, <1>4, <1>5

(* How many cells rb_read_upd() takes.                                      *)
LEMMA LeastType ==
  ASSUME NEW n \in Nat, NEW u \in Nat
  PROVE  /\ R!Least(n, u) \in 0..u /\ R!Least(n, u) <= n
         /\ (n <= u => R!Least(n, u) = n) /\ (n > u => R!Least(n, u) = u)
  BY DEF R!Least

(* Consuming leaves a ring, and drops what is taken from its beginning.     *)
LEMMA ReadUpdInRing ==
  ASSUME NEW r, InRing(r), NEW n \in Nat
  PROVE  /\ InRing(R!ReadUpd(r, n))
         /\ R!ReadAll(R!ReadUpd(r, n))
              = SubSeq(R!ReadAll(r), R!Least(n, r.used) + 1, Len(R!ReadAll(r)))
<1> DEFINE k == R!Least(n, r.used)
           t == R!ReadUpd(r, n)
           q == R!ReadAll(r)
<1>r. /\ r.used \in 0..RingSize /\ r.read \in R!Place /\ r.buffer \in [R!Place -> Cells]
      /\ r.write \in 0..RingSize /\ R!Wrap(r.write) = R!Wrap(r.read + r.used)
      /\ RingSize \in Nat \ {0}
  BY RingHolds DEF InRing
<1>k. k \in 0..r.used
  <2>1. r.used \in Nat
    BY <1>r
  <2> QED  BY <2>1, LeastType
<1>q. /\ q \in Seq(Cells) /\ Len(q) = r.used
      /\ \A j \in 1..r.used : q[j] = r.buffer[R!Wrap(r.read + j - 1)]
  BY AllRead
<1>s. /\ SubSeq(q, k + 1, Len(q)) \in Seq(Cells)
      /\ Len(SubSeq(q, k + 1, Len(q))) = r.used - k
      /\ \A j \in 1..(r.used - k) : SubSeq(q, k + 1, Len(q))[j] = q[k + j]
  <2> HIDE DEF k, q
  <2>1. k \in 0..Len(q)
    BY <1>k, <1>q
  <2> QED  BY <1>q, <2>1, Rest
<1>u. t = IF k = 0 THEN r
          ELSE IF r.used = k THEN R!Empty(r.buffer)
          ELSE [buffer |-> r.buffer, used |-> r.used - k,
                read |-> R!Wrap(r.read + k), write |-> r.write]
  BY DEF R!ReadUpd
<1> HIDE DEF k, t, q
<1>1. CASE k = 0
  <2>1. t = r
    BY <1>1, <1>u
  <2>2. SubSeq(q, k + 1, Len(q)) = q
    <3>1. \A j \in 1..Len(q) : q[j] = SubSeq(q, k + 1, Len(q))[j]
      BY <1>1, <1>q, <1>r, <1>s
    <3> QED  BY <1>1, <1>q, <1>r, <1>s, <3>1, SameSeq
  <2> QED  BY <2>1, <2>2 DEF k, t, q
<1>2. CASE k # 0 /\ r.used = k
  <2>1. t = [buffer |-> r.buffer, used |-> 0, read |-> 0, write |-> 0]
    BY <1>2, <1>u DEF R!Empty
  <2>2. InRing(t)
    BY <1>r, <2>1 DEF InRing, R!Wrap, R!Place
  <2>3. R!ReadAll(t) \in Seq(Cells) /\ Len(R!ReadAll(t)) = 0
    BY <2>1, <2>2, AllRead
  <2>4. Len(SubSeq(q, k + 1, Len(q))) = 0
    BY <1>2, <1>k, <1>r, <1>s
  <2>5. R!ReadAll(t) = SubSeq(q, k + 1, Len(q))
    BY <1>s, <2>3, <2>4, SameSeq
  <2> QED  BY <2>2, <2>5 DEF k, t, q
<1>3. CASE k # 0 /\ r.used # k
  <2>1. t = [buffer |-> r.buffer, used |-> r.used - k,
             read |-> R!Wrap(r.read + k), write |-> r.write]
    BY <1>3, <1>u
  <2>2. k \in 1..(r.used - 1)
    BY <1>3, <1>k, <1>r
  <2>3. R!Wrap(r.read + k) \in R!Place
    BY <1>r, <2>2 DEF R!Wrap, R!Place
  <2>4. R!Wrap(R!Wrap(r.read + k) + (r.used - k)) = R!Wrap(r.read + r.used)
    <3>1. k \in Nat /\ r.used - k \in Nat /\ k + (r.used - k) = r.used
      BY <1>r, <2>2
    <3>2. k + (r.used - k) <= RingSize
      BY <1>r, <3>1
    <3>3. R!Wrap(R!Wrap(r.read + k) + (r.used - k)) = R!Wrap(r.read + (k + (r.used - k)))
      BY <1>r, <3>1, <3>2, WrapTwice
    <3> QED  BY <3>1, <3>3
  <2>5. r.used - k \in 0..RingSize
    BY <1>r, <2>2
  <2>6. InRing(t)
    BY <1>r, <2>1, <2>3, <2>4, <2>5 DEF InRing
  <2>7. /\ R!ReadAll(t) \in Seq(Cells) /\ Len(R!ReadAll(t)) = r.used - k
        /\ \A j \in 1..(r.used - k) :
              R!ReadAll(t)[j] = r.buffer[R!Wrap(R!Wrap(r.read + k) + j - 1)]
    BY <2>1, <2>6, AllRead
  <2>8. \A j \in 1..(r.used - k) : R!ReadAll(t)[j] = SubSeq(q, k + 1, Len(q))[j]
    <3> TAKE j \in 1..(r.used - k)
    <3>1. k + j \in 1..r.used
      BY <1>r, <2>2
    <3>2. R!Wrap(R!Wrap(r.read + k) + j - 1) = R!Wrap(r.read + (k + j) - 1)
      <4>1. k \in Nat /\ j - 1 \in Nat /\ k + (j - 1) <= RingSize
        BY <1>r, <2>2, <3>1
      <4>2. R!Wrap(R!Wrap(r.read + k) + (j - 1)) = R!Wrap(r.read + (k + (j - 1)))
        BY <1>r, <4>1, WrapTwice
      <4>3. /\ R!Wrap(r.read + k) \in Int /\ r.read \in Int
            /\ r.read + (k + (j - 1)) = r.read + (k + j) - 1
        BY <1>r, <2>2, <2>3, <4>1 DEF R!Place
      <4>4. R!Wrap(r.read + k) + (j - 1) = R!Wrap(r.read + k) + j - 1
        BY <4>1, <4>3
      <4> QED  BY <4>2, <4>3, <4>4
    <3> QED  BY <1>q, <1>s, <2>7, <3>1, <3>2
  <2>9. R!ReadAll(t) = SubSeq(q, k + 1, Len(q))
    BY <1>s, <2>7, <2>8, SameSeq
  <2> QED  BY <2>6, <2>9 DEF k, t, q
<1> QED  BY <1>1, <1>2, <1>3

(* How far the cell that is k behind the first one read is from the place   *)
(* written to next.                                                         *)
LEMMA AheadOf ==
  ASSUME NEW r, InRing(r), NEW k \in 0..(RingSize - 1)
  PROVE  /\ R!Wrap(r.read + k) \in R!Place
         /\ R!Ahead(r, R!Wrap(r.read + k))
              = IF k >= r.used THEN k - r.used ELSE k + RingSize - r.used
<1>r. /\ r.used \in 0..RingSize /\ r.read \in R!Place
      /\ r.write \in 0..RingSize /\ R!Wrap(r.write) = R!Wrap(r.read + r.used)
  BY DEF InRing
<1>1. k \in 0..RingSize
  BY RingHolds
<1>2. R!Wrap(r.read + k) \in R!Place
  BY <1>r, <1>1, WrapPlace
<1> DEFINE p == R!Wrap(r.read + k)
<1>3. (IF p >= r.write THEN p - r.write ELSE p + RingSize - r.write)
        = IF k >= r.used THEN k - r.used ELSE k + RingSize - r.used
  BY <1>r, WrapAhead
<1> QED  BY <1>2, <1>3 DEF R!Ahead

(* A piece that fits leaves a ring, and is added at its end.                *)
LEMMA ReadInInRing ==
  ASSUME NEW r, InRing(r), NEW data \in Seq(Cells), Len(data) <= R!Free(r)
  PROVE  /\ InRing(R!ReadIn(r, data))
         /\ R!ReadIn(r, data).used = r.used + Len(data)
         /\ R!ReadAll(R!ReadIn(r, data)) = R!ReadAll(r) \o data
<1> DEFINE n == Len(data)
           t == R!ReadIn(r, data)
           q == R!ReadAll(r)
<1>r. /\ r.used \in 0..RingSize /\ r.read \in R!Place /\ r.buffer \in [R!Place -> Cells]
      /\ r.write \in 0..RingSize /\ R!Wrap(r.write) = R!Wrap(r.read + r.used)
      /\ RingSize \in Nat \ {0}
  BY RingHolds DEF InRing
<1>n. n \in 0..(RingSize - r.used) /\ \A j \in 1..n : data[j] \in Cells
  BY <1>r DEF R!Free
<1>q. /\ q \in Seq(Cells) /\ Len(q) = r.used
      /\ \A j \in 1..r.used : q[j] = r.buffer[R!Wrap(r.read + j - 1)]
  BY AllRead
<1>c. /\ q \o data \in Seq(Cells) /\ Len(q \o data) = r.used + n
      /\ \A j \in 1..(r.used + n) :
            (q \o data)[j] = IF j <= r.used THEN q[j] ELSE data[j - r.used]
  <2> HIDE DEF q
  <2>1. /\ q \o data \in Seq(Cells) /\ Len(q \o data) = Len(q) + Len(data)
        /\ \A j \in 1..(Len(q) + Len(data)) :
              (q \o data)[j] = IF j <= Len(q) THEN q[j] ELSE data[j - Len(q)]
    BY <1>q, ConcatProperties
  <2> QED  BY <1>q, <2>1, Zenon
<1>t. t = [buffer |-> [i \in R!Place |-> IF R!Ahead(r, i) < n THEN data[R!Ahead(r, i) + 1]
                                         ELSE r.buffer[i]],
           used |-> r.used + n, read |-> r.read,
           write |-> IF r.write + n > RingSize THEN r.write + n - RingSize ELSE r.write + n]
  BY DEF R!ReadIn
<1> HIDE DEF n, t, q
<1>1. InRing(t)
  <2>1. \A i \in R!Place : R!Ahead(r, i) \in Nat
    BY <1>r DEF R!Ahead, R!Place
  <2>2. \A i \in R!Place : R!Ahead(r, i) < n => R!Ahead(r, i) + 1 \in 1..n
    BY <1>n, <1>r, <2>1
  <2>3. t.buffer \in [R!Place -> Cells]
    BY <1>n, <1>r, <1>t, <2>2
  <2>4. t.used = r.used + n /\ t.used \in 0..RingSize /\ t.read = r.read
    BY <1>n, <1>r, <1>t
  <2>5. t.write = IF r.write + n > RingSize THEN r.write + n - RingSize ELSE r.write + n
    BY <1>t
  <2>6. t.write \in 0..RingSize /\ R!Wrap(t.write) = R!Wrap(r.read + (r.used + n))
    BY <1>n, <1>r, <2>5, WrapOn
  <2> QED  BY <1>r, <2>3, <2>4, <2>6 DEF InRing
<1>2. /\ R!ReadAll(t) \in Seq(Cells) /\ Len(R!ReadAll(t)) = r.used + n
      /\ \A j \in 1..(r.used + n) : R!ReadAll(t)[j] = t.buffer[R!Wrap(r.read + j - 1)]
  <2>1. t.used = r.used + n /\ t.read = r.read
    BY <1>t
  <2> QED  BY <1>1, <2>1, AllRead
<1>3. \A j \in 1..(r.used + n) : R!ReadAll(t)[j] = (q \o data)[j]
  <2> SUFFICES ASSUME NEW j \in 1..(r.used + n) PROVE R!ReadAll(t)[j] = (q \o data)[j]
    OBVIOUS
  <2> DEFINE p == R!Wrap(r.read + j - 1)
  <2>1. /\ p \in R!Place
        /\ R!Ahead(r, p) = IF j - 1 >= r.used THEN (j - 1) - r.used
                           ELSE (j - 1) + RingSize - r.used
    <3>1. j - 1 \in 0..(RingSize - 1) /\ r.read + (j - 1) = r.read + j - 1
      BY <1>n, <1>r DEF R!Place
    <3> QED  BY <3>1, AheadOf
  <2>2. t.buffer[p] = IF R!Ahead(r, p) < n THEN data[R!Ahead(r, p) + 1] ELSE r.buffer[p]
    BY <1>t, <2>1
  <2>3. R!ReadAll(t)[j] = t.buffer[p]
    BY <1>2
  <2> HIDE DEF p
  <2>4. CASE j <= r.used
    <3>1. j \in 1..r.used /\ ~(R!Ahead(r, p) < n)
      BY <1>n, <1>r, <2>1, <2>4
    <3>2. q[j] = r.buffer[p]
      BY <1>q, <3>1 DEF p
    <3> QED  BY <1>c, <2>2, <2>3, <2>4, <3>1, <3>2
  <2>5. CASE ~(j <= r.used)
    <3>1. R!Ahead(r, p) < n /\ R!Ahead(r, p) + 1 = j - r.used
      BY <1>n, <1>r, <2>1, <2>5
    <3> QED  BY <1>c, <2>2, <2>3, <2>5, <3>1
  <2> QED  BY <2>4, <2>5
<1>4. R!ReadAll(t) = q \o data
  BY <1>2, <1>3, <1>c, SameSeq
<1>5. t.used = r.used + n
  BY <1>t
<1> QED  BY <1>1, <1>4, <1>5 DEF n, t, q

-----------------------------------------------------------------------------
(* What is looked for in the ring *)

(* A set of numbers has a least one.                                        *)
LEMMA LeastExists ==
    ASSUME NEW n \in Nat, NEW S \in SUBSET (0..n), S # {}
    PROVE  \E i \in S : \A j \in S : i <= j
<1> DEFINE B == 0..n
           Below(i) == {j \in S : j < i}
           T == {Below(i) : i \in S}
<1>1. IsFiniteSet(B)
  BY FS_Interval
<1>2. FiniteSubsetsOf(B) = SUBSET B
  <2> HIDE DEF B
  <2> QED
    BY <1>1, FS_FiniteSubsetsOfFinite
<1>3. T \subseteq FiniteSubsetsOf(B) /\ T # {}
  <2>1. \A i \in S : Below(i) \in SUBSET B
    OBVIOUS
  <2>2. T \subseteq SUBSET B /\ T # {}
    <3> HIDE DEF B, Below
    <3> QED
      BY <2>1
  <2> HIDE DEF B, T
  <2> QED
    BY <1>2, <2>2
<1>4. IsWellFoundedOn(StrictSubsetOrdering(B), FiniteSubsetsOf(B))
  BY FS_StrictSubsetOrderingWellFounded
<1>5. PICK x \in T : \A y \in T : <<y, x>> \notin StrictSubsetOrdering(B)
  <2> HIDE DEF T, B
  <2> QED
    BY <1>3, <1>4, WFMin
<1>6. PICK i \in S : x = Below(i)
  BY <1>5
<1>7. ASSUME NEW j \in S, j < i
      PROVE  FALSE
  <2>1. Below(j) \subseteq Below(i) /\ j \in Below(i) /\ j \notin Below(j)
    <3>1. \A k \in S : k \in Int
      OBVIOUS
    <3>2. \A k \in S : k < j => k < i
      BY <1>7, <3>1
    <3>3. ~(j < j)
      BY <3>1
    <3> QED
      BY <1>7, <3>2, <3>3
  <2>2. <<Below(j), Below(i)>> \in StrictSubsetOrdering(B)
    <3>1. Below(i) \in SUBSET B /\ Below(j) \in SUBSET B
      OBVIOUS
    <3> HIDE DEF Below, B
    <3> QED
      BY <2>1, <3>1 DEF StrictSubsetOrdering
  <2> QED
    BY <2>2, <1>5, <1>6
<1> QED
  BY <1>7

(* Where the ring begins as a result does, these are its first cells.       *)
LEMMA Starts ==
  ASSUME NEW r, InRing(r), NEW c \in Classes, R!MemCmp(r, Begins(c)) = 0
  PROVE  /\ r.used >= Len(Begins(c))
         /\ Begins(c)[1] = r.buffer[R!Wrap(r.read + 1 - 1)]
         /\ Begins(c)[2] = r.buffer[R!Wrap(r.read + 2 - 1)]
<1> DEFINE mem == Begins(c)
<1>1. mem \in Seq(Cells) /\ Len(mem) \in {2, 3}
  BY BeginsType
<1>2. 0 = IF r.used < Len(mem) THEN -1 ELSE IF R!ReadN(r, Len(mem)) = mem THEN 0 ELSE 1
  BY DEF R!MemCmp
<1>3. R!ReadN(r, Len(mem)) = [k \in 1..Len(mem) |-> r.buffer[R!Wrap(r.read + k - 1)]]
  BY DEF R!ReadN
<1>4. r.used \in Nat
  BY RingHolds DEF InRing
<1> HIDE DEF mem
<1>5. r.used >= Len(mem) /\ R!ReadN(r, Len(mem)) = mem
  BY <1>1, <1>2, <1>4
<1>6. 1 \in 1..Len(mem) /\ 2 \in 1..Len(mem)
  BY <1>1
<1> QED  BY <1>3, <1>5, <1>6 DEF mem

(* A result that begins as one of a class does is of that class.            *)
LEMMA ClassifyIs ==
  ASSUME NEW r, InRing(r)
  PROVE  /\ Classify(r) \in Classes \cup {"UNKNOWN"}
         /\ \A c \in Classes : R!MemCmp(r, Begins(c)) = 0 => Classify(r) = c
         /\ Classify(r) \in Classes => R!MemCmp(r, Begins(Classify(r))) = 0
<1> DEFINE M(c) == R!MemCmp(r, Begins(c)) = 0
<1>1. CASE \E c \in Classes : M(c)
  <2>1. Classify(r) = CHOOSE c \in Classes : M(c)
    BY <1>1 DEF Classify
  <2>2. Classify(r) \in Classes /\ M(Classify(r))
    <3> HIDE DEF M
    <3> QED  BY <1>1, <2>1
  <2>3. \A c, d \in Classes : M(c) /\ M(d) => c = d
    <3> SUFFICES ASSUME NEW c \in Classes, NEW d \in Classes, M(c), M(d) PROVE c = d
      OBVIOUS
    <3>1. Begins(c)[1] = Begins(d)[1] /\ Begins(c)[2] = Begins(d)[2]
      BY Starts
    <3> QED  BY <3>1, BeginsTell
  <2> QED  BY <2>2, <2>3
<1>2. CASE ~\E c \in Classes : M(c)
  <2>1. Classify(r) = "UNKNOWN"
    BY <1>2 DEF Classify
  <2>2. "UNKNOWN" \notin Classes
    BY DEF Classes
  <2> QED  BY <1>2, <2>1, <2>2
<1> QED  BY <1>1, <1>2

(* What is found lies within what is used.                                  *)
LEMMA UntilWithin ==
  ASSUME NEW r, InRing(r), NEW mem \in Seq(Cells)
  PROVE  /\ R!UntilMem(r, mem) \in Int
         /\ R!UntilMem(r, mem) >= 0 => R!UntilMem(r, mem) \in 0..(r.used - Len(mem))
<1> DEFINE F == R!Found(r, mem)
<1>1. F \subseteq 0..(r.used - Len(mem))
  BY DEF R!Found
<1>2. r.used \in Nat /\ Len(mem) \in Nat
  BY RingHolds DEF InRing
<1>3. R!UntilMem(r, mem) = IF F = {} THEN -1 ELSE CHOOSE k \in F : \A j \in F : k <= j
  BY DEF R!UntilMem
<1> HIDE DEF F
<1>4. CASE F = {}
  BY <1>3, <1>4
<1>5. CASE F # {}
  <2>1. F \in SUBSET (0..r.used)
    BY <1>1, <1>2
  <2>2. \E k \in F : \A j \in F : k <= j
    BY <1>2, <1>5, <2>1, LeastExists
  <2>3. R!UntilMem(r, mem) \in F
    BY <1>3, <1>5, <2>2
  <2>4. R!UntilMem(r, mem) \in 0..(r.used - Len(mem))
    BY <1>1, <2>3, Zenon
  <2> DEFINE x == R!UntilMem(r, mem)
             e == r.used - Len(mem)
  <2>5. e \in Int
    BY <1>2
  <2> HIDE DEF x, e
  <2>6. x \in 0..e => x \in Int
    BY <2>5
  <2> QED  BY <2>4, <2>6 DEF x, e
<1> QED  BY <1>4, <1>5

(* The end of a report may be taken to be where what is used ends.          *)
LEMMA UntilAfterWithin ==
  ASSUME NEW r, InRing(r), NEW c \in Cells, NEW after \in Nat,
         NEW n \in R!UntilCharAfter(r, c, after)
  PROVE  n \in Int /\ (n >= 0 => n \in 0..r.used)
<1> DEFINE one    == R!Least(r.used, RingSize - r.read)
           two    == r.used - one
           first  == {k \in R!Found(r, <<c>>) : k >= after /\ k < one}
           second == {k \in R!Found(r, <<c>>) : k >= one + after}
           astray == one < after \/ (first = {} /\ two > 0 /\ two < after)
           least(S) == CHOOSE k \in S : \A j \in S : k <= j
<1>1. n \in IF astray THEN {-1, r.used}
            ELSE IF first # {} THEN {least(first)}
            ELSE IF second # {} THEN {least(second)}
            ELSE {-1}
  BY DEF R!UntilCharAfter
<1>2. r.used \in Nat
  BY RingHolds DEF InRing
<1>3. R!Found(r, <<c>>) \subseteq 0..r.used
  <2>1. R!Found(r, <<c>>) \subseteq 0..(r.used - Len(<<c>>))
    BY DEF R!Found
  <2>2. Len(<<c>>) = 1
    OBVIOUS
  <2> QED  BY <1>2, <2>1, <2>2
<1>4. first \subseteq 0..r.used /\ second \subseteq 0..r.used
  BY <1>3
<1>5. ASSUME NEW S, S \subseteq 0..r.used, S # {}
      PROVE  least(S) \in 0..r.used
  <2>2. \E k \in S : \A j \in S : k <= j
    BY <1>2, <1>5, LeastExists
  <2>3. least(S) \in S
    BY <2>2
  <2> QED  BY <1>5, <2>3
<1>6. \/ n = -1 \/ n = r.used
      \/ first # {} /\ n = least(first)
      \/ second # {} /\ n = least(second)
  BY <1>1, Zenon
<1>7. first # {} => least(first) \in 0..r.used
  BY <1>4, <1>5
<1>8. second # {} => least(second) \in 0..r.used
  BY <1>4, <1>5
<1> HIDE DEF one, two, first, second, astray, least
<1> QED  BY <1>2, <1>6, <1>7, <1>8

-----------------------------------------------------------------------------
(* The steps *)

(* The two ways in which what has been said and not taken may change.       *)
Growing == \E kind \in Kinds : Pending' = Pending \o Said(kind) /\ UNCHANGED <<rb, results>>

Handed(n) ==
    \/ UNCHANGED results
    \/ \E class \in Classes \cup {"UNKNOWN"}, m \in 0..n :
          results' = Append(results, Result(class, SubSeq(Pending, 1, m)))

Taking ==
    \E n \in 0..rb.used :
       /\ Pending' = SubSeq(Pending, n + 1, Len(Pending))
       /\ n > 0 => UNCHANGED wire
       /\ Handed(n)

LEMMA InvIsRing == ReaderInRing => InRing(rb)
  BY DEF ReaderInRing, InRing

(* Nothing is taken from behind a sequence that something is added to.      *)
LEMMA RestOfConcat ==
  ASSUME NEW S, NEW q \in Seq(S), NEW w \in Seq(S), NEW k \in 0..Len(q)
  PROVE  SubSeq(q, k + 1, Len(q)) \o w = SubSeq(q \o w, k + 1, Len(q \o w))
<1> DEFINE a == SubSeq(q, k + 1, Len(q))
           p == q \o w
           b == SubSeq(p, k + 1, Len(p))
<1>q. Len(q) \in Nat /\ Len(w) \in Nat
  OBVIOUS
<1>a. /\ a \in Seq(S) /\ Len(a) = Len(q) - k
      /\ \A i \in 1..(Len(q) - k) : a[i] = q[k + i]
  BY Rest
<1>p. /\ p \in Seq(S) /\ Len(p) = Len(q) + Len(w)
      /\ \A i \in 1..(Len(q) + Len(w)) : p[i] = IF i <= Len(q) THEN q[i] ELSE w[i - Len(q)]
  BY ConcatProperties
<1> HIDE DEF a, p
<1>b. /\ b \in Seq(S) /\ Len(b) = Len(p) - k
      /\ \A i \in 1..(Len(p) - k) : b[i] = p[k + i]
  <2>1. k \in 0..Len(p)
    BY <1>p, <1>q
  <2> QED  BY <1>p, <2>1, Rest
<1>c. /\ a \o w \in Seq(S) /\ Len(a \o w) = Len(a) + Len(w)
      /\ \A i \in 1..(Len(a) + Len(w)) :
            (a \o w)[i] = IF i <= Len(a) THEN a[i] ELSE w[i - Len(a)]
  BY <1>a, ConcatProperties
<1> HIDE DEF b
<1>1. Len(a \o w) = Len(b)
  BY <1>a, <1>b, <1>c, <1>p, <1>q
<1>2. \A i \in 1..Len(a \o w) : (a \o w)[i] = b[i]
  <2> SUFFICES ASSUME NEW i \in 1..Len(a \o w) PROVE (a \o w)[i] = b[i]
    OBVIOUS
  <2>1. /\ i \in 1..(Len(a) + Len(w)) /\ i \in 1..(Len(p) - k) /\ Len(a) = Len(q) - k
        /\ k + i \in 1..(Len(q) + Len(w)) /\ i \in Int
    BY <1>a, <1>b, <1>c, <1>p, <1>q
  <2>2. b[i] = IF k + i <= Len(q) THEN q[k + i] ELSE w[k + i - Len(q)]
    BY <1>b, <1>p, <2>1
  <2>3. (a \o w)[i] = IF i <= Len(a) THEN a[i] ELSE w[i - Len(a)]
    BY <1>c, <2>1
  <2>4. CASE i <= Len(q) - k
    <3>1. i \in 1..(Len(q) - k) /\ k + i <= Len(q)
      BY <1>q, <2>1, <2>4
    <3> QED  BY <1>a, <2>1, <2>2, <2>3, <2>4, <3>1
  <2>5. CASE ~(i <= Len(q) - k)
    <3>1. ~(k + i <= Len(q)) /\ i - (Len(q) - k) = k + i - Len(q)
      BY <1>q, <2>1, <2>5
    <3> QED  BY <2>1, <2>2, <2>3, <2>5, <3>1
  <2> QED  BY <2>4, <2>5
<1>3. a \o w = b
  BY <1>1, <1>2, <1>b, <1>c, SameSeq
<1> QED  BY <1>3 DEF a, b, p

(* How rb_read_upd() changes what is pending.                               *)
LEMMA UpdTakes ==
  ASSUME ReaderInRing, NEW n \in Nat, rb' = R!ReadUpd(rb, n), UNCHANGED wire
  PROVE  /\ InRing(rb)'
         /\ R!Least(n, rb.used) \in 0..rb.used
         /\ Pending' = SubSeq(Pending, R!Least(n, rb.used) + 1, Len(Pending))
<1>1. InRing(rb) /\ wire \in Seq(Cells)
  BY InvIsRing DEF ReaderInRing
<1> DEFINE k == R!Least(n, rb.used)
           q == R!ReadAll(rb)
<1>2. /\ InRing(R!ReadUpd(rb, n))
      /\ R!ReadAll(R!ReadUpd(rb, n)) = SubSeq(q, k + 1, Len(q))
  BY <1>1, ReadUpdInRing
<1>3. q \in Seq(Cells) /\ Len(q) = rb.used
  BY <1>1, AllRead
<1>4. k \in 0..rb.used
  <2>1. rb.used \in Nat
    BY RingHolds DEF ReaderInRing, InRing
  <2> QED  BY <2>1, LeastType
<1>5. InRing(rb)'
  BY <1>2 DEF InRing
<1>6. R!ReadAll(rb)' = SubSeq(q, k + 1, Len(q))
  BY <1>2 DEF R!ReadAll, R!ReadN, R!Wrap
<1> HIDE DEF k, q
<1>7. k \in 0..Len(q)
  BY <1>3, <1>4
<1>8. SubSeq(q, k + 1, Len(q)) \o wire = SubSeq(q \o wire, k + 1, Len(q \o wire))
  BY <1>1, <1>3, <1>7, RestOfConcat
<1>9. Pending' = SubSeq(q \o wire, k + 1, Len(q \o wire))
  BY <1>6, <1>8 DEF Pending
<1> QED  BY <1>4, <1>5, <1>9 DEF Pending, k, q

(* A result is the beginning of what is taken with it.                      *)
LEMMA DeliverTakes ==
  ASSUME ReaderInRing, pc = "read", NEW n \in 0..rb.used, Deliver(n),
         UNCHANGED <<wire, sent>>, Consumed(Classify(rb), n) \in Nat,
         n <= Consumed(Classify(rb), n)
  PROVE  ReaderInRing' /\ Taking
<1> DEFINE c == Consumed(Classify(rb), n)
           k == R!Least(c, rb.used)
           q == R!ReadAll(rb)
           class == Classify(rb)
           text == SubSeq(q, 1, n - 1)
           m == IF n = 0 THEN 0 ELSE n - 1
<1>1. /\ results' = Append(results, Result(class, text))
      /\ rb' = R!ReadUpd(rb, c) /\ readResult' = 0 /\ pc' = pc
  BY DEF Deliver
<1>2. InRing(rb) /\ wire \in Seq(Cells) /\ rb.used \in Nat
  BY InvIsRing, RingHolds DEF ReaderInRing, InRing
<1>3. class \in Classes \cup {"UNKNOWN"}
  BY <1>2, ClassifyIs
<1>4. /\ InRing(rb)' /\ k \in 0..rb.used
      /\ Pending' = SubSeq(Pending, k + 1, Len(Pending))
  BY <1>1, UpdTakes
<1>5. q \in Seq(Cells) /\ Len(q) = rb.used
  BY <1>2, AllRead
<1>6. m \in 0..k /\ m \in 0..rb.used /\ n - 1 <= rb.used
  <2> HIDE DEF c
  <2>1. c \in Nat /\ n <= c
    BY DEF c
  <2>2. (c <= rb.used => k = c) /\ (c > rb.used => k = rb.used)
    BY <1>2, <2>1, LeastType
  <2> HIDE DEF k
  <2> QED  BY <1>2, <1>4, <2>1, <2>2
<1>7. text \in Seq(Cells) /\ text = SubSeq(Pending, 1, m)
  <2> HIDE DEF q
  <2>1. CASE n \in {0, 1}
    <3>1. n - 1 < 1 /\ m < 1 /\ n - 1 \in Int /\ m \in Int
      BY <2>1
    <3>2. text = <<>> /\ SubSeq(Pending, 1, m) = <<>>
      BY <3>1, SubSeqEmpty
    <3>3. <<>> \in Seq(Cells)
      BY EmptySeq
    <3> HIDE DEF text, m
    <3> QED  BY <3>2, <3>3
  <2>2. CASE n \notin {0, 1}
    <3>1. m = n - 1 /\ m \in 1..rb.used /\ 1 \in 1..rb.used
      BY <1>2, <2>2
    <3> HIDE DEF m
    <3>2. m \in 1..Len(q) /\ 1 \in 1..Len(q)
      BY <1>5, <3>1
    <3>3. SubSeq(q \o wire, 1, m) = SubSeq(q, 1, m)
      BY <1>2, <1>5, <3>2, SubSeqOfConcat1
    <3>4. SubSeq(q, 1, m) \in Seq(Cells)
      <4>1. \A i \in 1..m : q[i] \in Cells
        BY <1>5, <3>2
      <4> QED  BY <3>2, <4>1, SubSeqProperties
    <3> QED  BY <3>1, <3>3, <3>4 DEF Pending, q
  <2> QED  BY <2>1, <2>2
<1>8. Handed(k)
  <2> HIDE DEF class, m, k, text
  <2> QED  BY <1>1, <1>3, <1>6, <1>7 DEF Handed
<1>9. Taking
  <2> HIDE DEF k
  <2> QED  BY <1>4, <1>8 DEF Taking
<1>10. results' \in Seq([class : Classes \cup {"UNKNOWN"}, text : Seq(Cells)])
  <2> HIDE DEF class, text
  <2>1. Result(class, text) \in [class : Classes \cup {"UNKNOWN"}, text : Seq(Cells)]
    BY <1>3, <1>7 DEF Result
  <2>2. results \in Seq([class : Classes \cup {"UNKNOWN"}, text : Seq(Cells)])
    BY DEF ReaderInRing
  <2> QED  BY <1>1, <2>1, <2>2, AppendProperties
<1>11. ReaderInRing'
  <2>1. /\ wire' \in Seq(Cells) /\ sent' \in Seq(Kinds) /\ readResult' \in {0, 1}
        /\ pc' = "read"
    BY <1>1 DEF ReaderInRing
  <2> QED  BY <1>4, <1>10, <2>1 DEF ReaderInRing, InRing
<1> QED  BY <1>9, <1>11

(* Nothing is taken.                                                        *)
LEMMA PendingType == ReaderInRing => Pending \in Seq(Cells) /\ rb.used \in Nat
<1> SUFFICES ASSUME ReaderInRing PROVE Pending \in Seq(Cells) /\ rb.used \in Nat
  OBVIOUS
<1>1. InRing(rb) /\ wire \in Seq(Cells)
  BY InvIsRing DEF ReaderInRing
<1>2. R!ReadAll(rb) \in Seq(Cells)
  BY <1>1, AllRead
<1>3. rb.used \in Nat
  BY <1>1, RingHolds DEF InRing
<1> QED  BY <1>1, <1>2, <1>3, ConcatProperties DEF Pending

LEMMA KeptTakes ==
  ASSUME ReaderInRing, Pending' = Pending, UNCHANGED results
  PROVE  Taking
<1>1. Pending \in Seq(Cells) /\ rb.used \in Nat
  BY PendingType
<1>2. SubSeq(Pending, 0 + 1, Len(Pending)) = Pending
  <2>1. SubSeq(Pending, 1, Len(Pending)) = Pending
    BY <1>1, SubSeqFull
  <2> QED  BY <2>1
<1>3. 0 \in 0..rb.used /\ ~(0 > 0)
  BY <1>1
<1> QED  BY <1>2, <1>3 DEF Taking, Handed

LEMMA DropTakes ==
  ASSUME ReaderInRing, pc = "read", NEW n \in Nat, Drop(n), readResult' \in {0, 1},
         UNCHANGED <<wire, sent>>
  PROVE  ReaderInRing' /\ Taking
<1>1. rb' = R!ReadUpd(rb, n) /\ pc' = "read" /\ results' = results
  BY DEF Drop
<1>2. /\ InRing(rb)' /\ R!Least(n, rb.used) \in 0..rb.used
      /\ Pending' = SubSeq(Pending, R!Least(n, rb.used) + 1, Len(Pending))
  BY <1>1, UpdTakes
<1>3. Taking
  BY <1>1, <1>2 DEF Taking, Handed
<1>4. ReaderInRing'
  BY <1>1, <1>2 DEF ReaderInRing, InRing
<1> QED  BY <1>3, <1>4

LEMMA WaitTakes ==
  ASSUME ReaderInRing, pc' = "wait", readResult' \in {0, 1},
         UNCHANGED <<wire, sent, rb, results>>
  PROVE  ReaderInRing' /\ Taking
<1>1. Pending' = Pending
  BY DEF Pending, R!ReadAll, R!ReadN, R!Wrap
<1>2. ReaderInRing'
  BY DEF ReaderInRing, R!Wrap
<1> QED  BY <1>1, <1>2, KeptTakes

(* What is begun in a result is known of it when it is handed over.         *)
LEMMA ConsumedOf ==
  ASSUME NEW class \in Classes \cup {"UNKNOWN"}, NEW n \in Nat
  PROVE  /\ Consumed("PROMPT", n) = 2 /\ Consumed("CSSI", n) = 3
         /\ class \notin {"PROMPT", "CSSI"}
              => Consumed(class, n) \in Nat /\ n <= Consumed(class, n)
<1>1. Consumed("PROMPT", n) = 2
  BY DEF Consumed
<1>2. Consumed("CSSI", n) = 3
  BY DEF Consumed, CssiLen
<1>3. CASE class = "CMGR"
  <2>1. Consumed(class, n) = n + 7
    BY <1>3 DEF Consumed
  <2> QED  BY <1>1, <1>2, <2>1
<1>4. CASE class \notin {"PROMPT", "CSSI", "CMGR"}
  <2>1. Consumed(class, n) = n + 1
    BY <1>4 DEF Consumed
  <2> QED  BY <1>1, <1>2, <2>1
<1> QED  BY <1>1, <1>2, <1>3, <1>4

-----------------------------------------------------------------------------
(* Each action *)

LEMMA OutsideTakes ==
  ASSUME ReaderInRing, Open \/ NextLine \/ Skip \/ TooShort \/ Nothing
  PROVE  ReaderInRing' /\ Taking
<1>r. readResult \in {0, 1} /\ InRing(rb)
  BY InvIsRing DEF ReaderInRing
<1>1. CASE Open
  BY <1>1, DropTakes DEF Open, Outside
<1>2. CASE NextLine
  BY <1>2, <1>r, DropTakes DEF NextLine, Outside
<1>3. CASE Skip
  <2> DEFINE n == R!UntilChar(rb, CR)
             k == IF n >= 0 THEN n + 1 ELSE rb.used
  <2>1. /\ Drop(k) /\ readResult' = readResult /\ pc = "read" /\ UNCHANGED <<wire, sent>>
    BY <1>3 DEF Skip, Outside
  <2>2. n \in Int
    <3>1. <<CR>> \in Seq(Cells)
      BY SeqsOf DEF Cells
    <3> QED  BY <1>r, <3>1, UntilWithin DEF R!UntilChar
  <2>3. rb.used \in Nat
    BY PendingType
  <2> HIDE DEF n
  <2>4. k \in Nat
    BY <2>2, <2>3
  <2> HIDE DEF k
  <2> QED  BY <1>r, <2>1, <2>4, DropTakes
<1>4. CASE TooShort
  BY <1>4, <1>r, WaitTakes DEF TooShort, Outside, Wait
<1>5. CASE Nothing
  BY <1>5, <1>r, WaitTakes DEF Nothing, Wait
<1> QED  BY <1>1, <1>2, <1>3, <1>4, <1>5

LEMMA InsideTakes ==
  ASSUME ReaderInRing, Service \/ OpenAgain \/ Prompt \/ Listing \/ Report \/ Other
  PROVE  ReaderInRing' /\ Taking
<1>r. readResult \in {0, 1} /\ InRing(rb) /\ rb.used \in Nat
  BY InvIsRing, PendingType DEF ReaderInRing
<1>c. /\ Classify(rb) \in Classes \cup {"UNKNOWN"}
      /\ \A c \in Classes : Is(Begins(c)) => Classify(rb) = c
      /\ Classify(rb) \in Classes => Is(Begins(Classify(rb)))
  BY <1>r, ClassifyIs DEF Is
<1>0. /\ "CSSI" \in Classes /\ "PROMPT" \in Classes /\ "CMGR" \in Classes
      /\ "CLCC" \in Classes /\ "CDS" \in Classes /\ "UNKNOWN" \notin Classes
  BY DEF Classes
<1>s. \A c \in Classes : Is(Begins(c)) => rb.used >= 2
  <2> SUFFICES ASSUME NEW c \in Classes, Is(Begins(c)) PROVE rb.used >= 2
    OBVIOUS
  <2>1. rb.used >= Len(Begins(c)) /\ Len(Begins(c)) \in {2, 3}
    BY <1>r, BeginsType, Starts DEF Is
  <2> DEFINE l == Len(Begins(c))
             u == rb.used
  <2>2. u \in Nat /\ u >= l /\ l \in {2, 3}
    BY <1>r, <2>1, Zenon
  <2> HIDE DEF l, u
  <2>3. u >= 2
    BY <2>2
  <2> QED  BY <2>3 DEF u
<1>i. (Service \/ OpenAgain \/ Prompt \/ Listing \/ Report \/ Other)
        => pc = "read" /\ UNCHANGED <<wire, sent>>
  BY DEF Service, OpenAgain, Prompt, Listing, Report, Other, Inside
<1>d. ASSUME NEW n \in 0..rb.used, Deliver(n), Classify(rb) \notin {"PROMPT", "CSSI"}
      PROVE  ReaderInRing' /\ Taking
  <2>1. n \in Nat
    BY <1>r
  <2>2. Consumed(Classify(rb), n) \in Nat /\ n <= Consumed(Classify(rb), n)
    BY <1>c, <1>d, <2>1, ConsumedOf
  <2> QED  BY <1>d, <1>i, <2>2, DeliverTakes
<1>1. CASE Service
  <2>1. Classify(rb) = "CSSI"
    BY <1>0, <1>1, <1>c DEF Service
  <2>2. CASE rb.used >= CssiLen
    <3>1. Deliver(3) /\ 3 \in 0..rb.used
      BY <1>1, <1>r, <2>2 DEF Service, CssiLen
    <3>2. Consumed(Classify(rb), 3) = 3
      BY <1>0, <2>1, ConsumedOf
    <3> QED  BY <1>i, <1>1, <3>1, <3>2, DeliverTakes
  <2>3. CASE ~(rb.used >= CssiLen)
    BY <1>1, <1>i, <1>r, <2>3, WaitTakes DEF Service, Wait
  <2> QED  BY <2>2, <2>3
<1>2. CASE OpenAgain
  BY <1>2, <1>i, <1>r, DropTakes DEF OpenAgain
<1>3. CASE Prompt
  <2>1. Classify(rb) = "PROMPT" /\ rb.used >= 2 /\ Deliver(2)
    BY <1>0, <1>3, <1>c, <1>s DEF Prompt
  <2>2. Consumed(Classify(rb), 2) = 2 /\ 2 \in 0..rb.used
    BY <1>0, <1>r, <2>1, ConsumedOf
  <2> QED  BY <1>3, <1>i, <2>1, <2>2, DeliverTakes
<1>4. CASE Listing
  <2>1. Classify(rb) \in {"CMGR", "CLCC"}
    BY <1>0, <1>4, <1>c DEF Listing
  <2> DEFINE n == R!UntilMem(rb, EndOfList)
  <2>2. n \in Int /\ (n >= 0 => n \in 0..(rb.used - 7))
    BY <1>r, EndOfListType, UntilWithin
  <2>3. IF n >= 0 THEN Deliver(n) ELSE Wait
    BY <1>4 DEF Listing
  <2> HIDE DEF n
  <2>4. CASE n >= 0
    <3>1. n \in 0..rb.used
      BY <1>r, <2>2, <2>4
    <3> QED  BY <1>d, <2>1, <2>3, <2>4, <3>1
  <2>5. CASE ~(n >= 0)
    BY <1>4, <1>i, <1>r, <2>3, <2>5, WaitTakes DEF Wait
  <2> QED  BY <2>4, <2>5
<1>5. CASE Report
  <2>1. Classify(rb) = "CDS"
    BY <1>0, <1>5, <1>c DEF Report
  <2>2. PICK n \in R!UntilCharAfter(rb, CR, CdsSkip) :
          IF n >= 0 THEN Deliver(n)
          ELSE readResult' = 0 /\ pc' = "wait" /\ UNCHANGED <<rb, results>>
    BY <1>5 DEF Report
  <2>3. n >= 0 => n \in 0..rb.used
    <3>1. CR \in Cells /\ CdsSkip \in Nat
      BY DEF Cells, CdsSkip
    <3> QED  BY <1>r, <3>1, UntilAfterWithin
  <2>4. CASE n >= 0
    BY <1>d, <2>1, <2>2, <2>3, <2>4
  <2>5. CASE ~(n >= 0)
    BY <1>5, <1>i, <2>2, <2>5, WaitTakes
  <2> QED  BY <2>4, <2>5
<1>6. CASE Other
  <2>1. Classify(rb) \notin {"PROMPT", "CSSI"}
    BY <1>0, <1>6, <1>c DEF Other
  <2> DEFINE n == R!UntilMem(rb, CRLF)
  <2>2. n \in Int /\ (n >= 0 => n \in 0..(rb.used - 2))
    BY <1>r, CrlfType, UntilWithin
  <2>3. IF n >= 0 THEN Deliver(n + 1) ELSE Wait
    BY <1>6 DEF Other
  <2> HIDE DEF n
  <2>4. CASE n >= 0
    <3>1. n + 1 \in 0..rb.used
      BY <1>r, <2>2, <2>4
    <3> QED  BY <1>d, <2>1, <2>3, <2>4, <3>1
  <2>5. CASE ~(n >= 0)
    BY <1>6, <1>i, <1>r, <2>3, <2>5, WaitTakes DEF Wait
  <2> QED  BY <2>4, <2>5
<1> QED  BY <1>1, <1>2, <1>3, <1>4, <1>5, <1>6

(* What the modem says is added at the end.                                 *)
LEMMA SayGrows ==
  ASSUME ReaderInRing, NEW kind \in Kinds, Say(kind)
  PROVE  ReaderInRing' /\ Growing
<1> USE DEF Say
<1>1. Said(kind) \in Seq(Cells)
  BY KindsAssumption, SaidType
<1>2. InRing(rb) /\ wire \in Seq(Cells) /\ sent \in Seq(Kinds)
  BY InvIsRing DEF ReaderInRing
<1>3. wire' = wire \o Said(kind) /\ wire' \in Seq(Cells)
  BY <1>1, <1>2, ConcatProperties
<1>4. sent' \in Seq(Kinds)
  BY <1>2, AppendProperties
<1>5. R!ReadAll(rb) \in Seq(Cells)
  BY <1>2, AllRead
<1>6. Pending' = R!ReadAll(rb) \o wire'
  BY DEF Pending, R!ReadAll, R!ReadN, R!Wrap
<1>7. (R!ReadAll(rb) \o wire) \o Said(kind) = R!ReadAll(rb) \o (wire \o Said(kind))
  BY <1>1, <1>2, <1>5, ConcatAssociative
<1>8. Growing
  BY <1>3, <1>6, <1>7 DEF Growing, Pending
<1>9. ReaderInRing'
  BY <1>3, <1>4 DEF ReaderInRing, R!Wrap
<1> QED  BY <1>8, <1>9

(* What is read goes from the line into the buffer.                         *)
LEMMA ReadTakes ==
  ASSUME ReaderInRing, NEW n \in 1..RingSize, Read(n)
  PROVE  ReaderInRing' /\ Taking
<1> USE DEF Read
<1>1. InRing(rb) /\ wire \in Seq(Cells) /\ n \in Nat /\ n \in 0..Len(wire)
  BY InvIsRing, RingHolds DEF ReaderInRing, InRing
<1> DEFINE a == SubSeq(wire, 1, n)
           b == SubSeq(wire, n + 1, Len(wire))
<1>2. a \in Seq(Cells) /\ Len(a) = n
  <2>1. \A i \in 1..n : wire[i] \in Cells
    BY <1>1
  <2>2. /\ SubSeq(wire, 1, n) \in Seq(Cells)
        /\ Len(SubSeq(wire, 1, n)) = IF 1 <= n THEN n - 1 + 1 ELSE 0
    BY <1>1, <2>1, SubSeqProperties
  <2>3. n >= 1 /\ n - 1 + 1 = n
    BY <1>1
  <2> QED  BY <2>2, <2>3
<1>3. b \in Seq(Cells)
  BY <1>1, Rest
<1>4. a \o b = wire
  <2>1. 1 \in 1..(Len(wire) + 1) /\ n \in (1 - 1)..Len(wire) /\ Len(wire) \in n..Len(wire)
    BY <1>1
  <2>2. a \o b = SubSeq(wire, 1, Len(wire))
    BY <1>1, <2>1, ConcatAdjacentSubSeq
  <2> QED  BY <1>1, <2>2, SubSeqFull
<1>5. rb' = R!ReadIn(rb, a) /\ wire' = b
  OBVIOUS
<1> HIDE DEF a, b
<1>6. Len(a) <= R!Free(rb)
  BY <1>2
<1>7. /\ InRing(R!ReadIn(rb, a)) /\ R!ReadAll(R!ReadIn(rb, a)) = R!ReadAll(rb) \o a
  BY <1>1, <1>2, <1>6, ReadInInRing
<1>8. R!ReadAll(rb) \in Seq(Cells)
  BY <1>1, AllRead
<1>9. (R!ReadAll(rb) \o a) \o b = R!ReadAll(rb) \o wire
  <2> DEFINE q == R!ReadAll(rb)
  <2>1. q \in Seq(Cells) /\ a \in Seq(Cells) /\ b \in Seq(Cells)
    BY <1>2, <1>3, <1>8
  <2> HIDE DEF q, Read
  <2>2. (q \o a) \o b = q \o (a \o b)
    <3>1. \A s, t, u \in Seq(Cells) : (s \o t) \o u = s \o (t \o u)
      BY ConcatAssociative
    <3> QED  BY <2>1, <3>1, Zenon
  <2> QED  BY <1>4, <2>2, Zenon DEF q
<1>10. InRing(rb)' /\ R!ReadAll(rb)' = R!ReadAll(rb) \o a
  BY <1>5, <1>7 DEF InRing, R!ReadAll, R!ReadN, R!Wrap
<1>11. Pending' = Pending
  BY <1>5, <1>9, <1>10 DEF Pending
<1>12. Taking
  BY <1>11, KeptTakes
<1>13. ReaderInRing'
  <2>1. pc' = "read" /\ wire' \in Seq(Cells) /\ UNCHANGED <<readResult, results, sent>>
    BY <1>3, <1>5
  <2> QED  BY <1>10, <2>1 DEF ReaderInRing, InRing
<1> QED  BY <1>12, <1>13

(* Where there is no room, the connection is given up.                      *)
LEMMA OverflowTakes ==
  ASSUME ReaderInRing, Overflow
  PROVE  ReaderInRing' /\ Taking
<1> USE DEF Overflow
<1>1. rb.used \in Nat /\ RingSize \in Nat /\ RingSize - rb.used = 0
  BY PendingType, RingHolds DEF R!Free
<1>2. rb.used = RingSize
  BY <1>1
<1>3. Pending' = Pending
  BY DEF Pending, R!ReadAll, R!ReadN, R!Wrap
<1>4. ReaderInRing'
  BY <1>2 DEF ReaderInRing, R!Wrap
<1> QED  BY <1>3, <1>4, KeptTakes

LEMMA ReaderInit == Init => ReaderInRing
<1> SUFFICES ASSUME Init PROVE ReaderInRing
  OBVIOUS
<1>1. rb = [buffer |-> [i \in R!Place |-> "v"], used |-> 0, read |-> 0, write |-> 0]
  BY DEF Init, R!Empty
<1>2. "v" \in Cells
  BY DEF Cells
<1>3. /\ rb.buffer \in [R!Place -> Cells] /\ rb.used \in 0..RingSize /\ rb.read \in R!Place
      /\ rb.write \in 0..RingSize /\ R!Wrap(rb.write) = R!Wrap(rb.read + rb.used)
  BY <1>1, <1>2, RingHolds DEF R!Place, R!Wrap
<1>4. /\ wire \in Seq(Cells) /\ sent \in Seq(Kinds)
      /\ results \in Seq([class : Classes \cup {"UNKNOWN"}, text : Seq(Cells)])
  BY EmptySeq DEF Init
<1> QED  BY <1>3, <1>4 DEF Init, ReaderInRing, InRing

LEMMA ReaderNext == ReaderInRing /\ Next => ReaderInRing' /\ (Growing \/ Taking)
<1> SUFFICES ASSUME ReaderInRing, Next PROVE ReaderInRing' /\ (Growing \/ Taking)
  OBVIOUS
<1>1. CASE \E kind \in Kinds : Say(kind)
  BY <1>1, SayGrows
<1>2. CASE \E n \in 1..RingSize : Read(n)
  BY <1>2, ReadTakes
<1>3. CASE Overflow
  BY <1>3, OverflowTakes
<1>4. CASE Open \/ NextLine \/ Skip \/ TooShort \/ Nothing
  BY <1>4, OutsideTakes
<1>5. CASE Service \/ OpenAgain \/ Prompt \/ Listing \/ Report \/ Other
  BY <1>5, InsideTakes
<1> QED  BY <1>1, <1>2, <1>3, <1>4, <1>5 DEF Next

LEMMA ReaderStutter == ReaderInRing /\ UNCHANGED vars => ReaderInRing'
  BY DEF ReaderInRing, vars, R!Wrap

-----------------------------------------------------------------------------

(* at_read.c, ringbuffer.c: the ring of the reader is in order whatever it  *)
(* is given and in whatever pieces, and the connection is only given up     *)
(* with a full buffer.                                                      *)
THEOREM ReaderRing == Spec => []ReaderInRing
<1>1. ReaderInRing /\ [Next]_vars => ReaderInRing'
  BY ReaderNext, ReaderStutter
<1> QED  BY ReaderInit, <1>1, PTL DEF Spec

(* at_read.c: what the modem says is taken in the order it was said, and no *)
(* byte is in two results.                                                  *)
THEOREM ReaderInOrder == Spec => BytesInOrder
<1>1. ReaderInRing /\ [Next]_vars => [Growing \/ Taking]_vars
  BY ReaderNext
<1>2. ReaderInRing /\ [Next]_vars => ReaderInRing'
  BY ReaderNext, ReaderStutter
<1>3. Spec => [][Growing \/ Taking]_vars
  BY ReaderInit, <1>1, <1>2, PTL DEF Spec
<1> QED  BY <1>3, PTL DEF BytesInOrder, Growing, Taking, Handed
=============================================================================
