--------------------------- MODULE MixBufferProofs ---------------------------
(***************************************************************************)
(* The ring and the positions of the streams stay in step, and what is     *)
(* played is the queue of sums of MixQueue, for every size of the buffer,  *)
(* set of streams, of frames and of samples.                               *)
(***************************************************************************)
EXTENDS MixBuffer, SequenceTheorems, TLAPS

(* InStep for any ring, list of streams, and positions.                     *)
Closed(r) == r \in Ring /\ r.write = Wrap(r.read + r.used)

At(r, u, w) == u \in 0..r.used /\ w = Wrap(r.read + u)

-----------------------------------------------------------------------------
(* The ring *)

LEMMA WrapPlace == ASSUME NEW i \in 0..(2 * Size - 1) PROVE Wrap(i) \in Place
  BY SizeAssumption DEF Wrap, Place

LEMMA WrapTwice ==
  ASSUME NEW i \in 0..(2 * Size - 1), NEW n \in 0..Size, i + n < 2 * Size
  PROVE  /\ Wrap(i) + n \in 0..(2 * Size - 1)
         /\ Wrap(Wrap(i) + n) = Wrap(i + n)
  BY SizeAssumption DEF Wrap

LEMMA EmptyClosed ==
  ASSUME NEW c \in [Place -> Cell]
  PROVE  /\ Closed(Empty(c))
         /\ Empty(c).read = 0 /\ Empty(c).used = 0 /\ Empty(c).buffer = c
  BY SizeAssumption DEF Closed, Ring, Empty, Wrap, Place

(* Consuming n samples shortens the ring, and moves its beginning, if there *)
(* is more than that in it.                                                 *)
LEMMA ReadUpdClosed ==
  ASSUME NEW r, Closed(r), NEW n \in Nat
  PROVE  /\ Closed(ReadUpd(r, n))
         /\ ReadUpd(r, n).buffer = r.buffer
         /\ ReadUpd(r, n).used = IF n < r.used THEN r.used - n ELSE 0
         /\ ReadUpd(r, n).read \in Place
         /\ n < r.used => ReadUpd(r, n).read = Wrap(r.read + n)
<1>r. /\ r.buffer \in [Place -> Cell] /\ r.used \in 0..Size
      /\ r.read \in Place /\ r.write \in Place
      /\ r.write = Wrap(r.read + r.used)
  BY DEF Closed, Ring
<1>1. CASE n = 0 \/ r.used = 0
  <2>1. ReadUpd(r, n) = r
    BY <1>1, <1>r DEF ReadUpd, Least
  <2>2. r.used > 0 => Wrap(r.read + n) = r.read
    BY <1>1, <1>r, SizeAssumption DEF Wrap, Place
  <2> QED  BY <1>1, <1>r, <2>1, <2>2
<1>2. CASE n > 0 /\ r.used > 0 /\ n >= r.used
  <2>1. ReadUpd(r, n) = Empty(r.buffer)
    BY <1>2, <1>r DEF ReadUpd, Least
  <2>2. 0 \in Place
    BY SizeAssumption DEF Place
  <2>3. ~(n < r.used)
    BY <1>2, <1>r
  <2>4. /\ Closed(Empty(r.buffer))
        /\ Empty(r.buffer).read = 0 /\ Empty(r.buffer).used = 0
        /\ Empty(r.buffer).buffer = r.buffer
    BY <1>r, EmptyClosed
  <2> QED  BY <2>1, <2>2, <2>3, <2>4
<1>3. CASE n > 0 /\ n < r.used
  <2> DEFINE q == [buffer |-> r.buffer, used |-> r.used - n,
                   read |-> Wrap(r.read + n), write |-> r.write]
  <2>1. ReadUpd(r, n) = q
    <3>1. Least(n, r.used) = n
      BY <1>3 DEF Least
    <3> QED  BY <1>3, <1>r, <3>1 DEF ReadUpd
  <2>2. /\ r.read + n \in 0..(2 * Size - 1)
        /\ r.read + n + (r.used - n) = r.read + r.used
        /\ r.read + r.used < 2 * Size
        /\ r.used - n \in 0..Size
    BY <1>3, <1>r, SizeAssumption DEF Place
  <2>3. Wrap(r.read + n) \in Place
    BY <2>2, WrapPlace
  <2>4. Wrap(Wrap(r.read + n) + (r.used - n)) = Wrap(r.read + r.used)
    BY <2>2, WrapTwice
  <2>5. q \in Ring
    BY <1>r, <2>2, <2>3 DEF Ring
  <2>6. Closed(q)
    BY <1>r, <2>4, <2>5 DEF Closed
  <2> QED  BY <1>3, <2>1, <2>3, <2>6
<1> QED  BY <1>1, <1>2, <1>3, <1>r

(* Writing adds as much as fits at the write position.                      *)
LEMMA WrittenType ==
  ASSUME NEW r \in Ring, NEW data \in Seq(Cell), NEW n \in 0..Len(data),
         NEW method \in [Cell \X Cell -> Cell]
  PROVE  Written(r, data, n, method) \in [Place -> Cell]
<1> SUFFICES ASSUME NEW i \in Place
             PROVE  (IF Ahead(r, i) < n
                     THEN method[<<r.buffer[i], data[Ahead(r, i) + 1]>>]
                     ELSE r.buffer[i]) \in Cell
  BY DEF Written
<1>1. r.buffer[i] \in Cell
  BY DEF Ring
<1>2. CASE Ahead(r, i) < n
  <2>1. r.write \in 0..(Size - 1) /\ i \in 0..(Size - 1) /\ Size \in Nat
    BY SizeAssumption DEF Ring, Place
  <2>2. Ahead(r, i) + 1 \in 1..Len(data)
    <3>1. Ahead(r, i) \in Nat
      BY <2>1 DEF Ahead
    <3>2. Ahead(r, i) + 1 <= n
      BY <1>2, <3>1
    <3> QED  BY <3>1, <3>2
  <2>3. data[Ahead(r, i) + 1] \in Cell
    BY <2>2
  <2> QED  BY <1>1, <1>2, <2>3
<1> QED  BY <1>1, <1>2

LEMMA WriteCoreRing ==
  ASSUME NEW r \in Ring, NEW data \in Seq(Cell), r.used + Len(data) <= Size,
         NEW method \in [Cell \X Cell -> Cell]
  PROVE  /\ WriteCore(r, data, method) \in Ring
         /\ WriteCore(r, data, method).used = r.used + Len(data)
         /\ WriteCore(r, data, method).read = r.read
         /\ WriteCore(r, data, method).write = Wrap(r.write + Len(data))
<1> DEFINE n == Len(data)
<1>r. r.used \in 0..Size /\ r.read \in Place /\ r.write \in Place
  BY DEF Ring
<1>l. n \in Nat
  OBVIOUS
<1>n. n \in 0..Size /\ r.used + n \in 0..Size /\ n = Least(Len(data), Free(r))
  BY <1>r, <1>l, SizeAssumption DEF Least, Free
<1>w. r.write + n \in 0..(2 * Size - 1)
  BY <1>n, <1>r, SizeAssumption DEF Place
<1>1. CASE n = 0
  <2>1. WriteCore(r, data, method) = r
    BY <1>1, <1>n DEF WriteCore
  <2>2. Wrap(r.write + n) = r.write
    BY <1>1, <1>r, SizeAssumption DEF Wrap, Place
  <2> QED  BY <1>1, <1>n, <1>r, <2>1, <2>2
<1>2. CASE n # 0
  <2> DEFINE q == [buffer |-> Written(r, data, n, method), used |-> r.used + n,
                   read |-> r.read, write |-> Wrap(r.write + n)]
  <2>1. WriteCore(r, data, method) = q
    BY <1>2, <1>n DEF WriteCore
  <2>2. Wrap(r.write + n) \in Place
    BY <1>w, WrapPlace
  <2>3. Written(r, data, n, method) \in [Place -> Cell]
    <3>1. n \in 0..Len(data)
      BY <1>l
    <3> HIDE DEF n
    <3> QED  BY <3>1, WrittenType
  <2>4. q \in Ring
    BY <1>n, <1>r, <2>2, <2>3 DEF Ring
  <2> QED  BY <2>1, <2>4
<1> QED  BY <1>1, <1>2

-----------------------------------------------------------------------------
(* Streams *)

LEMMA Piece ==
  ASSUME NEW data \in Seq(Cell), NEW a \in Nat, NEW b \in a..Len(data)
  PROVE  /\ SubSeq(data, a + 1, b) \in Seq(Cell)
         /\ Len(SubSeq(data, a + 1, b)) = b - a
         /\ \A i \in 1..(b - a) : SubSeq(data, a + 1, b)[i] = data[a + i]
<1>1. Len(data) \in Nat /\ a + 1 \in Int /\ b \in Int
  OBVIOUS
<1>2. \A i \in (a + 1)..b : data[i] \in Cell
  BY <1>1
<1>3. /\ SubSeq(data, a + 1, b) \in Seq(Cell)
      /\ Len(SubSeq(data, a + 1, b)) = IF a + 1 <= b THEN b - (a + 1) + 1 ELSE 0
      /\ \A i \in 1..(b - (a + 1) + 1) : SubSeq(data, a + 1, b)[i] = data[a + 1 + i - 1]
  BY <1>1, <1>2, SubSeqProperties
<1>4. b - (a + 1) + 1 = b - a /\ \A i \in 1..(b - a) : a + 1 + i - 1 = a + i
  BY <1>1
<1> QED  BY <1>1, <1>3, <1>4

LEMMA CopyType == Copy \in [Cell \X Cell -> Cell]
  BY DEF Copy

(* Mixing moves the stream, and nothing else but the cells.                 *)
LEMMA MixWriteAt ==
  ASSUME NEW r, Closed(r), NEW u, NEW w, At(r, u, w), NEW data \in Seq(Cell),
         u + Len(data) <= r.used
  PROVE  LET m == MixWrite(r, u, w, data)
         IN  /\ Closed(m.ring)
             /\ m.ring.read = r.read /\ m.ring.used = r.used
             /\ At(m.ring, m.used, m.write)
             /\ m.used = u + Len(data)
<1> DEFINE local == [buffer |-> r.buffer, used |-> u, read |-> r.read, write |-> w]
           n == Len(data)
           c == WriteCore(local, data, Sum)
           q == [buffer |-> c.buffer, used |-> r.used, read |-> r.read, write |-> r.write]
<1>r. /\ r.buffer \in [Place -> Cell] /\ r.used \in 0..Size
      /\ r.read \in Place /\ r.write \in Place
      /\ r.write = Wrap(r.read + r.used)
  BY DEF Closed, Ring
<1>n. n \in Nat
  OBVIOUS
<1>u. /\ u \in 0..Size /\ w = Wrap(r.read + u)
      /\ r.read + u \in 0..(2 * Size - 1)
      /\ r.read + u + n < 2 * Size
      /\ r.read + u + n = r.read + (u + n)
      /\ n \in 0..Size /\ u + n \in 0..r.used
  <2>1. u \in 0..r.used /\ w = Wrap(r.read + u)
    BY DEF At
  <2>2. u + n <= r.used
    OBVIOUS
  <2> HIDE DEF n
  <2>3. r.read \in 0..(Size - 1)
    BY <1>r DEF Place
  <2>4. r.used \in 0..Size /\ Size \in Nat
    BY <1>r, SizeAssumption
  <2> HIDE DEF At, local
  <2>5. u \in Nat /\ r.read \in Nat
    BY <2>1, <2>3, <2>4
  <2>6. u <= Size /\ n <= Size /\ r.read < Size /\ r.read + u + n < 2 * Size
    <3>1. u + n <= Size
      BY <1>n, <2>2, <2>4, <2>5
    <3>2. u <= Size /\ n <= Size
      BY <1>n, <2>5, <3>1, <2>4
    <3>3. r.read < Size
      BY <2>3, <2>4
    <3> QED  BY <1>n, <2>4, <2>5, <3>1, <3>2, <3>3
  <2> QED  BY <1>n, <2>1, <2>2, <2>4, <2>5, <2>6
<1>1. local \in Ring
  <2>1. w \in Place
    BY <1>u, WrapPlace
  <2> QED  BY <1>r, <1>u, <2>1 DEF Ring
<1>2. local.used + Len(data) <= Size
  BY <1>n, <1>r, <1>u, SizeAssumption
<1>3. c \in Ring /\ c.used = u + n /\ c.write = Wrap(w + n)
  <2>1. /\ c \in Ring /\ c.used = local.used + Len(data)
        /\ c.write = Wrap(local.write + Len(data))
    <3> HIDE DEF local
    <3> QED  BY <1>1, <1>2, SumAssumption, WriteCoreRing
  <2> QED  BY <2>1
<1>4. c.write = Wrap(r.read + (u + n))
  <2>1. Wrap(w + n) = Wrap(r.read + u + n)
    BY <1>u, WrapTwice
  <2> QED  BY <1>3, <1>u, <2>1
<1>5. q \in Ring
  <2>1. c.buffer \in [Place -> Cell]
    BY <1>3 DEF Ring
  <2> QED  BY <1>r, <2>1 DEF Ring
<1>6. MixWrite(r, u, w, data) = [ring |-> q, used |-> c.used, write |-> c.write]
  BY DEF MixWrite
<1> HIDE DEF c, n
<1>7. Closed(q)
  BY <1>5, <1>r DEF Closed
<1>8. At(q, c.used, c.write)
  BY <1>3, <1>4, <1>u DEF At
<1> HIDE DEF local
<1> QED  BY <1>3, <1>6, <1>7, <1>8 DEF n

(* Adding to the end moves the ring's write position.                       *)
LEMMA CopyClosed ==
  ASSUME NEW r, Closed(r), NEW data \in Seq(Cell), r.used + Len(data) <= Size
  PROVE  LET t == WriteCore(r, data, Copy)
         IN  /\ Closed(t)
             /\ t.read = r.read /\ t.used = r.used + Len(data)
             /\ At(t, t.used, t.write)
<1> DEFINE n == Len(data)
           t == WriteCore(r, data, Copy)
<1>r. /\ r \in Ring /\ r.used \in 0..Size /\ r.read \in Place
      /\ r.write = Wrap(r.read + r.used)
  BY DEF Closed, Ring
<1>n. n \in Nat
  OBVIOUS
<1>u. /\ r.read + r.used \in 0..(2 * Size - 1)
      /\ r.read + r.used + n < 2 * Size
      /\ n \in 0..Size /\ r.used + n \in 0..Size
      /\ r.read + r.used + n = r.read + (r.used + n)
  BY <1>n, <1>r, SizeAssumption DEF Place
<1>2. t \in Ring /\ t.used = r.used + n /\ t.read = r.read /\ t.write = Wrap(r.write + n)
  <2>1. r \in Ring
    BY <1>r
  <2> QED  BY <2>1, CopyType, WriteCoreRing
<1> HIDE DEF n
<1>3. Wrap(r.write + n) = Wrap(r.read + (r.used + n))
  BY <1>r, <1>u, WrapTwice
<1> HIDE DEF t
<1>4. Closed(t)
  BY <1>2, <1>3 DEF Closed
<1>5. At(t, t.used, t.write)
  BY <1>2, <1>3, <1>u DEF At
<1> QED  BY <1>2, <1>4, <1>5 DEF t, n

(* A frame for which a stream has room is mixed, then added: the ring grows *)
(* to where the stream is, if that is beyond its end.                       *)
LEMMA MixbWriteAt ==
  ASSUME NEW r, Closed(r), NEW u, NEW w, At(r, u, w), NEW f \in Seq(Cell),
         u + Len(f) <= Size
  PROVE  LET m == MixbWrite(r, u, w, f)
         IN  /\ Closed(m.ring)
             /\ m.ring.read = r.read /\ r.used <= m.ring.used
             /\ At(m.ring, m.used, m.write)
             /\ m.used = u + Len(f)
<1> DEFINE n == Len(f)
           both == r.used - u
           front == SubSeq(f, 1, both)
           back == SubSeq(f, both + 1, n)
           m == MixWrite(r, u, w, front)
           tail == WriteCore(m.ring, back, Copy)
<1>r. r.used \in 0..Size /\ Size \in Nat /\ u \in 0..r.used
  BY SizeAssumption DEF Closed, Ring, At
<1>n. n \in Nat /\ u + n <= Size
  OBVIOUS
<1> HIDE DEF n
<1>b. both \in Nat /\ u + both = r.used
  BY <1>r
<1>l. n = Least(Len(f), Size - u)
  BY <1>n, <1>r DEF Least, n
<1>1. CASE n > both
  <2>1. /\ front \in Seq(Cell) /\ Len(front) = both
    <3>1. 0 \in Nat /\ both \in 0..Len(f) /\ 0 + 1 = 1 /\ both - 0 = both
      BY <1>1, <1>b, <1>n DEF n
    <3> HIDE DEF both
    <3>2. /\ SubSeq(f, 0 + 1, both) \in Seq(Cell)
          /\ Len(SubSeq(f, 0 + 1, both)) = both - 0
      BY <3>1, Piece
    <3> QED  BY <3>1, <3>2
  <2>2. back \in Seq(Cell) /\ Len(back) = n - both
    <3>1. n \in both..Len(f)
      BY <1>1, <1>b, <1>n DEF n
    <3> HIDE DEF both
    <3> QED  BY <1>b, <3>1, Piece
  <2>3. /\ Closed(m.ring)
        /\ m.ring.read = r.read /\ m.ring.used = r.used
    <3>1. u + Len(front) <= r.used
      BY <1>b, <1>r, <2>1
    <3> HIDE DEF front
    <3> QED  BY <2>1, <3>1, MixWriteAt
  <2>4. m.ring.used + Len(back) <= Size /\ m.ring.used + Len(back) = u + n
    <3>1. m.ring.used + Len(back) = r.used + (n - both)
      BY <2>2, <2>3
    <3>2. r.used + (n - both) = u + n
      BY <1>b, <1>n, <1>r
    <3> QED  BY <1>n, <1>r, <3>1, <3>2
  <2> HIDE DEF m, back
  <2>5. /\ Closed(tail)
        /\ tail.read = m.ring.read /\ tail.used = m.ring.used + Len(back)
        /\ At(tail, tail.used, tail.write)
    BY <2>2, <2>3, <2>4, CopyClosed
  <2>6. MixbWrite(r, u, w, f) = [ring |-> tail, used |-> tail.used, write |-> tail.write]
    BY <1>1, <1>l DEF MixbWrite, m, back
  <2>7. tail.used = u + n /\ r.used <= u + n
    BY <1>1, <1>b, <1>n, <1>r, <2>4, <2>5
  <2> HIDE DEF tail
  <2> QED  BY <2>3, <2>5, <2>6, <2>7 DEF n
<1>2. CASE n <= both
  <2> DEFINE d == SubSeq(f, 1, n)
  <2>1. d \in Seq(Cell) /\ Len(d) = n
    <3>1. 0 \in Nat /\ n \in 0..Len(f) /\ 0 + 1 = 1 /\ n - 0 = n
      BY <1>n DEF n
    <3>2. /\ SubSeq(f, 0 + 1, n) \in Seq(Cell)
          /\ Len(SubSeq(f, 0 + 1, n)) = n - 0
      BY <3>1, Piece
    <3> QED  BY <3>1, <3>2
  <2>2. u + Len(d) <= r.used
    BY <1>2, <1>b, <1>n, <1>r, <2>1
  <2>3. MixbWrite(r, u, w, f) = MixWrite(r, u, w, d)
    <3>1. ~(n > both)
      BY <1>2, <1>b, <1>n
    <3> QED  BY <1>l, <3>1 DEF MixbWrite
  <2> HIDE DEF d
  <2>4. LET q == MixWrite(r, u, w, d)
        IN  /\ Closed(q.ring)
            /\ q.ring.read = r.read /\ q.ring.used = r.used
            /\ At(q.ring, q.used, q.write)
            /\ q.used = u + Len(d)
    BY <2>1, <2>2, MixWriteAt
  <2> QED  BY <1>r, <2>1, <2>3, <2>4 DEF n
<1> QED  BY <1>1, <1>2, <1>b, <1>n

-----------------------------------------------------------------------------
(* All streams *)

Streams(r, A, U, W) ==
    /\ Closed(r)
    /\ A \subseteq Stream
    /\ U \in [Stream -> 0..Size]
    /\ W \in [Stream -> Place]
    /\ \A s \in A : At(r, U[s], W[s])

LEMMA InvIsStreams == (MixTypeOK /\ InStep) <=> Streams(rb, attached, used, write)
<1>1. ASSUME rb \in Ring, attached \subseteq Stream, used \in [Stream -> 0..Size]
      PROVE  \A s \in attached :
                At(rb, used[s], write[s])
                  <=> used[s] <= rb.used /\ write[s] = Wrap(rb.read + used[s])
  <2> TAKE s \in attached
  <2>1. used[s] \in 0..Size /\ rb.used \in 0..Size /\ Size \in Nat
    BY <1>1, SizeAssumption DEF Ring
  <2> QED  BY <2>1 DEF At
<1> QED  BY <1>1 DEF MixTypeOK, InStep, Streams, Closed

(* Playing n samples leaves every stream where it was, less n samples.      *)
LEMMA ReadUpdStreams ==
  ASSUME Streams(rb, attached, used, write), NEW n \in Nat
  PROVE  Streams(ReadUpd(rb, n), attached, UsedAfter(n), WriteAfter(n))
<1> DEFINE r == ReadUpd(rb, n)
<1>1. /\ Closed(rb) /\ attached \subseteq Stream
      /\ used \in [Stream -> 0..Size] /\ write \in [Stream -> Place]
      /\ \A s \in attached : used[s] \in 0..rb.used
      /\ rb.used \in 0..Size /\ Size \in Nat
  BY SizeAssumption DEF Streams, At, Closed, Ring
<1>2. /\ Closed(r) /\ r.used = (IF n < rb.used THEN rb.used - n ELSE 0)
      /\ r.read \in Place
  BY <1>1, ReadUpdClosed
<1> HIDE DEF r
<1>3. UsedAfter(n) \in [Stream -> 0..Size]
  BY <1>1 DEF UsedAfter
<1>4. \A s \in attached : UsedAfter(n)[s] \in 0..r.used
  <2> TAKE s \in attached
  <2>1. UsedAfter(n)[s] = IF used[s] > n THEN used[s] - n ELSE 0
    BY <1>1 DEF UsedAfter
  <2> QED  BY <1>1, <1>2, <2>1
<1>5. \A s \in attached : WriteAfter(n)[s] = Wrap(r.read + UsedAfter(n)[s])
  BY <1>1 DEF WriteAfter, r
<1>6. WriteAfter(n) \in [Stream -> Place]
  <2> SUFFICES ASSUME NEW s \in Stream
               PROVE  (IF s \notin attached THEN write[s]
                       ELSE Wrap(r.read + UsedAfter(n)[s])) \in Place
    BY DEF WriteAfter, r
  <2>1. CASE s \notin attached
    BY <1>1, <2>1
  <2>2. CASE s \in attached
    <3>1. r.read \in 0..(Size - 1) /\ UsedAfter(n)[s] \in 0..Size
      BY <1>2, <1>3 DEF Place
    <3>2. r.read + UsedAfter(n)[s] \in 0..(2 * Size - 1)
      BY <1>1, <3>1
    <3> QED  BY <2>2, <3>2, WrapPlace
  <2> QED  BY <2>1, <2>2
<1> QED  BY <1>1, <1>2, <1>3, <1>4, <1>5, <1>6 DEF Streams, At, r

(* A stream writes; for the others the ring only gets longer.               *)
LEMMA MixbWriteStreams ==
  ASSUME NEW r, NEW U, NEW W, Streams(r, attached, U, W),
         NEW s \in attached, NEW f \in Seq(Cell), U[s] + Len(f) <= Size
  PROVE  LET m == MixbWrite(r, U[s], W[s], f)
         IN  Streams(m.ring, attached, [U EXCEPT ![s] = m.used], [W EXCEPT ![s] = m.write])
<1> DEFINE m == MixbWrite(r, U[s], W[s], f)
           V == [U EXCEPT ![s] = m.used]
           X == [W EXCEPT ![s] = m.write]
<1>1. /\ Closed(r) /\ attached \subseteq Stream
      /\ U \in [Stream -> 0..Size] /\ W \in [Stream -> Place]
      /\ \A t \in attached : At(r, U[t], W[t])
      /\ r.used \in 0..Size /\ Size \in Nat
  BY SizeAssumption DEF Streams, Closed, Ring
<1>2. /\ Closed(m.ring)
      /\ m.ring.read = r.read /\ r.used <= m.ring.used
      /\ At(m.ring, m.used, m.write)
  BY <1>1, MixbWriteAt
<1> HIDE DEF m
<1>3. m.ring.used \in 0..Size /\ m.ring.read \in Place
  BY <1>2 DEF Closed, Ring
<1>4. m.used \in 0..Size /\ m.write \in Place
  <2>1. m.used \in 0..m.ring.used /\ m.write = Wrap(m.ring.read + m.used)
    BY <1>2 DEF At
  <2>2. m.ring.read + m.used \in 0..(2 * Size - 1) /\ m.used \in 0..Size
    <3>1. m.ring.read \in 0..(Size - 1) /\ m.ring.used \in 0..Size /\ Size \in Nat
      BY <1>1, <1>3 DEF Place
    <3>2. m.used \in 0..Size
      BY <2>1, <3>1
    <3> QED  BY <3>1, <3>2
  <2> QED  BY <2>1, <2>2, WrapPlace
<1>5. V \in [Stream -> 0..Size] /\ X \in [Stream -> Place]
  BY <1>1, <1>4
<1>6. \A t \in attached : At(m.ring, V[t], X[t])
  <2> TAKE t \in attached
  <2>1. CASE t = s
    <3>1. V[t] = m.used /\ X[t] = m.write
      BY <1>1, <2>1
    <3> QED  BY <1>2, <3>1
  <2>2. CASE t # s
    <3>1. V[t] = U[t] /\ X[t] = W[t]
      BY <1>1, <2>2
    <3>2. U[t] \in 0..r.used /\ W[t] = Wrap(r.read + U[t])
      BY <1>1 DEF At
    <3>3. U[t] \in 0..m.ring.used
      BY <1>1, <1>2, <1>3, <3>2
    <3> QED  BY <1>2, <3>1, <3>2, <3>3 DEF At
  <2> QED  BY <2>1, <2>2
<1> QED  BY <1>1, <1>2, <1>5, <1>6 DEF Streams, m

LEMMA WriteStreams ==
  ASSUME Streams(rb, attached, used, write),
         NEW s \in attached, NEW f \in Frames, Write(s, f)
  PROVE  Streams(rb', attached', used', write')
<1> DEFINE n == Overflow(s, f)
           r == IF n = 0 THEN rb ELSE ReadUpd(rb, n)
           u == IF n = 0 THEN used ELSE UsedAfter(n)
           w == IF n = 0 THEN write ELSE WriteAfter(n)
           m == MixbWrite(r, u[s], w[s], f)
<1>1. f \in Seq(Cell) /\ Len(f) \in 1..Size /\ Size \in Nat
  BY FramesAssumption, SizeAssumption
<1>2. used[s] \in 0..Size /\ s \in Stream
  BY DEF Streams
<1>3. n = IF Size - used[s] < Len(f) THEN Len(f) - (Size - used[s]) ELSE 0
  BY DEF Overflow
<1> HIDE DEF n
<1>4. n \in Nat
  BY <1>1, <1>2, <1>3
<1>5. Streams(r, attached, u, w)
  BY <1>4, ReadUpdStreams
<1>6. u[s] + Len(f) <= Size
  <2>1. CASE n = 0
    BY <1>1, <1>2, <1>3, <2>1
  <2>2. CASE n # 0
    <3>1. u[s] = IF used[s] > n THEN used[s] - n ELSE 0
      BY <1>2, <2>2 DEF UsedAfter
    <3> QED  BY <1>1, <1>2, <1>3, <2>2, <3>1
  <2> QED  BY <2>1, <2>2
<1>7. /\ rb' = m.ring /\ attached' = attached
      /\ used' = [u EXCEPT ![s] = m.used] /\ write' = [w EXCEPT ![s] = m.write]
  BY DEF Write, n
<1> HIDE DEF r, u, w
<1>8. Streams(m.ring, attached, [u EXCEPT ![s] = m.used], [w EXCEPT ![s] = m.write])
  BY <1>1, <1>5, <1>6, MixbWriteStreams
<1> QED  BY <1>7, <1>8

-----------------------------------------------------------------------------
(* The steps *)

MixInv == Streams(rb, attached, used, write)

LEMMA MixInitInv == MixInit => MixInv
<1> SUFFICES ASSUME MixInit PROVE MixInv
  OBVIOUS
<1>1. PICK c \in Cell : rb = Empty([i \in Place |-> c])
  BY DEF MixInit
<1>2. Closed(rb)
  BY <1>1, EmptyClosed
<1>3. /\ attached = {} /\ used = [s \in Stream |-> 0] /\ write = [s \in Stream |-> 0]
      /\ 0 \in Place /\ 0 \in 0..Size
  BY SizeAssumption DEF MixInit, Place
<1> QED  BY <1>2, <1>3 DEF MixInv, Streams

LEMMA MixNextInv == MixInv /\ [MixNext]_mixVars => MixInv'
<1> SUFFICES ASSUME MixInv, [MixNext]_mixVars PROVE MixInv'
  OBVIOUS
<1>i. /\ Closed(rb) /\ attached \subseteq Stream
      /\ used \in [Stream -> 0..Size] /\ write \in [Stream -> Place]
      /\ \A s \in attached : At(rb, used[s], write[s])
      /\ rb.used \in 0..Size /\ rb.read \in Place /\ rb.buffer \in [Place -> Cell]
      /\ 0 \in Place /\ Size \in Nat /\ 0 \in 0..Size
  BY SizeAssumption DEF MixInv, Streams, Closed, Ring, Place
<1>1. CASE attached = {} /\ MixbInit
  <2>1. /\ rb' = Empty(rb.buffer) /\ attached' = {}
        /\ used' = used /\ write' = write
    BY <1>1 DEF MixbInit
  <2>2. Closed(Empty(rb.buffer))
    BY <1>i, EmptyClosed
  <2> QED  BY <1>i, <2>1, <2>2 DEF MixInv, Streams
<1>2. ASSUME NEW s \in Stream \ attached, Attach(s) PROVE MixInv'
  <2>1. /\ rb' = rb /\ attached' = attached \cup {s}
        /\ used' = [used EXCEPT ![s] = 0] /\ write' = [write EXCEPT ![s] = rb.read]
    BY <1>2 DEF Attach
  <2>2. used' \in [Stream -> 0..Size] /\ write' \in [Stream -> Place]
    BY <1>i, <2>1
  <2>3. At(rb, 0, rb.read)
    BY <1>i, SizeAssumption DEF At, Wrap, Place
  <2>4. \A t \in attached' : At(rb, used'[t], write'[t])
    BY <1>i, <2>1, <2>3
  <2> QED  BY <1>i, <2>1, <2>2, <2>4 DEF MixInv, Streams
<1>3. ASSUME NEW s \in attached, Detach(s) PROVE MixInv'
  <2>1. /\ rb' = rb /\ attached' = attached \ {s}
        /\ used' = [used EXCEPT ![s] = 0] /\ write' = [write EXCEPT ![s] = 0]
    BY <1>3 DEF Detach
  <2>2. used' \in [Stream -> 0..Size] /\ write' \in [Stream -> Place]
    BY <1>i, <2>1
  <2>3. \A t \in attached' : At(rb, used'[t], write'[t])
    BY <1>i, <2>1
  <2> QED  BY <1>i, <2>1, <2>2, <2>3 DEF MixInv, Streams
<1>4. ASSUME NEW s \in attached, NEW f \in Frames, Write(s, f) PROVE MixInv'
  BY <1>4, WriteStreams DEF MixInv
<1>5. CASE Play
  <2> DEFINE n == Least(FrameSize, rb.used)
  <2>1. n \in Nat
    BY <1>i, FramesAssumption DEF Least
  <2> HIDE DEF n
  <2>2. Streams(ReadUpd(rb, n), attached, UsedAfter(n), WriteAfter(n))
    BY <2>1, ReadUpdStreams DEF MixInv
  <2>3. CASE n > 0
    <3>1. /\ rb' = ReadUpd(rb, n) /\ attached' = attached
          /\ used' = UsedAfter(n) /\ write' = WriteAfter(n)
      BY <1>5, <2>3 DEF Play, n
    <3> QED  BY <2>2, <3>1 DEF MixInv
  <2>4. CASE ~(n > 0)
    <3>1. UNCHANGED mixVars
      BY <1>5, <2>4 DEF Play, n
    <3> QED  BY <3>1 DEF MixInv, mixVars
  <2> QED  BY <2>3, <2>4
<1>6. CASE UNCHANGED mixVars
  BY <1>6 DEF MixInv, mixVars
<1> QED  BY <1>1, <1>2, <1>3, <1>4, <1>5, <1>6 DEF MixNext

(* Whoever uses the mix buffer as it expects (MixNext) finds ring, list and *)
(* positions of their types, and in step: what six functions of             *)
(* ringbuffer.c and mixbuffer.c move one by one agrees after each call.     *)
THEOREM MixInStep == MixSpec => [](MixTypeOK /\ InStep)
<1>1. MixInv <=> MixTypeOK /\ InStep
  BY InvIsStreams DEF MixInv
<1> QED  BY <1>1, MixInitInv, MixNextInv, PTL DEF MixSpec

-----------------------------------------------------------------------------
(* The queue of sums *)

(* How far cell k, counted from the beginning, is from the write position.  *)
LEMMA AheadOf ==
  ASSUME NEW l, NEW b \in Place, NEW u \in 0..Size, l.write = Wrap(b + u),
         NEW k \in 0..(Size - 1)
  PROVE  /\ Wrap(b + k) \in Place
         /\ Ahead(l, Wrap(b + k)) = IF k >= u THEN k - u ELSE k + Size - u
  BY SizeAssumption DEF Place, Wrap, Ahead

(* Writing changes the cells behind those that are used, as many as it has. *)
LEMMA CoreCells ==
  ASSUME NEW l \in Ring, l.write = Wrap(l.read + l.used), NEW data \in Seq(Cell),
         l.used + Len(data) <= Size, NEW method, NEW k \in 0..(Size - 1)
  PROVE  LET c == WriteCore(l, data, method).buffer[Wrap(l.read + k)]
             old == l.buffer[Wrap(l.read + k)]
         IN  c = IF k >= l.used /\ k < l.used + Len(data)
                 THEN method[<<old, data[k - l.used + 1]>>] ELSE old
<1> DEFINE n == Len(data)
           p == Wrap(l.read + k)
<1>r. l.used \in 0..Size /\ l.read \in Place
  BY DEF Ring
<1>n. n \in Nat
  OBVIOUS
<1>1. n = Least(Len(data), Free(l))
  BY <1>n, <1>r, SizeAssumption DEF Least, Free
<1>2. /\ p \in Place
      /\ Ahead(l, p) = IF k >= l.used THEN k - l.used ELSE k + Size - l.used
  BY <1>r, AheadOf
<1>3. CASE n = 0
  <2>1. WriteCore(l, data, method) = l
    BY <1>1, <1>3 DEF WriteCore
  <2> QED
    BY <1>3, <1>r, <2>1
<1>4. CASE n # 0
  <2>1. WriteCore(l, data, method).buffer = Written(l, data, n, method)
    BY <1>1, <1>4 DEF WriteCore
  <2>2. Written(l, data, n, method)[p]
          = IF Ahead(l, p) < n THEN method[<<l.buffer[p], data[Ahead(l, p) + 1]>>] ELSE l.buffer[p]
    BY <1>2 DEF Written
  <2> HIDE DEF n, p
  <2>3. CASE k >= l.used /\ k < l.used + n
    <3>1. Ahead(l, p) = k - l.used /\ Ahead(l, p) < n
      BY <1>2, <1>n, <1>r, <2>3, SizeAssumption
    <3> QED
      BY <2>1, <2>2, <2>3, <3>1 DEF n, p
  <2>4. CASE ~(k >= l.used /\ k < l.used + n)
    <3>1. ~(Ahead(l, p) < n)
      BY <1>2, <1>n, <1>r, <2>4, SizeAssumption DEF n
    <3> QED
      BY <2>1, <2>2, <2>4, <3>1 DEF n, p
  <2> QED
    BY <2>3, <2>4
<1> QED
  BY <1>3, <1>4

LEMMA AllRead ==
  ASSUME NEW r, Closed(r)
  PROVE  /\ ReadAll(r) \in Seq(Cell) /\ Len(ReadAll(r)) = r.used
         /\ \A k \in 1..r.used : ReadAll(r)[k] = r.buffer[Wrap(r.read + k - 1)]
<1>1. r.used \in 0..Size /\ r.read \in Place /\ r.buffer \in [Place -> Cell]
  BY DEF Closed, Ring
<1>2. \A k \in 1..r.used : Wrap(r.read + k - 1) \in Place
  BY <1>1, SizeAssumption DEF Wrap, Place
<1>3. \A k \in 1..r.used : r.buffer[Wrap(r.read + k - 1)] \in Cell
  BY <1>1, <1>2
<1> QED
  BY <1>1, <1>3 DEF ReadAll, ReadN

LEMMA SameSeq ==
  ASSUME NEW S, NEW p \in Seq(S), NEW q \in Seq(S), Len(p) = Len(q),
         \A k \in 1..Len(p) : p[k] = q[k]
  PROVE  p = q
  OBVIOUS

(* What is consumed is taken from the front of the queue.                   *)
LEMMA ReadUpdSkips ==
  ASSUME NEW r, Closed(r), NEW n \in Nat
  PROVE  ReadAll(ReadUpd(r, n)) = SubSeq(ReadAll(r), n + 1, Len(ReadAll(r)))
<1> DEFINE t == ReadUpd(r, n)
           q == ReadAll(r)
<1>1. /\ Closed(t) /\ t.buffer = r.buffer
      /\ t.used = (IF n < r.used THEN r.used - n ELSE 0)
      /\ n < r.used => t.read = Wrap(r.read + n)
  BY ReadUpdClosed
<1>2. /\ q \in Seq(Cell) /\ Len(q) = r.used
      /\ \A k \in 1..r.used : q[k] = r.buffer[Wrap(r.read + k - 1)]
  BY AllRead
<1>3. /\ ReadAll(t) \in Seq(Cell) /\ Len(ReadAll(t)) = t.used
      /\ \A k \in 1..t.used : ReadAll(t)[k] = t.buffer[Wrap(t.read + k - 1)]
  BY <1>1, AllRead
<1>4. r.used \in 0..Size /\ r.read \in Place /\ Size \in Nat
  BY SizeAssumption DEF Closed, Ring
<1> HIDE DEF t, q
<1>5. CASE n < r.used
  <2>1. n \in Nat /\ r.used \in n..Len(q)
    BY <1>2, <1>4, <1>5
  <2>2. /\ SubSeq(q, n + 1, r.used) \in Seq(Cell)
        /\ Len(SubSeq(q, n + 1, r.used)) = r.used - n
        /\ \A k \in 1..(r.used - n) : SubSeq(q, n + 1, r.used)[k] = q[n + k]
    BY <1>2, <2>1, Piece
  <2>3. \A k \in 1..(r.used - n) : ReadAll(t)[k] = q[n + k]
    <3> TAKE k \in 1..(r.used - n)
    <3>1. k \in 1..t.used /\ n + k \in 1..r.used
      BY <1>1, <1>4, <1>5
    <3>2. ReadAll(t)[k] = r.buffer[Wrap(Wrap(r.read + n) + k - 1)]
      BY <1>1, <1>3, <1>5, <3>1
    <3>3. q[n + k] = r.buffer[Wrap(r.read + (n + k) - 1)]
      BY <1>2, <3>1
    <3>4. Wrap(Wrap(r.read + n) + k - 1) = Wrap(r.read + (n + k) - 1)
      BY <1>4, <3>1, <1>5 DEF Wrap, Place
    <3> QED
      BY <3>2, <3>3, <3>4
  <2>4. Len(ReadAll(t)) = r.used - n
    BY <1>1, <1>3, <1>5
  <2>5. ReadAll(t) = SubSeq(q, n + 1, r.used)
    BY <1>3, <2>2, <2>3, <2>4, SameSeq
  <2> QED
    BY <1>2, <2>5 DEF t, q
<1>6. CASE ~(n < r.used)
  <2>1. Len(ReadAll(t)) = 0
    BY <1>1, <1>3, <1>6
  <2>2. ReadAll(t) = <<>>
    BY <1>3, <2>1
  <2>3. SubSeq(q, n + 1, Len(q)) = <<>>
    BY <1>2, <1>4, <1>6
  <2> QED
    BY <2>2, <2>3 DEF t, q
<1> QED
  BY <1>5, <1>6

(* What a stream says is added to what is there, from its position on.      *)
LEMMA MixWriteCells ==
  ASSUME NEW r, Closed(r), NEW u, NEW w, At(r, u, w), NEW data \in Seq(Cell),
         u + Len(data) <= r.used, NEW k \in 0..(Size - 1)
  PROVE  LET c == MixWrite(r, u, w, data).ring.buffer[Wrap(r.read + k)]
             old == r.buffer[Wrap(r.read + k)]
         IN  c = IF k >= u /\ k < u + Len(data) THEN Sum[<<old, data[k - u + 1]>>] ELSE old
<1> DEFINE local == [buffer |-> r.buffer, used |-> u, read |-> r.read, write |-> w]
<1>1. /\ r.buffer \in [Place -> Cell] /\ r.used \in 0..Size /\ r.read \in Place
      /\ u \in 0..r.used /\ w = Wrap(r.read + u) /\ Len(data) \in Nat
  BY DEF Closed, Ring, At
<1>2. u \in 0..Size /\ u + Len(data) <= Size
  BY <1>1, SizeAssumption
<1>3. w \in Place
  BY <1>1, <1>2, AheadOf, SizeAssumption DEF Wrap, Place
<1>4. local \in Ring
  BY <1>1, <1>2, <1>3 DEF Ring
<1>5. local.write = Wrap(local.read + local.used) /\ local.used + Len(data) <= Size
  BY <1>1, <1>2
<1>6. MixWrite(r, u, w, data).ring.buffer = WriteCore(local, data, Sum).buffer
  BY DEF MixWrite
<1>7. /\ local.buffer = r.buffer /\ local.used = u /\ local.read = r.read
  OBVIOUS
<1> HIDE DEF local
<1>8. LET c == WriteCore(local, data, Sum).buffer[Wrap(local.read + k)]
          old == local.buffer[Wrap(local.read + k)]
      IN  c = IF k >= local.used /\ k < local.used + Len(data)
              THEN Sum[<<old, data[k - local.used + 1]>>] ELSE old
  BY <1>4, <1>5, CoreCells
<1> QED
  BY <1>6, <1>7, <1>8

(* What lies behind what others have said is not added to what was there.   *)
LEMMA MixbWriteCells ==
  ASSUME NEW r, Closed(r), NEW u, NEW w, At(r, u, w), NEW f \in Seq(Cell),
         u + Len(f) <= Size
  PROVE  LET m == MixbWrite(r, u, w, f).ring
             cell(k) == m.buffer[Wrap(r.read + k)]
             old(k) == r.buffer[Wrap(r.read + k)]
         IN  /\ m.used = IF u + Len(f) > r.used THEN u + Len(f) ELSE r.used
             /\ \A k \in 0..(Size - 1) :
                  /\ k < u \/ k >= u + Len(f) => cell(k) = old(k)
                  /\ k >= u /\ k < u + Len(f) /\ k < r.used
                       => cell(k) = Sum[<<old(k), f[k - u + 1]>>]
                  /\ k >= u /\ k < u + Len(f) /\ k >= r.used => cell(k) = f[k - u + 1]
<1> DEFINE n == Len(f)
           both == r.used - u
           front == SubSeq(f, 1, both)
           back == SubSeq(f, both + 1, n)
           m == MixWrite(r, u, w, front).ring
           tail == WriteCore(m, back, Copy)
<1>r. /\ r.used \in 0..Size /\ Size \in Nat /\ u \in 0..r.used
      /\ r.read \in Place /\ r.buffer \in [Place -> Cell]
  BY SizeAssumption DEF Closed, Ring, At
<1>n. n \in Nat /\ u + n <= Size /\ \A i \in 1..n : f[i] \in Cell
  OBVIOUS
<1>p. \A k \in 0..(Size - 1) : Wrap(r.read + k) \in Place
  BY <1>r DEF Wrap, Place
<1> HIDE DEF n
<1>b. both \in Nat /\ u + both = r.used
  BY <1>r
<1>l. n = Least(Len(f), Size - u)
  BY <1>n, <1>r DEF Least, n
<1>1. CASE n > both
  <2>1. /\ front \in Seq(Cell) /\ Len(front) = both
        /\ \A i \in 1..both : front[i] = f[i]
    <3>1. 0 \in Nat /\ both \in 0..Len(f) /\ 0 + 1 = 1 /\ both - 0 = both
          /\ \A i \in 1..both : 0 + i = i
      BY <1>1, <1>b, <1>n DEF n
    <3> HIDE DEF both
    <3>2. /\ SubSeq(f, 0 + 1, both) \in Seq(Cell)
          /\ Len(SubSeq(f, 0 + 1, both)) = both - 0
          /\ \A i \in 1..(both - 0) : SubSeq(f, 0 + 1, both)[i] = f[0 + i]
      BY <3>1, Piece
    <3> QED  BY <3>1, <3>2
  <2>2. /\ back \in Seq(Cell) /\ Len(back) = n - both
        /\ \A i \in 1..(n - both) : back[i] = f[both + i]
    <3>1. n \in both..Len(f)
      BY <1>1, <1>b, <1>n DEF n
    <3> HIDE DEF both
    <3> QED  BY <1>b, <3>1, Piece
  <2>3. /\ Closed(m) /\ m.read = r.read /\ m.used = r.used
        /\ \A k \in 0..(Size - 1) :
             m.buffer[Wrap(r.read + k)] =
               IF k >= u /\ k < u + Len(front)
               THEN Sum[<<r.buffer[Wrap(r.read + k)], front[k - u + 1]>>]
               ELSE r.buffer[Wrap(r.read + k)]
    <3>1. u + Len(front) <= r.used
      BY <1>b, <1>r, <2>1
    <3> HIDE DEF front
    <3> QED  BY <2>1, <3>1, MixWriteAt, MixWriteCells
  <2>4. m.used + Len(back) <= Size /\ m.used + Len(back) = u + n
    <3>1. m.used + Len(back) = r.used + (n - both)
      BY <2>2, <2>3
    <3>2. r.used + (n - both) = u + n
      BY <1>b, <1>n, <1>r
    <3> QED  BY <1>n, <1>r, <3>1, <3>2
  <2> HIDE DEF m, back
  <2>5. /\ m \in Ring /\ m.write = Wrap(m.read + m.used)
    BY <2>3 DEF Closed
  <2>6. /\ tail.used = m.used + Len(back)
        /\ \A k \in 0..(Size - 1) :
             tail.buffer[Wrap(m.read + k)] =
               IF k >= m.used /\ k < m.used + Len(back)
               THEN Copy[<<m.buffer[Wrap(m.read + k)], back[k - m.used + 1]>>]
               ELSE m.buffer[Wrap(m.read + k)]
    <3>1. tail.used = m.used + Len(back)
      BY <2>2, <2>3, <2>4, CopyClosed
    <3>2. \A k \in 0..(Size - 1) :
             tail.buffer[Wrap(m.read + k)] =
               IF k >= m.used /\ k < m.used + Len(back)
               THEN Copy[<<m.buffer[Wrap(m.read + k)], back[k - m.used + 1]>>]
               ELSE m.buffer[Wrap(m.read + k)]
      BY <2>2, <2>4, <2>5, CoreCells
    <3> QED  BY <3>1, <3>2
  <2>7. MixbWrite(r, u, w, f).ring = tail
    BY <1>1, <1>l DEF MixbWrite, m, back
  <2> HIDE DEF tail, front
  <2>8. tail.used = IF u + n > r.used THEN u + n ELSE r.used
    BY <1>1, <1>b, <1>n, <1>r, <2>4, <2>6
  <2>9. ASSUME NEW k \in 0..(Size - 1)
        PROVE  /\ k < u \/ k >= u + n
                    => tail.buffer[Wrap(r.read + k)] = r.buffer[Wrap(r.read + k)]
               /\ k >= u /\ k < u + n /\ k < r.used
                    => tail.buffer[Wrap(r.read + k)]
                         = Sum[<<r.buffer[Wrap(r.read + k)], f[k - u + 1]>>]
               /\ k >= u /\ k < u + n /\ k >= r.used
                    => tail.buffer[Wrap(r.read + k)] = f[k - u + 1]
    <3> DEFINE p == Wrap(r.read + k)
    <3>1. /\ tail.buffer[p] = IF k >= r.used /\ k < u + n
                              THEN Copy[<<m.buffer[p], back[k - r.used + 1]>>] ELSE m.buffer[p]
          /\ m.buffer[p] = IF k >= u /\ k < r.used
                           THEN Sum[<<r.buffer[p], front[k - u + 1]>>] ELSE r.buffer[p]
      BY <1>b, <2>1, <2>3, <2>4, <2>6
    <3>2. m.buffer[p] \in Cell
      BY <1>p, <2>3 DEF Closed, Ring
    <3>n. k \in Nat /\ n \in Nat /\ u \in Nat /\ both \in Nat /\ r.used \in Nat
      BY <1>b, <1>n, <1>r
    <3> HIDE DEF p, both
    <3>3. CASE k < r.used
      <4>1. tail.buffer[p] = m.buffer[p]
        BY <1>r, <3>1, <3>3
      <4>2. k >= u => k - u + 1 \in 1..both
        BY <1>b, <3>n, <3>3
      <4>3. k >= u => front[k - u + 1] = f[k - u + 1] /\ k < u + n
        BY <1>1, <1>b, <3>n, <2>1, <3>3, <4>2
      <4>4. ~(k < u) <=> k >= u
        BY <3>n
      <4>5. k < u + n /\ ~(k >= r.used)
        BY <1>1, <1>b, <3>n, <3>3
      <4>6. CASE k < u
        <5>1. tail.buffer[p] = r.buffer[p]
          BY <3>1, <4>1, <4>4, <4>6
        <5> QED
          BY <4>4, <4>5, <4>6, <5>1 DEF p
      <4>7. CASE k >= u
        <5>1. tail.buffer[p] = Sum[<<r.buffer[p], f[k - u + 1]>>]
          BY <3>1, <3>3, <4>1, <4>3, <4>7
        <5>2. ~(k < u \/ k >= u + n)
          BY <3>n, <4>5, <4>7
        <5> QED
          BY <4>5, <5>1, <5>2 DEF p
      <4> QED
        BY <4>4, <4>6, <4>7
    <3>4. CASE ~(k < r.used) /\ k < u + n
      <4>1. /\ k - r.used + 1 \in 1..(n - both)
            /\ both + (k - r.used + 1) = k - u + 1
            /\ k - u + 1 \in 1..n
            /\ k >= u /\ k >= r.used
        BY <1>b, <3>n, <3>4
      <4>2. back[k - r.used + 1] = f[k - u + 1] /\ f[k - u + 1] \in Cell
        BY <1>n, <2>2, <4>1
      <4>3. tail.buffer[p] = f[k - u + 1]
        BY <3>1, <3>2, <3>4, <4>1, <4>2 DEF Copy
      <4> QED
        BY <1>n, <1>r, <3>4, <4>1, <4>3 DEF p
    <3>5. CASE ~(k < r.used) /\ ~(k < u + n)
      <4>1. tail.buffer[p] = r.buffer[p]
        BY <1>r, <3>1, <3>5
      <4> QED
        BY <1>n, <1>r, <3>5, <4>1 DEF p
    <3> QED
      BY <3>3, <3>4, <3>5
  <2> QED
    BY <2>7, <2>8, <2>9 DEF n
<1>2. CASE n <= both
  <2> DEFINE d == SubSeq(f, 1, n)
  <2>1. d \in Seq(Cell) /\ Len(d) = n /\ \A i \in 1..n : d[i] = f[i]
    <3>1. 0 \in Nat /\ n \in 0..Len(f) /\ 0 + 1 = 1 /\ n - 0 = n /\ \A i \in 1..n : 0 + i = i
      BY <1>n DEF n
    <3>2. /\ SubSeq(f, 0 + 1, n) \in Seq(Cell)
          /\ Len(SubSeq(f, 0 + 1, n)) = n - 0
          /\ \A i \in 1..(n - 0) : SubSeq(f, 0 + 1, n)[i] = f[0 + i]
      BY <3>1, Piece
    <3> QED  BY <3>1, <3>2
  <2>2. u + Len(d) <= r.used
    BY <1>2, <1>b, <1>n, <1>r, <2>1
  <2>3. MixbWrite(r, u, w, f) = MixWrite(r, u, w, d)
    <3>1. ~(n > both)
      BY <1>2, <1>b, <1>n
    <3> QED  BY <1>l, <3>1 DEF MixbWrite
  <2> HIDE DEF d
  <2> DEFINE q == MixWrite(r, u, w, d).ring
  <2>4. /\ q.used = r.used
        /\ \A k \in 0..(Size - 1) :
             q.buffer[Wrap(r.read + k)] =
               IF k >= u /\ k < u + Len(d)
               THEN Sum[<<r.buffer[Wrap(r.read + k)], d[k - u + 1]>>]
               ELSE r.buffer[Wrap(r.read + k)]
    BY <2>1, <2>2, MixWriteAt, MixWriteCells
  <2> HIDE DEF q
  <2>5. q.used = IF u + n > r.used THEN u + n ELSE r.used
    BY <1>n, <1>r, <2>1, <2>2, <2>4
  <2>6. ASSUME NEW k \in 0..(Size - 1)
        PROVE  /\ k < u \/ k >= u + n
                    => q.buffer[Wrap(r.read + k)] = r.buffer[Wrap(r.read + k)]
               /\ k >= u /\ k < u + n /\ k < r.used
                    => q.buffer[Wrap(r.read + k)]
                         = Sum[<<r.buffer[Wrap(r.read + k)], f[k - u + 1]>>]
               /\ k >= u /\ k < u + n /\ k >= r.used
                    => q.buffer[Wrap(r.read + k)] = f[k - u + 1]
    <3>1. q.buffer[Wrap(r.read + k)] =
               IF k >= u /\ k < u + n
               THEN Sum[<<r.buffer[Wrap(r.read + k)], d[k - u + 1]>>]
               ELSE r.buffer[Wrap(r.read + k)]
      BY <2>1, <2>4
    <3>2. k >= u /\ k < u + n => k - u + 1 \in 1..n /\ k < r.used
      BY <1>n, <1>r, <2>1, <2>2
    <3>3. k >= u /\ k < u + n => d[k - u + 1] = f[k - u + 1]
      BY <2>1, <3>2
    <3> QED
      BY <1>n, <1>r, <3>1, <3>2, <3>3
  <2> QED
    BY <2>3, <2>5, <2>6 DEF n, q
<1> QED  BY <1>1, <1>2, <1>b, <1>n

(* The ring after a frame is the queue with the frame added up.             *)
LEMMA MixbWriteMixed ==
  ASSUME NEW r, Closed(r), NEW u, NEW w, At(r, u, w), NEW f \in Seq(Cell),
         u + Len(f) <= Size
  PROVE  ReadAll(MixbWrite(r, u, w, f).ring) = Queue!Mixed(ReadAll(r), u, f)
<1> DEFINE m == MixbWrite(r, u, w, f).ring
           q == ReadAll(r)
           n == Len(f)
           all == IF u + n > r.used THEN u + n ELSE r.used
           x == Queue!Mixed(q, u, f)
<1>1. /\ r.used \in 0..Size /\ Size \in Nat /\ u \in 0..r.used /\ r.read \in Place /\ n \in Nat
  BY SizeAssumption DEF Closed, Ring, At
<1>2. /\ q \in Seq(Cell) /\ Len(q) = r.used
      /\ \A k \in 1..r.used : q[k] = r.buffer[Wrap(r.read + k - 1)]
  BY AllRead
<1>3. Closed(m) /\ m.read = r.read
  BY MixbWriteAt
<1>4. /\ m.used = all
      /\ \A k \in 0..(Size - 1) :
           /\ k < u \/ k >= u + n
                => m.buffer[Wrap(r.read + k)] = r.buffer[Wrap(r.read + k)]
           /\ k >= u /\ k < u + n /\ k < r.used
                => m.buffer[Wrap(r.read + k)]
                     = Sum[<<r.buffer[Wrap(r.read + k)], f[k - u + 1]>>]
           /\ k >= u /\ k < u + n /\ k >= r.used
                => m.buffer[Wrap(r.read + k)] = f[k - u + 1]
  BY MixbWriteCells
<1>5. /\ ReadAll(m) \in Seq(Cell) /\ Len(ReadAll(m)) = all
      /\ \A k \in 1..all : ReadAll(m)[k] = m.buffer[Wrap(r.read + k - 1)]
  <2> HIDE DEF m, all
  <2> QED  BY <1>3, <1>4, AllRead
<1>6. x = [k \in 1..all |-> IF k <= u \/ k > u + n THEN q[k]
                            ELSE IF k <= r.used THEN Sum[<<q[k], f[k - u]>>] ELSE f[k - u]]
  <2> HIDE DEF q
  <2> QED  BY <1>2 DEF Queue!Mixed
<1>7. all \in Nat /\ all <= Size
  BY <1>1
<1> HIDE DEF x, m, q, n, all
<1>8. ASSUME NEW k \in 1..all PROVE ReadAll(m)[k] = x[k]
  <2> DEFINE i == k - 1
             p == Wrap(r.read + i)
  <2>1. i \in 0..(Size - 1) /\ r.read + k - 1 = r.read + i /\ i - u + 1 = k - u
    BY <1>1, <1>7 DEF Place
  <2>2. ReadAll(m)[k] = m.buffer[p] /\ (k <= r.used => q[k] = r.buffer[p])
    <3>1. k <= r.used => k \in 1..r.used
      BY <1>1, <1>7
    <3> QED  BY <1>2, <1>5, <2>1, <3>1
  <2>3. /\ i < u \/ i >= u + n => m.buffer[p] = r.buffer[p]
        /\ i >= u /\ i < u + n /\ i < r.used => m.buffer[p] = Sum[<<r.buffer[p], f[k - u]>>]
        /\ i >= u /\ i < u + n /\ i >= r.used => m.buffer[p] = f[k - u]
    BY <1>4, <2>1
  <2>4. x[k] = IF k <= u \/ k > u + n THEN q[k]
               ELSE IF k <= r.used THEN Sum[<<q[k], f[k - u]>>] ELSE f[k - u]
    BY <1>6
  <2> HIDE DEF p
  <2>5. CASE k <= u \/ k > u + n
    <3>1. (i < u \/ i >= u + n) /\ k <= r.used
      BY <1>1, <1>7, <2>5 DEF all
    <3> QED  BY <2>2, <2>3, <2>4, <2>5, <3>1
  <2>6. CASE ~(k <= u \/ k > u + n) /\ k <= r.used
    <3>1. i >= u /\ i < u + n /\ i < r.used
      BY <1>1, <1>7, <2>6
    <3> QED  BY <2>2, <2>3, <2>4, <2>6, <3>1
  <2>7. CASE ~(k <= u \/ k > u + n) /\ ~(k <= r.used)
    <3>1. i >= u /\ i < u + n /\ i >= r.used
      BY <1>1, <1>7, <2>7
    <3> QED  BY <2>2, <2>3, <2>4, <2>7, <3>1
  <2> QED  BY <2>5, <2>6, <2>7
<1>9. DOMAIN x = 1..all /\ DOMAIN ReadAll(m) = 1..all
  BY <1>5, <1>6
<1>10. x = [k \in 1..all |-> x[k]] /\ ReadAll(m) = [k \in 1..all |-> ReadAll(m)[k]]
  BY <1>5, <1>6, <1>9
<1> QED  BY <1>8, <1>10 DEF x, m, q

(* How far ahead of the player a stream is.                                 *)
Lead(A, U) == [s \in Stream |-> IF s \in A THEN U[s] ELSE -1]

LEMMA LeadBehind ==
  ASSUME Streams(rb, attached, used, write), NEW n \in Nat
  PROVE  Lead(attached, UsedAfter(n)) = Queue!Behind(n)
<1>1. \A s \in Stream : used[s] \in Nat
  BY SizeAssumption DEF Streams
<1>2. \A s \in attached : ~(used[s] < 0)
  BY <1>1 DEF Streams
<1> QED
  BY <1>1, <1>2 DEF Lead, UsedAfter, Queue!Behind

LEMMA PendingSkipped ==
  ASSUME Closed(rb), NEW n \in Nat
  PROVE  ReadAll(ReadUpd(rb, n)) = Queue!Skipped(n)
  BY ReadUpdSkips DEF Queue!Skipped

LEMMA QueueInit == MixInit => Queue!Init
<1> SUFFICES ASSUME MixInit PROVE Queue!Init
  OBVIOUS
<1>1. PICK c \in Cell : rb = Empty([i \in Place |-> c])
  BY DEF MixInit
<1>2. ReadAll(rb) = <<>>
  BY <1>1 DEF Empty, ReadAll, ReadN
<1> QED
  BY <1>2 DEF MixInit, Queue!Init

(* A frame is spoken, and everybody skips what it does not leave room for.  *)
LEMMA WriteSpeaks ==
  ASSUME Streams(rb, attached, used, write),
         NEW s \in attached, NEW f \in Frames, Write(s, f)
  PROVE  Queue!Speak(s, f)
<1> DEFINE n == Overflow(s, f)
           r == IF n = 0 THEN rb ELSE ReadUpd(rb, n)
           u == IF n = 0 THEN used ELSE UsedAfter(n)
           w == IF n = 0 THEN write ELSE WriteAfter(n)
           m == MixbWrite(r, u[s], w[s], f)
           lead == Lead(attached, used)
<1>1. f \in Seq(Cell) /\ Len(f) \in 1..Size /\ Size \in Nat
  BY FramesAssumption, SizeAssumption
<1>2. used[s] \in 0..Size /\ s \in Stream /\ lead[s] = used[s]
  BY DEF Streams, Lead
<1>3. n = IF used[s] + Len(f) - Size > 0 THEN used[s] + Len(f) - Size ELSE 0
  BY <1>1, <1>2 DEF Overflow
<1> HIDE DEF n
<1>4. n \in Nat
  BY <1>1, <1>2, <1>3
<1>5. Streams(r, attached, u, w)
  BY <1>4, ReadUpdStreams
<1>6. u[s] + Len(f) <= Size /\ u[s] \in Nat
  <2>1. CASE n = 0
    BY <1>1, <1>2, <1>3, <2>1
  <2>2. CASE n # 0
    <3>1. u[s] = IF used[s] > n THEN used[s] - n ELSE 0
      BY <1>2, <2>2 DEF UsedAfter
    <3> QED  BY <1>1, <1>2, <1>3, <2>2, <3>1
  <2> QED  BY <2>1, <2>2
<1>7. ReadAll(r) = Queue!Skipped(n)
  <2>1. CASE n = 0
    <3>1. ReadUpd(rb, 0) = rb
      BY DEF ReadUpd, Least, Streams, Closed, Ring
    <3> QED  BY <2>1, <3>1, PendingSkipped DEF Streams
  <2>2. CASE n # 0
    BY <1>4, <2>2, PendingSkipped DEF Streams
  <2> QED  BY <2>1, <2>2
<1>8. Lead(attached, u) = Queue!Behind(n)
  <2>1. CASE n = 0
    <3>1. \A t \in attached : UsedAfter(0)[t] = used[t]
      BY DEF UsedAfter, Streams
    <3>2. Lead(attached, UsedAfter(0)) = Lead(attached, used)
      BY <3>1 DEF Lead
    <3> QED  BY <2>1, <3>2, LeadBehind
  <2>2. CASE n # 0
    BY <1>4, <2>2, LeadBehind
  <2> QED  BY <2>1, <2>2
<1>9. /\ rb' = m.ring /\ attached' = attached /\ used' = [u EXCEPT ![s] = m.used]
  BY DEF Write, n
<1> HIDE DEF r, u, w
<1>10. m.used = u[s] + Len(f) /\ ReadAll(m.ring) = Queue!Mixed(ReadAll(r), u[s], f)
  BY <1>1, <1>5, <1>6, MixbWriteAt, MixbWriteMixed DEF Streams
<1>11. Queue!Behind(n)[s] = u[s]
  <2>1. Lead(attached, u)[s] = u[s]
    BY <1>2 DEF Lead
  <2> QED  BY <1>8, <2>1
<1>12. ReadAll(rb') = Queue!Mixed(Queue!Skipped(n), Queue!Behind(n)[s], f)
  BY <1>7, <1>9, <1>10, <1>11
<1>13. Lead(attached', used') = [Queue!Behind(n) EXCEPT ![s] = @ + Len(f)]
  <2>1. u \in [Stream -> 0..Size]
    BY <1>5 DEF Streams
  <2>2. Lead(attached, [u EXCEPT ![s] = u[s] + Len(f)])
          = [Lead(attached, u) EXCEPT ![s] = u[s] + Len(f)]
    BY <1>2, <2>1 DEF Lead
  <2>3. [Queue!Behind(n) EXCEPT ![s] = @ + Len(f)] = [Lead(attached, u) EXCEPT ![s] = u[s] + Len(f)]
    BY <1>8, <1>11
  <2> QED  BY <1>9, <1>10, <2>2, <2>3
<1>14. lead[s] >= 0
  BY <1>1, <1>2
<1> HIDE DEF m
<1> QED
  BY <1>2, <1>3, <1>12, <1>13, <1>14 DEF Queue!Speak, Lead

LEMMA QueueNext == MixInv /\ [MixNext]_mixVars => [Queue!Next]_(Queue!vars)
<1> SUFFICES ASSUME MixInv, [MixNext]_mixVars PROVE [Queue!Next]_(Queue!vars)
  OBVIOUS
<1>i. /\ Closed(rb) /\ attached \subseteq Stream /\ used \in [Stream -> 0..Size]
      /\ rb.used \in 0..Size /\ Size \in Nat
      /\ \A s \in Stream : used[s] \in Nat
  BY SizeAssumption DEF MixInv, Streams, Closed, Ring
<1>1. CASE attached = {} /\ MixbInit
  <2>1. rb' = Empty(rb.buffer) /\ attached' = {} /\ used' = used
    BY <1>1 DEF MixbInit
  <2>2. ReadAll(rb') = <<>>
    BY <2>1 DEF Empty, ReadAll, ReadN
  <2>3. Queue!Clear
    BY <1>1, <2>1, <2>2 DEF Queue!Clear
  <2> QED  BY <2>3 DEF Queue!Next
<1>2. ASSUME NEW s \in Stream \ attached, Attach(s) PROVE Queue!Next
  <2>1. /\ rb' = rb /\ attached' = attached \cup {s} /\ used' = [used EXCEPT ![s] = 0]
    BY <1>2 DEF Attach
  <2>2. Lead(attached', used') = [Lead(attached, used) EXCEPT ![s] = 0]
    BY <1>i, <2>1 DEF Lead
  <2>3. Lead(attached, used)[s] < 0
    BY DEF Lead
  <2>4. Queue!Join(s)
    BY <2>1, <2>2, <2>3 DEF Queue!Join, Lead
  <2> QED  BY <2>4 DEF Queue!Next
<1>3. ASSUME NEW s \in attached, Detach(s) PROVE Queue!Next
  <2>1. /\ rb' = rb /\ attached' = attached \ {s} /\ used' = [used EXCEPT ![s] = 0]
    BY <1>3 DEF Detach
  <2>2. Lead(attached', used') = [Lead(attached, used) EXCEPT ![s] = -1]
    BY <1>i, <2>1 DEF Lead
  <2>3. Lead(attached, used)[s] >= 0 /\ s \in Stream
    BY <1>i DEF Lead
  <2>4. Queue!Leave(s)
    BY <2>1, <2>2, <2>3 DEF Queue!Leave, Lead
  <2> QED  BY <2>3, <2>4 DEF Queue!Next
<1>4. ASSUME NEW s \in attached, NEW f \in Frames, Write(s, f) PROVE Queue!Next
  <2>1. Queue!Speak(s, f) /\ s \in Stream
    BY <1>4, <1>i, WriteSpeaks DEF MixInv
  <2> QED  BY <2>1 DEF Queue!Next
<1>5. CASE Play
  <2> DEFINE n == Least(FrameSize, rb.used)
  <2>1. n \in Nat /\ Len(ReadAll(rb)) = rb.used
    BY <1>i, AllRead, FramesAssumption DEF Least
  <2>2. n = IF Len(ReadAll(rb)) < FrameSize THEN Len(ReadAll(rb)) ELSE FrameSize
    BY <1>i, <2>1, FramesAssumption DEF Least
  <2> HIDE DEF n
  <2>3. CASE n > 0
    <3>1. /\ rb' = ReadUpd(rb, n) /\ attached' = attached /\ used' = UsedAfter(n)
      BY <1>5, <2>3 DEF Play, n
    <3>2. ReadAll(rb') = Queue!Skipped(n)
      BY <1>i, <2>1, <3>1, PendingSkipped
    <3>3. Lead(attached', used') = Queue!Behind(n)
      BY <2>1, <3>1, LeadBehind DEF MixInv
    <3>4. Queue!Play
      BY <2>2, <3>2, <3>3 DEF Queue!Play, Lead
    <3> QED  BY <3>4 DEF Queue!Next
  <2>4. CASE ~(n > 0)
    <3>1. UNCHANGED mixVars
      BY <1>5, <2>4 DEF Play, n
    <3> QED  BY <3>1 DEF mixVars, Queue!vars
  <2> QED  BY <2>3, <2>4
<1>6. CASE UNCHANGED mixVars
  BY <1>6 DEF mixVars, Queue!vars
<1> QED  BY <1>1, <1>2, <1>3, <1>4, <1>5, <1>6 DEF MixNext

(* What is played is the sum of what was said for the same moment, in order *)
(* and nothing twice, for every size of the buffer, set of streams, of      *)
(* frames and of samples: mixb_attach(), mixb_write(), mixb_read_upd() and  *)
(* the rest implement a queue of sums.                                      *)
THEOREM MixIsQueueOfSums == MixSpec => QueueOfSums
<1> QED  BY QueueInit, QueueNext, MixInitInv, MixNextInv, PTL DEF MixSpec, QueueOfSums, Queue!Spec
=============================================================================
