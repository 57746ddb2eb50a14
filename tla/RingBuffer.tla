----------------------------- MODULE RingBuffer -----------------------------
(***************************************************************************)
(* The ring buffer of ringbuffer.c as operators on a record: Size cells,   *)
(* of which used ones are filled, from read on and up to write.  Positions *)
(* wrap by one subtraction, as in the code, not by a division.             *)
(***************************************************************************)
EXTENDS Integers, Sequences

CONSTANTS
    Size,    \* cells of the buffer
    Cell     \* what a cell holds

ASSUME SizeAssumption == Size \in Nat \ {0}

Place == 0..(Size - 1)

Ring == [buffer : [Place -> Cell], used : 0..Size, read : Place, write : Place]

\* rb_init() leaves the cells as they are.
Empty(cells) == [buffer |-> cells, used |-> 0, read |-> 0, write |-> 0]

Wrap(i) == IF i >= Size THEN i - Size ELSE i

Least(a, b) == IF a < b THEN a ELSE b

Free(rb) == Size - rb.used

\* rb_read_n_iov(): the first n filled cells, in one or two pieces.
ReadN(rb, n) == [k \in 1..n |-> rb.buffer[Wrap(rb.read + k - 1)]]

\* rb_read_all_iov()
ReadAll(rb) == ReadN(rb, rb.used)

\* rb_memcmp(): 0 if the buffer begins with mem, 1 if it does not, -1 if that is
\* more than it holds.
MemCmp(rb, mem) ==
    IF rb.used < Len(mem) THEN -1 ELSE IF ReadN(rb, Len(mem)) = mem THEN 0 ELSE 1

\* Where mem is in the buffer, first cell 0.
Found(rb, mem) ==
    {k \in 0..(rb.used - Len(mem)) :
        \A i \in 1..Len(mem) : rb.buffer[Wrap(rb.read + k + i - 1)] = mem[i]}

\* rb_read_until_mem_iov(): the cells before the first mem, whether it is in the
\* one piece, in the other or across the end of the buffer; -1 if it is not there.
UntilMem(rb, mem) ==
    IF Found(rb, mem) = {} THEN -1
    ELSE CHOOSE k \in Found(rb, mem) : \A j \in Found(rb, mem) : k <= j

\* rb_read_until_char_iov()
UntilChar(rb, c) == UntilMem(rb, <<c>>)

\* rb_read_until_char_after_iov() starts its search so many cells into a piece,
\* into the second one, too, if the first does not hold c.  Where a piece is
\* shorter than that, the length left to search wraps around and c is found
\* behind what is used, or not at all.
UntilCharAfter(rb, c, after) ==
    LET one    == Least(rb.used, Size - rb.read)
        two    == rb.used - one
        first  == {k \in Found(rb, <<c>>) : k >= after /\ k < one}
        second == {k \in Found(rb, <<c>>) : k >= one + after}
        astray == one < after \/ (first = {} /\ two > 0 /\ two < after)
        least(S) == CHOOSE k \in S : \A j \in S : k <= j
    IN  IF astray THEN {-1, rb.used}
        ELSE IF first # {} THEN {least(first)}
        ELSE IF second # {} THEN {least(second)}
        ELSE {-1}

\* Mutant: of an empty buffer only the read position starts at 0 again.
ReadUpdKept(rb, len) ==
    LET n == Least(len, rb.used)
    IN  IF n = 0 THEN rb
        ELSE [buffer |-> rb.buffer, used |-> rb.used - n,
              read |-> IF rb.used = n THEN 0 ELSE Wrap(rb.read + n), write |-> rb.write]

\* rb_read_upd(): len cells are consumed; an empty buffer starts at 0 again.
ReadUpd(rb, len) ==
    LET n == Least(len, rb.used)
    IN  IF n = 0 THEN rb
        ELSE IF rb.used = n
             THEN Empty(rb.buffer)
             ELSE [buffer |-> rb.buffer, used |-> rb.used - n,
                   read |-> Wrap(rb.read + n), write |-> rb.write]

\* The cells from the write position to cell i.
Ahead(rb, i) == IF i >= rb.write THEN i - rb.write ELSE i + Size - rb.write

Written(rb, data, n, method) ==
    [i \in Place |-> IF Ahead(rb, i) < n
                     THEN method[<<rb.buffer[i], data[Ahead(rb, i) + 1]>>]
                     ELSE rb.buffer[i]]

\* Mutant: a write up to the last cell does not go back to the first.
WriteCoreStraight(rb, data, method) ==
    LET n == Least(Len(data), Free(rb))
    IN  IF n = 0 THEN rb
        ELSE [buffer |-> Written(rb, data, n, method), used |-> rb.used + n,
              read |-> rb.read,
              write |-> IF rb.write + n = Size THEN Size ELSE Wrap(rb.write + n)]

\* rb_write_core(): as much of data as fits, in one piece or two, each cell by
\* method (copy, or a sum).
WriteCore(rb, data, method) ==
    LET n == Least(Len(data), Free(rb))
    IN  IF n = 0 THEN rb
        ELSE [buffer |-> Written(rb, data, n, method), used |-> rb.used + n,
              read |-> rb.read, write |-> Wrap(rb.write + n)]

\* rb_write_iov(), readv() and rb_write_upd(): data, no longer than what is free.
\* The write position may come to stand behind the last cell.
ReadIn(rb, data) ==
    LET n == Len(data)
    IN  [buffer |-> [i \in Place |-> IF Ahead(rb, i) < n THEN data[Ahead(rb, i) + 1]
                                     ELSE rb.buffer[i]],
         used |-> rb.used + n, read |-> rb.read,
         write |-> IF rb.write + n > Size THEN rb.write + n - Size ELSE rb.write + n]
=============================================================================
