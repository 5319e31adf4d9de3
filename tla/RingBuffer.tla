----------------------------- MODULE RingBuffer -----------------------------
(***************************************************************************)
(* The ring buffer of ringbuffer.c and its operations, as functions of a   *)
(* record with the fields of struct ringbuffer.  Positions count cells     *)
(* from 0: a cell is what the user of the buffer puts into it at once, a   *)
(* sample in the mixer and a token of a result in the reader.  A run of    *)
(* cells that struct iovec gives as one or two pieces is the sequence of   *)
(* those cells.                                                            *)
(***************************************************************************)
EXTENDS Integers, Sequences

CONSTANTS
    Size    \* rb->size

ASSUME SizeAssumption == Size \in Nat \ {0}

Positions == 0 .. Size - 1

Least(a, b) == IF a < b THEN a ELSE b

\* The cell a position past the end of the buffer stands for.
Wrap(p) == IF p >= Size THEN p - Size ELSE p

rb_init(mem) == [buffer |-> mem, used |-> 0, read |-> 0, write |-> 0]

rb_free(rb) == Size - rb.used

\* The i-th unread cell.
Unread(rb, i) == rb.buffer[Wrap(rb.read + i - 1)]

\* What is unread, in the order in which it is to be read.
rb_read_all_iov(rb) == [i \in 1 .. rb.used |-> Unread(rb, i)]

\* Its first n cells; nothing if there are fewer.
rb_read_n_iov(rb, n) ==
    IF rb.used < n THEN <<>> ELSE [i \in 1 .. n |-> Unread(rb, i)]

\* Forgets the first len unread cells, or all: an empty buffer starts over.
rb_read_upd(rb, len) ==
    LET n == Least(len, rb.used)
    IN  IF n = 0 THEN rb
        ELSE IF n = rb.used THEN rb_init(rb.buffer)
        ELSE [rb EXCEPT !.used = @ - n, !.read = Wrap(@ + n)]

\* Mutant: the position does not wrap.
rb_write_upd_unwrapped(rb, len) ==
    LET n == Least(len, rb_free(rb))
    IN  [rb EXCEPT !.write = @ + n, !.used = @ + n]

\* Counts len cells as written that readv() has put into the free ones.  The
\* position may be Size afterwards, which stands for the first cell.
rb_write_upd(rb, len) ==
    LET n == Least(len, rb_free(rb))
        s == rb.write + n
    IN  [rb EXCEPT !.write = IF s > Size THEN s - Size ELSE s, !.used = @ + n]

\* What readv() leaves in the pieces of rb_write_iov when it got data.
Filled(rb, data) ==
    [rb EXCEPT !.buffer = [p \in Positions |->
        LET i == IF p >= Wrap(rb.write) THEN p - Wrap(rb.write) ELSE p + Size - Wrap(rb.write)
        IN  IF i < Len(data) THEN data[i + 1] ELSE @[p]]]

\* Writes what fits of data from rb.write on.  The method of writing, memmove
\* or a sum with what is there, is the caller's: data are the new cells.
rb_write_core(rb, data) ==
    LET n == Least(Len(data), rb_free(rb))
        s == rb.write + n
        i(p) == IF p >= rb.write THEN p - rb.write ELSE p + Size - rb.write
    IN  [rb EXCEPT
            !.buffer = [p \in Positions |-> IF i(p) < n THEN data[i(p) + 1] ELSE @[p]],
            !.write = IF s >= Size THEN s - Size ELSE s,
            !.used = @ + n]

rb_write(rb, data) == rb_write_core(rb, data)
=============================================================================
