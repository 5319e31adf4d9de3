---------------------------- MODULE AtRead_proofs ----------------------------
(***************************************************************************)
(* That the reader of a data tty keeps its buffer in order and searches it *)
(* rightly, for a buffer of any size and any number of results: TypeOK and *)
(* SearchExact.  What the monitor gets (LinesWhole, NothingHeldBack,       *)
(* StreamSpec) is told by selections from sequences, which the prover has  *)
(* no theory of: TLC checks it.                                            *)
(***************************************************************************)
EXTENDS AtRead, SequenceTheorems, WellFoundedInduction, TLAPS

\* What the characters of results are taken for, and of a blanked cell.
Alphabet == {"", CR, LF, "O", "K", "x", ">", "n", "pdu", "AT",
             "+CSSI:", "+CMGS:", "+CLCC:", "+CMGR:", "+CDS:"}

Cell  == Alphabet \X Nat
Rings == [buffer : [Positions -> Cell], used : 0 .. Size, read : Positions, write : 0 .. Size]

RingAgrees(b) == Wrap(b.write) = Wrap(b.read + b.used)

\* The j-th character the reader has not cut, in the buffer b or in the tty.
Ahead(b, t, j) == IF j <= b.used THEN Unread(b, j)[1] ELSE t[j - b.used][1]

\* An "OK" that comes is whole and ends its line.
OKsWhole(b, t) ==
    \A j \in 1 .. b.used + Len(t) :
        /\ Ahead(b, t, j) = "O" => /\ j + 3 <= b.used + Len(t)
                                   /\ Ahead(b, t, j + 1) = "K"
                                   /\ Ahead(b, t, j + 2) = CR
                                   /\ Ahead(b, t, j + 3) = LF
        /\ Ahead(b, t, j) = "K" => /\ j + 2 <= b.used + Len(t)
                                   /\ Ahead(b, t, j + 1) = CR
                                   /\ Ahead(b, t, j + 2) = LF

\* The inductive invariant: TypeOK with the types of the cells.  That a search
\* across the end of the buffer finds no "OK" that is not there is a matter of
\* what may follow an O and a K.
IInv ==
    /\ TypeOK
    /\ rb \in Rings
    /\ tty \in Seq(Cell)
    /\ OKsWhole(rb, tty)

-----------------------------------------------------------------------------
(* The ring buffer                                                         *)

LEMMA WrapInside ==
    ASSUME NEW r \in Positions, NEW k \in 1 .. Size
    PROVE  Wrap(r + k - 1) \in Positions
BY SizeAssumption DEF Positions, Wrap

\* Forgetting cells leaves the others where they are.
LEMMA ReadUpd ==
    ASSUME NEW b \in Rings, RingAgrees(b), NEW n \in Nat
    PROVE  LET c == rb_read_upd(b, n)
               m == Least(n, b.used)
           IN  /\ c \in Rings /\ RingAgrees(c)
               /\ c.used = b.used - m
               /\ \A j \in 1 .. c.used : Unread(c, j) = Unread(b, j + m)
<1>. DEFINE c == rb_read_upd(b, n)
            m == Least(n, b.used)
<1>1. m \in 0 .. b.used /\ b.used \in 0 .. Size /\ b.read \in Positions
  BY DEF Least, Rings
<1>2. CASE m = 0
  BY <1>1, <1>2 DEF rb_read_upd
<1>3. CASE m # 0 /\ m = b.used
  <2>1. c = [buffer |-> b.buffer, used |-> 0, read |-> 0, write |-> 0]
    BY <1>3 DEF rb_read_upd, rb_init
  <2>. QED  BY <1>1, <1>3, <2>1, SizeAssumption DEF Rings, RingAgrees, Positions
<1>4. CASE m # 0 /\ m # b.used
  <2>1. c = [b EXCEPT !.used = @ - m, !.read = Wrap(@ + m)]
    BY <1>4 DEF rb_read_upd
  <2>2. c = [buffer |-> b.buffer, used |-> b.used - m, read |-> Wrap(b.read + m),
             write |-> b.write]
    BY <2>1 DEF Rings
  <2>. HIDE DEF m, c
  <2>3. /\ Wrap(b.read + m) \in Positions
        /\ Wrap(Wrap(b.read + m) + (b.used - m)) = Wrap(b.read + b.used)
        /\ \A j \in 1 .. b.used - m :
              Wrap(Wrap(b.read + m) + j - 1) = Wrap(b.read + (j + m) - 1)
    BY <1>1, <1>4, SizeAssumption DEF Wrap, Positions
  <2>4. b.used - m \in 0 .. Size
    BY <1>1, SizeAssumption
  <2>5. c \in Rings
    BY <2>2, <2>3, <2>4 DEF Rings
  <2>6. RingAgrees(c)
    BY <2>2, <2>3 DEF RingAgrees
  <2>7. \A j \in 1 .. b.used - m : Unread(c, j) = Unread(b, j + m)
    BY <2>2, <2>3 DEF Unread
  <2>8. c.used = b.used - m
    BY <2>2
  <2>. QED  BY <2>5, <2>6, <2>7, <2>8 DEF c, m
<1>. QED  BY <1>2, <1>3, <1>4

\* How far the place p is behind w, going on from the last one to the first,
\* and where writing goes on from v after n cells.
Distance(w, p) == IF p >= w THEN p - w ELSE p + Size - w
Further(v, n)  == IF v + n > Size THEN v + n - Size ELSE v + n

\* Where n cells behind u unread ones go: v is where the next one is written.
LEMMA Behindhand ==
    ASSUME NEW r \in Positions, NEW u \in 0 .. Size, NEW v \in 0 .. Size, Wrap(v) = Wrap(r + u),
           NEW n \in 0 .. Size - u
    PROVE  /\ Further(v, n) \in 0 .. Size
           /\ Wrap(Further(v, n)) = Wrap(r + (u + n))
           /\ \A p \in Positions : Distance(Wrap(v), p) \in 0 .. Size - 1
           /\ \A j \in 1 .. u : Distance(Wrap(v), Wrap(r + j - 1)) >= n
           /\ \A j \in 1 .. n : Distance(Wrap(v), Wrap(r + (u + j) - 1)) = j - 1
BY SizeAssumption DEF Wrap, Positions, Distance, Further

LEMMA WriteUpd ==
    ASSUME NEW d \in Rings, NEW n \in 0 .. Size - d.used, Further(d.write, n) \in 0 .. Size
    PROVE  LET c == rb_write_upd(d, n)
           IN  /\ c.used = d.used + n /\ c.write = Further(d.write, n)
               /\ c.buffer = d.buffer /\ c.read = d.read
               /\ c \in Rings
<1>. DEFINE m == Least(n, rb_free(d))
            s == d.write + m
            W == IF s > Size THEN s - Size ELSE s
            U == d.used + m
            c == rb_write_upd(d, n)
<1>1. c = [d EXCEPT !.write = W, !.used = U]
  BY DEF rb_write_upd
<1>2. m = n
  BY SizeAssumption DEF Least, rb_free, Rings
<1>. HIDE DEF m
<1>3. W = Further(d.write, n) /\ U = d.used + n /\ U \in 0 .. Size
  BY <1>2, SizeAssumption DEF Further, Rings
<1>. HIDE DEF W, U, c
<1>4. /\ c.used = U /\ c.write = W /\ c.buffer = d.buffer /\ c.read = d.read
      /\ c \in Rings
  BY <1>1, <1>3 DEF Rings
<1>. QED  BY <1>3, <1>4 DEF c

\* What do_monitor_phone does to the buffer when readv() has got n cells.
Received(b, data) == rb_write_upd(Filled(b, data), Len(data))

\* The cells behind those unread are the ones that were read.
LEMMA Receives ==
    ASSUME NEW b \in Rings, RingAgrees(b), NEW data \in Seq(Cell), Len(data) <= Size - b.used
    PROVE  LET c == Received(b, data)
           IN  /\ c \in Rings /\ RingAgrees(c)
               /\ c.used = b.used + Len(data)
               /\ \A j \in 1 .. b.used : Unread(c, j) = Unread(b, j)
               /\ \A j \in 1 .. Len(data) : Unread(c, b.used + j) = data[j]
<1>. DEFINE n == Len(data)
            at(p) == Distance(Wrap(b.write), p)
            f == [p \in Positions |-> IF at(p) < n THEN data[at(p) + 1] ELSE b.buffer[p]]
            to == Further(b.write, n)
            c == Received(b, data)
<1>1. /\ b.used \in 0 .. Size /\ b.read \in Positions /\ b.write \in 0 .. Size
      /\ b.buffer \in [Positions -> Cell] /\ Wrap(b.write) = Wrap(b.read + b.used)
      /\ n \in 0 .. Size - b.used /\ Size \in Nat \ {0}
  BY SizeAssumption DEF Rings, RingAgrees
<1>2. /\ to \in 0 .. Size /\ Wrap(to) = Wrap(b.read + (b.used + n))
      /\ \A p \in Positions : at(p) \in 0 .. Size - 1
      /\ \A j \in 1 .. b.used : at(Wrap(b.read + j - 1)) >= n
      /\ \A j \in 1 .. n : at(Wrap(b.read + (b.used + j) - 1)) = j - 1
  <2>. PICK r : r = b.read
    OBVIOUS
  <2>. PICK u : u = b.used
    OBVIOUS
  <2>. PICK v : v = b.write
    OBVIOUS
  <2>. PICK m : m = n
    OBVIOUS
  <2>1. r \in Positions /\ u \in 0 .. Size /\ v \in 0 .. Size /\ m \in 0 .. Size - u /\ Wrap(v) = Wrap(r + u)
    <3>. HIDE DEF n
    <3>. QED  BY <1>1
  <2>2. /\ Further(v, m) \in 0 .. Size /\ Wrap(Further(v, m)) = Wrap(r + (u + m))
        /\ \A p \in Positions : Distance(Wrap(v), p) \in 0 .. Size - 1
        /\ \A j \in 1 .. u : Distance(Wrap(v), Wrap(r + j - 1)) >= m
        /\ \A j \in 1 .. m : Distance(Wrap(v), Wrap(r + (u + j) - 1)) = j - 1
    BY ONLY <2>1, Behindhand
  <2>. HIDE DEF n
  <2>. QED  BY <2>2
<1>3. \A p \in Positions : at(p) \in 0 .. Size - 1
  BY <1>2
<1>4. f \in [Positions -> Cell]
  <2>1. ASSUME NEW p \in Positions, at(p) < Len(data) PROVE data[at(p) + 1] \in Cell
    <3>1. at(p) + 1 \in 1 .. Len(data)
      BY <1>1, <1>3, <2>1
    <3>. HIDE DEF at
    <3>. QED  BY <3>1, ElementOfSeq
  <2>. QED  BY <1>1, <2>1
<1>5. \A p \in Positions : f[p] = IF at(p) < Len(data) THEN data[at(p) + 1] ELSE b.buffer[p]
  OBVIOUS
<1>. HIDE DEF f
<1>6. to \in 0 .. Size /\ Wrap(to) = Wrap(b.read + (b.used + n))
  BY <1>1, <1>2
<1>7. /\ c \in Rings /\ c.used = b.used + n /\ c.read = b.read
      /\ c.buffer = f /\ c.write = to
  <2>. DEFINE d == [b EXCEPT !.buffer = f]
  <2>1. Filled(b, data) = d
    BY DEF Filled, Distance, f
  <2>2. /\ d \in Rings /\ d.used = b.used /\ d.write = b.write /\ d.buffer = f
        /\ d.read = b.read
    BY <1>4 DEF Rings
  <2>. HIDE DEF d, n
  <2>3. c = rb_write_upd(d, n)
    BY <2>1 DEF Received, n
  <2>. HIDE DEF c
  <2>. QED  BY <1>1, <1>6, <2>2, <2>3, WriteUpd
<1>. HIDE DEF c
<1>8. RingAgrees(c)
  BY <1>6, <1>7 DEF RingAgrees
<1>9. ASSUME NEW j \in 1 .. b.used PROVE f[Wrap(b.read + j - 1)] = b.buffer[Wrap(b.read + j - 1)]
  <2>. DEFINE p == Wrap(b.read + j - 1)
  <2>1. p \in Positions
    BY <1>1, WrapInside
  <2>2. at(p) >= n /\ at(p) \in Int
    BY <1>2, <2>1
  <2>. HIDE DEF p, at
  <2>. QED  BY <1>1, <1>5, <2>1, <2>2 DEF p
<1>10. ASSUME NEW j \in 1 .. n PROVE f[Wrap(b.read + (b.used + j) - 1)] = data[j]
  <2>. DEFINE p == Wrap(b.read + (b.used + j) - 1)
  <2>1. p \in Positions
    <3>1. b.used + j \in 1 .. Size
      BY <1>1
    <3>. QED  BY <1>1, <3>1, WrapInside
  <2>2. at(p) = j - 1
    BY <1>2
  <2>. HIDE DEF p, at
  <2>3. at(p) < n /\ at(p) + 1 = j
    BY <1>1, <2>2
  <2>. QED  BY <1>5, <2>1, <2>3 DEF p
<1>11. /\ \A j \in 1 .. b.used : Unread(c, j) = Unread(b, j)
       /\ \A j \in 1 .. n : Unread(c, b.used + j) = data[j]
  BY <1>7, <1>9, <1>10 DEF Unread
<1>. QED  BY <1>7, <1>11, <1>8 DEF c

\* The same for the cells at_read_result_iov has done with.
LEMMA Consumes ==
    ASSUME rb \in Rings, RingAgrees(rb), NEW n \in Nat
    PROVE  LET c == Consumed(n)
               m == Least(n, rb.used)
           IN  /\ c \in Rings /\ RingAgrees(c)
               /\ c.used = rb.used - m
               /\ \A j \in 1 .. c.used : Unread(c, j) = Unread(rb, j + m)
<1>. DEFINE m == Least(n, rb.used)
            after == rb_read_upd(rb, n)
            unread == {Wrap(after.read + i) : i \in 0 .. after.used - 1}
            g == [p \in Positions |-> IF p \in unread THEN after.buffer[p] ELSE Blank]
            c == Consumed(n)
<1>1. /\ after \in Rings /\ RingAgrees(after) /\ after.used = rb.used - m
      /\ \A j \in 1 .. after.used : Unread(after, j) = Unread(rb, j + m)
  BY ReadUpd
<1>2. c = [after EXCEPT !.buffer = g]
  BY DEF Consumed
<1>. HIDE DEF m, after
<1>3. g \in [Positions -> Cell]
  <2>1. Blank \in Cell
    BY DEF Blank, Cell, Alphabet
  <2>2. after.buffer \in [Positions -> Cell]
    BY <1>1 DEF Rings
  <2>. QED  BY <2>1, <2>2
<1>4. \A p \in unread : p \in Positions => g[p] = after.buffer[p]
  OBVIOUS
<1>. HIDE DEF g, c
<1>5. /\ c \in Rings /\ c.used = after.used /\ c.read = after.read
      /\ c.write = after.write /\ c.buffer = g
  BY <1>1, <1>2, <1>3 DEF Rings
<1>6. RingAgrees(c)
  BY <1>1, <1>5 DEF RingAgrees
<1>7. ASSUME NEW j \in 1 .. after.used PROVE Unread(c, j) = Unread(after, j)
  <2>. DEFINE p == Wrap(after.read + j - 1)
  <2>1. after.read \in Positions /\ after.used \in 0 .. Size
    BY <1>1 DEF Rings
  <2>2. p \in Positions
    <3>1. j \in 1 .. Size
      BY <2>1, SizeAssumption
    <3>. QED  BY <2>1, <3>1, WrapInside
  <2>3. p \in unread
    <3>1. j - 1 \in 0 .. after.used - 1 /\ after.read + (j - 1) = after.read + j - 1
      BY <2>1 DEF Positions
    <3>. QED  BY <3>1
  <2>. HIDE DEF p, unread
  <2>4. g[p] = after.buffer[p]
    BY <1>4, <2>2, <2>3
  <2>. QED  BY <1>5, <2>4 DEF Unread, p
<1>8. \A j \in 1 .. c.used : Unread(c, j) = Unread(rb, j + m)
  BY <1>1, <1>5, <1>7
<1>. QED  BY <1>1, <1>5, <1>6, <1>8 DEF c, m

-----------------------------------------------------------------------------
(* What is ahead of the reader                                             *)

\* What is whole stays so when characters before it are read, or it moves from
\* the tty to the buffer.
LEMMA WholeShift ==
    ASSUME NEW b, NEW t, b.used \in Nat, Len(t) \in Nat, OKsWhole(b, t),
           NEW c, NEW u, c.used \in Nat, Len(u) \in Nat,
           NEW m \in Nat, c.used + Len(u) + m = b.used + Len(t),
           \A j \in 1 .. c.used + Len(u) : Ahead(c, u, j) = Ahead(b, t, j + m)
    PROVE  OKsWhole(c, u)
<1>. DEFINE len == c.used + Len(u)
<1>1. len \in Nat /\ len + m = b.used + Len(t)
  OBVIOUS
<1>. HIDE DEF len
<1>2. \A j \in 1 .. len : Ahead(c, u, j) = Ahead(b, t, j + m)
  BY DEF len
<1>3. \A i \in 1 .. len + m :
        /\ Ahead(b, t, i) = "O" => /\ i + 3 <= len + m
                                   /\ Ahead(b, t, i + 1) = "K"
                                   /\ Ahead(b, t, i + 2) = CR
                                   /\ Ahead(b, t, i + 3) = LF
        /\ Ahead(b, t, i) = "K" => /\ i + 2 <= len + m
                                   /\ Ahead(b, t, i + 1) = CR
                                   /\ Ahead(b, t, i + 2) = LF
  BY <1>1 DEF OKsWhole
<1>4. ASSUME NEW j \in 1 .. len, NEW n \in {1, 2, 3}, j + n <= len
      PROVE  Ahead(c, u, j + n) = Ahead(b, t, (j + m) + n)
  <2>1. j + n \in 1 .. len /\ (j + n) + m = (j + m) + n
    BY <1>1, <1>4
  <2>. QED  BY <1>2, <2>1
<1>5. ASSUME NEW j \in 1 .. len
      PROVE  /\ Ahead(c, u, j) = "O" => /\ j + 3 <= len
                                        /\ Ahead(c, u, j + 1) = "K"
                                        /\ Ahead(c, u, j + 2) = CR
                                        /\ Ahead(c, u, j + 3) = LF
             /\ Ahead(c, u, j) = "K" => /\ j + 2 <= len
                                        /\ Ahead(c, u, j + 1) = CR
                                        /\ Ahead(c, u, j + 2) = LF
  <2>. DEFINE i == j + m
  <2>1. /\ i \in 1 .. len + m /\ Ahead(c, u, j) = Ahead(b, t, i)
        /\ i + 3 <= len + m => j + 3 <= len /\ j + 2 <= len /\ j + 1 <= len
        /\ i + 2 <= len + m => j + 2 <= len /\ j + 1 <= len
    BY <1>1, <1>2
  <2>2. /\ j + 1 <= len => Ahead(c, u, j + 1) = Ahead(b, t, i + 1)
        /\ j + 2 <= len => Ahead(c, u, j + 2) = Ahead(b, t, i + 2)
        /\ j + 3 <= len => Ahead(c, u, j + 3) = Ahead(b, t, i + 3)
    BY <1>4
  <2>. HIDE DEF i
  <2>3. Ahead(c, u, j) = "O" => i + 3 <= len + m
    BY <1>3, <2>1
  <2>4. Ahead(c, u, j) = "K" => i + 2 <= len + m
    BY <1>3, <2>1
  <2>. QED  BY <1>3, <2>1, <2>2, <2>3, <2>4
<1>. QED  BY <1>5 DEF OKsWhole, len

LEMMA AheadConsumed ==
    ASSUME rb \in Rings, RingAgrees(rb), NEW n \in Nat, tty \in Seq(Cell), OKsWhole(rb, tty)
    PROVE  OKsWhole(Consumed(n), tty)
<1>. DEFINE c == Consumed(n)
            m == Least(n, rb.used)
<1>1. /\ c.used = rb.used - m
      /\ \A j \in 1 .. c.used : Unread(c, j) = Unread(rb, j + m)
  BY Consumes
<1>2. rb.used \in Nat /\ m \in 0 .. rb.used /\ Len(tty) \in Nat
  BY SizeAssumption DEF Rings, Least
<1>. HIDE DEF c, m
<1>3. \A j \in Nat \ {0} : Ahead(c, tty, j) = Ahead(rb, tty, j + m)
  <2>. TAKE j \in Nat \ {0}
  <2>1. j <= c.used => j + m <= rb.used /\ Ahead(c, tty, j) = Ahead(rb, tty, j + m)
    BY <1>1, <1>2 DEF Ahead
  <2>2. ASSUME ~(j <= c.used) PROVE Ahead(c, tty, j) = Ahead(rb, tty, j + m)
    <3>1. ~(j + m <= rb.used) /\ j - c.used = (j + m) - rb.used
      BY <1>1, <1>2, <2>2
    <3>2. Ahead(c, tty, j) = tty[j - c.used][1]
      BY <2>2 DEF Ahead
    <3>3. Ahead(rb, tty, j + m) = tty[(j + m) - rb.used][1]
      BY <3>1 DEF Ahead
    <3>. QED  BY <3>1, <3>2, <3>3
  <2>. QED  BY <2>1, <2>2
<1>4. /\ c.used \in Nat /\ c.used + Len(tty) + m = rb.used + Len(tty) /\ m \in Nat
      /\ \A j \in 1 .. c.used + Len(tty) : Ahead(c, tty, j) = Ahead(rb, tty, j + m)
  BY <1>1, <1>2, <1>3
<1>. QED  BY <1>2, <1>4, WholeShift DEF c

LEMMA AheadReceived ==
    ASSUME rb \in Rings, RingAgrees(rb), tty \in Seq(Cell), OKsWhole(rb, tty),
           NEW n \in 1 .. Len(tty), n <= Size - rb.used
    PROVE  LET data == SubSeq(tty, 1, n)
               rest == SubSeq(tty, n + 1, Len(tty))
           IN  /\ data \in Seq(Cell) /\ rest \in Seq(Cell) /\ Len(data) = n
               /\ OKsWhole(Received(rb, data), rest)
<1>. DEFINE data == SubSeq(tty, 1, n)
            rest == SubSeq(tty, n + 1, Len(tty))
            c == Received(rb, data)
<1>1. /\ data \in Seq(Cell) /\ Len(data) = n /\ \A j \in 1 .. n : data[j] = tty[j]
      /\ rest \in Seq(Cell) /\ Len(rest) = Len(tty) - n
      /\ \A j \in 1 .. Len(tty) - n : rest[j] = tty[n + j]
  <2>1. Len(tty) \in Nat /\ n \in Nat
    OBVIOUS
  <2>2. /\ 1 \in 1 .. Len(tty) + 1 /\ n \in 0 .. Len(tty)
        /\ n + 1 \in 1 .. Len(tty) + 1 /\ Len(tty) \in n + 1 - 1 .. Len(tty)
    BY <2>1
  <2>3. /\ data \in Seq(Cell) /\ Len(data) = n /\ \A j \in 1 .. n : data[j] = tty[j]
    BY <2>1, <2>2, SubSeqProperties
  <2>4. /\ rest \in Seq(Cell) /\ Len(rest) = Len(tty) - n
        /\ \A j \in 1 .. Len(tty) - n : rest[j] = tty[n + j]
    BY <2>1, <2>2, SubSeqProperties
  <2>. QED  BY <2>3, <2>4
<1>. HIDE DEF data, rest
<1>2. /\ c.used = rb.used + n
      /\ \A j \in 1 .. rb.used : Unread(c, j) = Unread(rb, j)
      /\ \A j \in 1 .. n : Unread(c, rb.used + j) = data[j]
  BY <1>1, Receives
<1>. HIDE DEF c
<1>3. rb.used \in Nat /\ c.used \in Nat /\ Len(tty) \in Nat /\ n \in Nat /\ Len(rest) \in Nat
  BY <1>1, <1>2, SizeAssumption DEF Rings
<1>4. c.used = rb.used + n /\ Len(rest) = Len(tty) - n
  BY <1>1, <1>2
<1>5. ASSUME NEW j \in 1 .. c.used + Len(rest)
      PROVE  Ahead(c, rest, j) = Ahead(rb, tty, j + 0)
  <2>0. j + 0 = j
    BY <1>3
  <2>1. CASE j <= rb.used
    <3>1. j \in 1 .. rb.used /\ j <= c.used
      BY <1>2, <1>3, <2>1
    <3>. QED  BY <1>2, <2>0, <2>1, <3>1 DEF Ahead
  <2>2. CASE rb.used < j /\ j <= c.used
    <3>. DEFINE i == j - rb.used
    <3>1. i \in 1 .. n /\ rb.used + i = j /\ ~(j <= rb.used)
      BY <1>2, <1>3, <2>2
    <3>2. Ahead(rb, tty, j) = tty[i][1]
      BY <3>1 DEF Ahead
    <3>3. Ahead(c, rest, j) = Unread(c, j)[1]
      BY <2>2 DEF Ahead
    <3>. HIDE DEF i
    <3>4. Unread(c, j) = tty[i]
      BY <1>1, <1>2, <3>1
    <3>. QED  BY <2>0, <3>2, <3>3, <3>4
  <2>3. CASE c.used < j
    <3>. PICK i : i = j - c.used
      OBVIOUS
    <3>1. /\ i \in 1 .. Len(tty) - n /\ ~(j <= rb.used) /\ ~(j <= c.used)
          /\ j - rb.used = n + i
      <4>. PICK r : r = rb.used
        OBVIOUS
      <4>. PICK u : u = c.used
        OBVIOUS
      <4>. PICK l : l = Len(tty)
        OBVIOUS
      <4>. PICK k : k = Len(rest)
        OBVIOUS
      <4>1. /\ r \in Nat /\ u \in Nat /\ l \in Nat /\ k \in Nat /\ n \in Nat /\ j \in Nat
            /\ u = r + n /\ k = l - n /\ u < j /\ j <= u + k /\ i = j - u
        BY <1>3, <1>4, <2>3
      <4>2. i \in 1 .. l - n /\ ~(j <= r) /\ ~(j <= u) /\ j - r = n + i
        BY ONLY <4>1
      <4>. QED  BY <4>2
    <3>2. Ahead(rb, tty, j) = tty[n + i][1]
      BY <3>1 DEF Ahead
    <3>3. Ahead(c, rest, j) = rest[i][1]
      BY <3>1 DEF Ahead
    <3>. QED  BY <1>1, <2>0, <3>1, <3>2, <3>3
  <2>. QED  BY <1>3, <2>1, <2>2, <2>3
<1>6. c.used + Len(rest) + 0 = rb.used + Len(tty)
  BY <1>3, <1>4
<1>7. OKsWhole(c, rest)
  BY <1>3, <1>5, <1>6, WholeShift
<1>. QED  BY <1>1, <1>7 DEF data, rest, c

\* The same of a text.
TextWhole(w) ==
    \A j \in 1 .. Len(w) :
        /\ w[j] = "O" => j + 3 <= Len(w) /\ w[j + 1] = "K" /\ w[j + 2] = CR /\ w[j + 3] = LF
        /\ w[j] = "K" => j + 2 <= Len(w) /\ w[j + 1] = CR /\ w[j + 2] = LF

LEMMA Concats ==
    ASSUME NEW S, NEW a \in Seq(S), NEW b \in Seq(S)
    PROVE  /\ a \o b \in Seq(S) /\ Len(a \o b) = Len(a) + Len(b)
           /\ \A i \in 1 .. Len(a) : (a \o b)[i] = a[i]
           /\ \A i \in 1 .. Len(b) : (a \o b)[Len(a) + i] = b[i]
BY ConcatProperties

LEMMA LineEnded ==
    ASSUME NEW w \in Seq(Alphabet), Len(w) = 4,
           w[1] = CR, w[2] = LF, w[3] = "O", w[4] = "K",
           NEW eol \in Seq(Alphabet), Len(eol) = 2, eol[1] = CR, eol[2] = LF
    PROVE  w \o eol \in Seq(Alphabet) /\ TextWhole(w \o eol)
<1>. DEFINE x == w \o eol
<1>1. /\ x \in Seq(Alphabet) /\ Len(x) = Len(w) + Len(eol)
      /\ \A i \in 1 .. Len(w) : x[i] = w[i]
      /\ \A i \in 1 .. Len(eol) : x[Len(w) + i] = eol[i]
  BY ONLY w \in Seq(Alphabet), eol \in Seq(Alphabet), Concats
<1>. HIDE DEF x
<1>2. Len(x) = 6 /\ x[4 + 1] = CR /\ x[4 + 2] = LF
  BY <1>1
<1>3. x[1] = w[1] /\ x[2] = w[2] /\ x[3] = w[3] /\ x[4] = w[4]
  BY <1>1
<1>4. TextWhole(x)
  BY <1>2, <1>3 DEF TextWhole, CR, LF
<1>. QED  BY <1>1, <1>4 DEF x

\* Only an "OK" has an O and a K.
LEMMA WrappedWhole ==
    ASSUME NEW k \in Kinds
    PROVE  Wrapped(k) \in Seq(Alphabet) /\ TextWhole(Wrapped(k))
<1>. DEFINE Others == Alphabet \ {"O", "K"}
<1>1. CASE k = "ok"
  <2>. DEFINE eol == <<CR, LF>>
              ok == <<"O", "K">>
              w == eol \o ok
  <2>1. Wrapped(k) = w \o eol
    <3>1. Text(k) = ok
      BY <1>1 DEF Text
    <3>2. Wrapped(k) = eol \o Text(k) \o eol
      BY <1>1 DEF Wrapped
    <3>. QED  BY <3>1, <3>2
  <2>2. /\ eol \in Seq(Alphabet) /\ Len(eol) = 2 /\ eol[1] = CR /\ eol[2] = LF
        /\ ok \in Seq(Alphabet) /\ Len(ok) = 2 /\ ok[1] = "O" /\ ok[2] = "K"
    BY DEF Alphabet
  <2>. HIDE DEF eol, ok
  <2>3. /\ w \in Seq(Alphabet) /\ Len(w) = 4
        /\ w[1] = CR /\ w[2] = LF /\ w[3] = "O" /\ w[4] = "K"
    <3>1. /\ w \in Seq(Alphabet) /\ Len(w) = 2 + 2
          /\ \A i \in 1 .. 2 : w[i] = eol[i]
          /\ \A i \in 1 .. 2 : w[2 + i] = ok[i]
      <4>1. eol \in Seq(Alphabet) /\ ok \in Seq(Alphabet)
        BY <2>2
      <4>2. /\ w \in Seq(Alphabet) /\ Len(w) = Len(eol) + Len(ok)
            /\ \A i \in 1 .. Len(eol) : w[i] = eol[i]
            /\ \A i \in 1 .. Len(ok) : w[Len(eol) + i] = ok[i]
        BY ONLY <4>1, Concats
      <4>3. Len(eol) = 2 /\ Len(ok) = 2
        BY <2>2
      <4>. QED  BY ONLY <4>2, <4>3
    <3>2. w[2 + 1] = "O" /\ w[2 + 2] = "K"
      BY <2>2, <3>1
    <3>. QED  BY <2>2, <3>1, <3>2
  <2>. HIDE DEF w
  <2>4. w \o eol \in Seq(Alphabet) /\ TextWhole(w \o eol)
    BY <2>2, <2>3, LineEnded
  <2>. QED  BY <2>1, <2>4
<1>2. CASE k # "ok"
  <2>1. Text(k) \in Seq(Others)
    <3>1. {"x", ">", "n", CR, LF, "pdu", "AT", "+CSSI:", "+CMGS:", "+CLCC:", "+CMGR:",
           "+CDS:"} \subseteq Others
      BY DEF Alphabet, CR, LF
    <3>2. Text(k) \in {<<"x">>, <<">">>, <<"+CSSI:", "n">>, <<"+CMGS:", "n">>, <<"+CLCC:", "n">>,
                       <<"+CMGR:", "n", CR, LF, "pdu">>, <<"+CDS:", "n", CR, LF, "pdu">>,
                       <<"AT">>}
      BY <1>2, KindsAssumption DEF Text
    <3>. HIDE DEF Others
    <3>3. ASSUME NEW a \in Others, NEW b \in Others, NEW c \in Others, NEW d \in Others,
                 NEW e \in Others
          PROVE  /\ <<a>> \in Seq(Others) /\ <<a, b>> \in Seq(Others)
                 /\ <<a, b, c, d, e>> \in Seq(Others)
      OBVIOUS
    <3>4. /\ <<"x">> \in Seq(Others) /\ <<">">> \in Seq(Others) /\ <<"AT">> \in Seq(Others)
          /\ <<"+CSSI:", "n">> \in Seq(Others) /\ <<"+CMGS:", "n">> \in Seq(Others)
          /\ <<"+CLCC:", "n">> \in Seq(Others)
      BY <3>1, <3>3
    <3>5. /\ <<"+CMGR:", "n", CR, LF, "pdu">> \in Seq(Others)
          /\ <<"+CDS:", "n", CR, LF, "pdu">> \in Seq(Others)
      BY <3>1, <3>3
    <3>. QED  BY <3>2, <3>4, <3>5
  <2>2. <<CR, LF>> \in Seq(Others) /\ <<CR, LF, CR, LF>> \in Seq(Others) /\ <<CR>> \in Seq(Others)
    BY DEF Alphabet, CR, LF
  <2>3. Wrapped(k) \in {Text(k) \o <<CR>>, <<CR, LF, CR, LF>> \o Text(k) \o <<CR, LF>>,
                        <<CR, LF>> \o Text(k), <<CR, LF>> \o Text(k) \o <<CR, LF>>}
    BY DEF Wrapped
  <2>. HIDE DEF Others
  <2>4. Wrapped(k) \in Seq(Others)
    <3>1. /\ Text(k) \o <<CR>> \in Seq(Others)
          /\ <<CR, LF>> \o Text(k) \in Seq(Others)
          /\ <<CR, LF, CR, LF>> \o Text(k) \in Seq(Others)
      BY ONLY <2>1, <2>2, Concats
    <3>2. /\ <<CR, LF, CR, LF>> \o Text(k) \o <<CR, LF>> \in Seq(Others)
          /\ <<CR, LF>> \o Text(k) \o <<CR, LF>> \in Seq(Others)
      BY ONLY <3>1, <2>2, Concats
    <3>. QED  BY ONLY <2>3, <3>1, <3>2
  <2>5. Wrapped(k) \in Seq(Alphabet)
    BY <2>4, SeqMonotonic DEF Others
  <2>6. \A j \in 1 .. Len(Wrapped(k)) : Wrapped(k)[j] \in Others
    BY <2>4, ElementOfSeq
  <2>. QED  BY <2>5, <2>6 DEF TextWhole, Others
<1>. QED  BY <1>1, <1>2

LEMMA AheadSaid ==
    ASSUME NEW b, b.used \in Nat, NEW t \in Seq(Cell), OKsWhole(b, t),
           NEW d \in Seq(Cell), NEW w \in Seq(Alphabet), TextWhole(w), Len(d) = Len(w),
           \A j \in 1 .. Len(w) : d[j][1] = w[j]
    PROVE  t \o d \in Seq(Cell) /\ OKsWhole(b, t \o d)
<1>. DEFINE u == t \o d
            len == b.used + Len(t)
            n == Len(w)
<1>1. /\ u \in Seq(Cell) /\ Len(u) = Len(t) + Len(d)
      /\ \A i \in 1 .. Len(t) : u[i] = t[i]
      /\ \A i \in 1 .. Len(d) : u[Len(t) + i] = d[i]
  BY ONLY t \in Seq(Cell), d \in Seq(Cell), Concats
<1>. HIDE DEF u
<1>2. /\ len \in Nat /\ n \in Nat /\ Len(t) \in Nat /\ b.used <= len
      /\ b.used + Len(u) = len + n /\ len - b.used = Len(t)
  <2>1. n \in Nat /\ Len(t) \in Nat
    BY ONLY w \in Seq(Alphabet), t \in Seq(Cell), LenProperties
  <2>2. Len(u) = Len(t) + n
    BY <1>1
  <2>. QED  BY ONLY <2>1, <2>2, b.used \in Nat
<1>3. ASSUME NEW j \in 1 .. len PROVE Ahead(b, u, j) = Ahead(b, t, j)
  <2>1. CASE j <= b.used
    BY <2>1 DEF Ahead
  <2>2. CASE ~(j <= b.used)
    <3>1. j - b.used \in 1 .. Len(t)
      <4>1. j \in Nat /\ j <= len
        BY <1>2
      <4>2. \A h, r, k \in Nat : h - r = k /\ j <= h /\ ~(j <= r) => j - r \in 1 .. k
        BY <4>1
      <4>. HIDE DEF len
      <4>. QED  BY ONLY <1>2, <2>2, <4>1, <4>2, b.used \in Nat, Zenon
    <3>. QED  BY <1>1, <2>2, <3>1 DEF Ahead
  <2>. QED  BY <2>1, <2>2
<1>4. ASSUME NEW j \in 1 .. n PROVE Ahead(b, u, len + j) = w[j]
  <2>1. ~(len + j <= b.used) /\ (len + j) - b.used = Len(t) + j
    <3>1. j \in Nat /\ j >= 1
      BY <1>2
    <3>2. \A L, r, k \in Nat : r <= L /\ L - r = k => ~(L + j <= r) /\ (L + j) - r = k + j
      BY <3>1
    <3>. HIDE DEF len
    <3>. QED  BY ONLY <1>2, <3>2, b.used \in Nat, Zenon
  <2>2. Ahead(b, u, len + j) = u[Len(t) + j][1]
    BY <2>1 DEF Ahead
  <2>. QED  BY <1>1, <2>2
<1>. HIDE DEF len
<1>5. ASSUME NEW j \in 1 .. len
      PROVE  /\ Ahead(b, u, j) = "O" => /\ j + 3 <= len + n
                                        /\ Ahead(b, u, j + 1) = "K"
                                        /\ Ahead(b, u, j + 2) = CR
                                        /\ Ahead(b, u, j + 3) = LF
             /\ Ahead(b, u, j) = "K" => /\ j + 2 <= len + n
                                        /\ Ahead(b, u, j + 1) = CR
                                        /\ Ahead(b, u, j + 2) = LF
  <2>1. /\ j + 1 <= len => Ahead(b, u, j + 1) = Ahead(b, t, j + 1)
        /\ j + 2 <= len => Ahead(b, u, j + 2) = Ahead(b, t, j + 2)
        /\ j + 3 <= len => Ahead(b, u, j + 3) = Ahead(b, t, j + 3)
    <3>1. \A i \in {1, 2, 3} : j + i <= len => j + i \in 1 .. len
      BY <1>2
    <3>. QED  BY <1>3, <3>1
  <2>2. /\ Ahead(b, t, j) = "O" => /\ j + 3 <= len
                                   /\ Ahead(b, t, j + 1) = "K"
                                   /\ Ahead(b, t, j + 2) = CR
                                   /\ Ahead(b, t, j + 3) = LF
        /\ Ahead(b, t, j) = "K" => /\ j + 2 <= len
                                   /\ Ahead(b, t, j + 1) = CR
                                   /\ Ahead(b, t, j + 2) = LF
    BY DEF OKsWhole, len
  <2>3. /\ j + 3 <= len => j + 1 <= len /\ j + 2 <= len /\ j + 3 <= len + n
        /\ j + 2 <= len => j + 1 <= len /\ j + 2 <= len + n
    BY <1>2
  <2>. QED  BY <1>3, <2>1, <2>2, <2>3
<1>6. ASSUME NEW j \in 1 .. n
      PROVE  LET k == len + j
             IN  /\ Ahead(b, u, k) = "O" => /\ k + 3 <= len + n
                                            /\ Ahead(b, u, k + 1) = "K"
                                            /\ Ahead(b, u, k + 2) = CR
                                            /\ Ahead(b, u, k + 3) = LF
                 /\ Ahead(b, u, k) = "K" => /\ k + 2 <= len + n
                                            /\ Ahead(b, u, k + 1) = CR
                                            /\ Ahead(b, u, k + 2) = LF
  <2>. DEFINE k == len + j
  <2>1. \A i \in {1, 2, 3} : j + i <= n => Ahead(b, u, k + i) = w[j + i]
    <3>1. \A i \in {1, 2, 3} : k + i = len + (j + i) /\ (j + i <= n => j + i \in 1 .. n)
      BY <1>2
    <3>. QED  BY <1>4, <3>1
  <2>2. /\ j + 3 <= n => j + 1 <= n /\ j + 2 <= n /\ k + 3 <= len + n
        /\ j + 2 <= n => j + 1 <= n /\ k + 2 <= len + n
    BY <1>2
  <2>3. Ahead(b, u, k) = w[j]
    BY <1>4
  <2>4. /\ w[j] = "O" => j + 3 <= n /\ w[j + 1] = "K" /\ w[j + 2] = CR /\ w[j + 3] = LF
        /\ w[j] = "K" => j + 2 <= n /\ w[j + 1] = CR /\ w[j + 2] = LF
    BY DEF TextWhole
  <2>. HIDE DEF k, n
  <2>5. /\ Ahead(b, u, k) = "O" => /\ k + 3 <= len + n
                                   /\ Ahead(b, u, k + 1) = "K"
                                   /\ Ahead(b, u, k + 2) = CR
                                   /\ Ahead(b, u, k + 3) = LF
        /\ Ahead(b, u, k) = "K" => /\ k + 2 <= len + n
                                   /\ Ahead(b, u, k + 1) = CR
                                   /\ Ahead(b, u, k + 2) = LF
    BY <2>1, <2>2, <2>3, <2>4
  <2>. QED  BY <2>5 DEF k
<1>. HIDE DEF n
<1>7. \A k \in 1 .. len + n :
        /\ Ahead(b, u, k) = "O" => /\ k + 3 <= len + n
                                   /\ Ahead(b, u, k + 1) = "K"
                                   /\ Ahead(b, u, k + 2) = CR
                                   /\ Ahead(b, u, k + 3) = LF
        /\ Ahead(b, u, k) = "K" => /\ k + 2 <= len + n
                                   /\ Ahead(b, u, k + 1) = CR
                                   /\ Ahead(b, u, k + 2) = LF
  <2>. TAKE k \in 1 .. len + n
  <2>1. CASE k \in 1 .. len
    BY <1>5, <2>1
  <2>2. CASE k > len
    <3>1. k - len \in 1 .. n /\ k = len + (k - len)
      BY <1>2, <2>2
    <3>. QED  BY <1>6, <3>1
  <2>. QED  BY <1>2, <2>1, <2>2
<1>. QED  BY <1>1, <1>2, <1>7 DEF OKsWhole, u

-----------------------------------------------------------------------------
(* Searching                                                               *)

\* mem is in text behind i characters.
Occurs(text, mem, i) ==
    /\ i + Len(mem) <= Len(text)
    /\ \A k \in 1 .. Len(mem) : text[i + k] = mem[k]

LEMMA LeastOfNat ==
    ASSUME NEW S \in SUBSET Nat, S # {}
    PROVE  \E i \in S : \A j \in S : i <= j
<1>1. PICK i \in S : \A j \in S : ~(<<j, i>> \in OpToRel(<, Nat))
  BY NatLessThanWellFounded, WFMin
<1>2. \A j \in S : ~(j < i)
  BY <1>1 DEF OpToRel
<1>. QED  BY <1>2

LEMMA SubSeqOccurs ==
    ASSUME NEW S, NEW text \in Seq(S), NEW mem \in Seq(S), NEW i \in Nat,
           i <= Len(text) - Len(mem)
    PROVE  SubSeq(text, i + 1, i + Len(mem)) = mem <=> Occurs(text, mem, i)
<1>. DEFINE sub == SubSeq(text, i + 1, i + Len(mem))
<1>1. Len(text) \in Nat /\ Len(mem) \in Nat
  BY LenProperties
<1>2. /\ sub \in Seq(S) /\ Len(sub) = Len(mem)
      /\ \A k \in 1 .. Len(mem) : sub[k] = text[i + k]
  <2>. PICK p : p = i + 1
    OBVIOUS
  <2>. PICK q : q = i + Len(mem)
    OBVIOUS
  <2>1. p \in 1 .. Len(text) + 1 /\ q \in p - 1 .. Len(text)
    BY <1>1
  <2>2. q - p + 1 = Len(mem) /\ \A k \in 1 .. Len(mem) : p + k - 1 = i + k
    BY <1>1
  <2>3. /\ SubSeq(text, p, q) \in Seq(S) /\ Len(SubSeq(text, p, q)) = q - p + 1
        /\ \A k \in 1 .. q - p + 1 : SubSeq(text, p, q)[k] = text[p + k - 1]
    BY ONLY <2>1, text \in Seq(S), SubSeqProperties
  <2>. QED  BY <2>2, <2>3
<1>. HIDE DEF sub
<1>3. Occurs(text, mem, i) => sub = mem
  BY <1>2, SeqEqual DEF Occurs
<1>4. sub = mem => Occurs(text, mem, i)
  BY <1>1, <1>2 DEF Occurs
<1>. QED  BY <1>3, <1>4 DEF sub

\* A search finds the first occurrence, or there is none.
LEMMA FindLeast ==
    ASSUME NEW S, NEW text \in Seq(S), NEW mem \in Seq(S), NEW from \in Nat
    PROVE  LET f == Find(text, mem, from)
           IN  \/ /\ f = -1
                  /\ \A i \in Nat : i >= from => ~Occurs(text, mem, i)
               \/ /\ f \in Nat /\ f >= from /\ Occurs(text, mem, f)
                  /\ \A i \in Nat : i >= from /\ Occurs(text, mem, i) => f <= i
<1>. DEFINE at == {i \in from .. Len(text) - Len(mem) : SubSeq(text, i + 1, i + Len(mem)) = mem}
            f == Find(text, mem, from)
<1>1. Len(text) \in Nat /\ Len(mem) \in Nat
  BY LenProperties
<1>2. \A i \in Nat : i >= from => (i \in at <=> Occurs(text, mem, i))
  <2>. SUFFICES ASSUME NEW i \in Nat, i >= from PROVE i \in at <=> Occurs(text, mem, i)
    OBVIOUS
  <2>1. CASE i <= Len(text) - Len(mem)
    <3>1. SubSeq(text, i + 1, i + Len(mem)) = mem <=> Occurs(text, mem, i)
      BY <2>1, SubSeqOccurs
    <3>. QED  BY <1>1, <2>1, <3>1
  <2>2. CASE ~(i <= Len(text) - Len(mem))
    BY <1>1, <2>2 DEF Occurs
  <2>. QED  BY <2>1, <2>2
<1>3. f = IF at = {} THEN -1 ELSE CHOOSE i \in at : \A j \in at : i <= j
  BY DEF Find
<1>4. at \in SUBSET Nat /\ \A i \in at : i >= from
  BY <1>1
<1>. HIDE DEF at, f
<1>5. CASE at = {}
  BY <1>2, <1>3, <1>5 DEF f
<1>6. CASE at # {}
  <2>1. \E i \in at : \A j \in at : i <= j
    BY <1>4, <1>6, LeastOfNat
  <2>2. f \in at /\ \A j \in at : f <= j
    BY <1>3, <1>6, <2>1
  <2>. QED  BY <1>2, <1>4, <2>2 DEF f
<1>. QED  BY <1>5, <1>6

LEMMA FindTyped ==
    ASSUME NEW S, NEW text \in Seq(S), NEW mem \in Seq(S), NEW from \in Nat
    PROVE  Find(text, mem, from) \in Int
BY FindLeast

\* The unread characters, and the two pieces they are in.
LEMMA PendingPieces ==
    ASSUME rb \in Rings
    PROVE  /\ Pending \in Seq(Alphabet) /\ Len(Pending) = rb.used
           /\ rb.used \in Nat /\ FirstPiece \in 0 .. rb.used
           /\ SecondPiece = rb.used - FirstPiece
           /\ \A j \in 1 .. rb.used : Pending[j] = Unread(rb, j)[1]
<1>1. /\ rb.used \in Nat /\ rb.used <= Size /\ rb.read \in Positions
      /\ rb.buffer \in [Positions -> Cell]
  BY SizeAssumption DEF Rings
<1>2. FirstPiece \in 0 .. rb.used
  BY <1>1, SizeAssumption DEF FirstPiece, Least, Positions
<1>. DEFINE cells == rb_read_all_iov(rb)
<1>3. /\ DOMAIN cells = 1 .. rb.used /\ \A j \in 1 .. rb.used : cells[j] = Unread(rb, j)
  BY DEF rb_read_all_iov
<1>. HIDE DEF cells
<1>4. Pending = [i \in 1 .. rb.used |-> cells[i][1]]
  BY <1>3 DEF Pending, Characters, cells
<1>5. ASSUME NEW j \in 1 .. rb.used PROVE cells[j][1] \in Alphabet
  <2>1. Wrap(rb.read + j - 1) \in Positions
    <3>1. j \in 1 .. Size
      BY <1>1, SizeAssumption
    <3>. QED  BY <1>1, <3>1, WrapInside
  <2>2. cells[j] \in Cell
    BY <1>1, <1>3, <2>1 DEF Unread
  <2>. QED  BY <2>2 DEF Cell
<1>6. Pending \in Seq(Alphabet) /\ Len(Pending) = rb.used
  BY <1>1, <1>4, <1>5
<1>7. \A j \in 1 .. rb.used : Pending[j] = Unread(rb, j)[1]
  BY <1>3, <1>4
<1>. QED  BY <1>1, <1>2, <1>6, <1>7 DEF SecondPiece

FirstText  == SubSeq(Pending, 1, FirstPiece)
SecondText == SubSeq(Pending, FirstPiece + 1, rb.used)

LEMMA PieceTexts ==
    ASSUME rb \in Rings
    PROVE  /\ FirstText \in Seq(Alphabet) /\ Len(FirstText) = FirstPiece
           /\ \A j \in 1 .. FirstPiece : FirstText[j] = Pending[j]
           /\ SecondText \in Seq(Alphabet) /\ Len(SecondText) = rb.used - FirstPiece
           /\ \A j \in 1 .. rb.used - FirstPiece : SecondText[j] = Pending[FirstPiece + j]
<1>. DEFINE fp == FirstPiece
            u == rb.used
            text == Pending
<1>1. text \in Seq(Alphabet) /\ Len(text) = u /\ u \in Nat /\ fp \in 0 .. u
  BY PendingPieces
<1>. HIDE DEF fp, u, text
<1>2. \A j \in 1 .. u : text[j] \in Alphabet
  BY <1>1, ElementOfSeq
<1>3. LET sub == SubSeq(text, 1, fp)
      IN  /\ sub \in Seq(Alphabet) /\ Len(sub) = fp
          /\ \A j \in 1 .. fp : sub[j] = text[j]
  <2>1. \A j \in 1 .. fp : text[j] \in Alphabet
    BY <1>1, <1>2
  <2>2. fp - 1 + 1 = fp /\ \A j \in 1 .. fp : 1 + j - 1 = j
    BY <1>1
  <2>3. LET sub == SubSeq(text, 1, fp)
        IN  /\ sub \in Seq(Alphabet) /\ Len(sub) = IF 1 <= fp THEN fp - 1 + 1 ELSE 0
            /\ \A j \in 1 .. fp - 1 + 1 : sub[j] = text[1 + j - 1]
    BY <1>1, <2>1, SubSeqProperties
  <2>. QED  BY <1>1, <2>2, <2>3
<1>4. LET sub == SubSeq(text, fp + 1, u)
      IN  /\ sub \in Seq(Alphabet) /\ Len(sub) = u - fp
          /\ \A j \in 1 .. u - fp : sub[j] = text[fp + j]
  <2>1. \A j \in fp + 1 .. u : text[j] \in Alphabet
    BY <1>1, <1>2
  <2>2. u - (fp + 1) + 1 = u - fp /\ \A j \in 1 .. u - fp : (fp + 1) + j - 1 = fp + j
    BY <1>1
  <2>3. LET sub == SubSeq(text, fp + 1, u)
        IN  /\ sub \in Seq(Alphabet)
            /\ Len(sub) = IF fp + 1 <= u THEN u - (fp + 1) + 1 ELSE 0
            /\ \A j \in 1 .. u - (fp + 1) + 1 : sub[j] = text[(fp + 1) + j - 1]
    BY <1>1, <2>1, SubSeqProperties
  <2>. QED  BY <1>1, <2>2, <2>3
<1>. QED  BY <1>3, <1>4 DEF FirstText, SecondText, fp, u, text

LEMMA PieceOccurs ==
    ASSUME rb \in Rings, NEW mem \in Seq(Alphabet), NEW i \in Nat
    PROVE  /\ Occurs(FirstText, mem, i)
                <=> Occurs(Pending, mem, i) /\ i + Len(mem) <= FirstPiece
           /\ Occurs(SecondText, mem, i) <=> Occurs(Pending, mem, FirstPiece + i)
<1>1. /\ Len(mem) \in Nat /\ Len(Pending) = rb.used /\ rb.used \in Nat
      /\ FirstPiece \in 0 .. rb.used /\ FirstPiece \in Nat
  BY PendingPieces, LenProperties
<1>2. /\ Len(FirstText) = FirstPiece /\ Len(SecondText) = rb.used - FirstPiece
      /\ \A j \in 1 .. FirstPiece : FirstText[j] = Pending[j]
      /\ \A j \in 1 .. rb.used - FirstPiece : SecondText[j] = Pending[FirstPiece + j]
  BY PieceTexts
<1>3. ASSUME i + Len(mem) <= FirstPiece, NEW k \in 1 .. Len(mem)
      PROVE  FirstText[i + k] = Pending[i + k]
  <2>1. i + k \in 1 .. FirstPiece
    BY <1>1, <1>3
  <2>. QED  BY <1>2, <2>1
<1>4. ASSUME i + Len(mem) <= rb.used - FirstPiece, NEW k \in 1 .. Len(mem)
      PROVE  SecondText[i + k] = Pending[(FirstPiece + i) + k]
  <2>1. i + k \in 1 .. rb.used - FirstPiece /\ FirstPiece + (i + k) = (FirstPiece + i) + k
    BY <1>1, <1>4
  <2>. QED  BY <1>2, <2>1
<1>5. /\ i + Len(mem) <= FirstPiece => i + Len(mem) <= rb.used
      /\ i + Len(mem) <= rb.used - FirstPiece <=> (FirstPiece + i) + Len(mem) <= rb.used
  BY <1>1
<1>. QED  BY <1>1, <1>2, <1>3, <1>4, <1>5 DEF Occurs

\* The n characters of text behind the first a are those of mem behind the
\* first c.
SameAt(text, a, mem, c, n) == \A k \in 1 .. n : text[a + k] = mem[c + k]

LEMMA SameSubSeq ==
    ASSUME NEW S, NEW text \in Seq(S), NEW mem \in Seq(S), NEW a \in Nat, NEW c \in Nat,
           NEW b \in a .. Len(text), NEW d \in c .. Len(mem), b - a = d - c
    PROVE  SubSeq(text, a + 1, b) = SubSeq(mem, c + 1, d) <=> SameAt(text, a, mem, c, b - a)
<1>. DEFINE left  == SubSeq(text, a + 1, b)
            right == SubSeq(mem, c + 1, d)
            n     == b - a
<1>1. /\ Len(text) \in Nat /\ Len(mem) \in Nat /\ n \in Nat
      /\ b - (a + 1) + 1 = n /\ \A k \in 1 .. n : (a + 1) + k - 1 = a + k
      /\ d - (c + 1) + 1 = n /\ \A k \in 1 .. n : (c + 1) + k - 1 = c + k
      /\ a + 1 \in 1 .. Len(text) + 1 /\ b \in (a + 1) - 1 .. Len(text)
      /\ c + 1 \in 1 .. Len(mem) + 1 /\ d \in (c + 1) - 1 .. Len(mem)
  <2>1. Len(text) \in Nat /\ Len(mem) \in Nat
    BY LenProperties
  <2>. QED  BY <2>1
<1>. HIDE DEF n
<1>2. /\ left \in Seq(S) /\ Len(left) = n
      /\ \A k \in 1 .. n : left[k] = text[a + k]
  BY <1>1, SubSeqProperties
<1>3. /\ right \in Seq(S) /\ Len(right) = n
      /\ \A k \in 1 .. n : right[k] = mem[c + k]
  BY <1>1, SubSeqProperties
<1>. HIDE DEF left, right
<1>4. (\A k \in 1 .. n : left[k] = right[k]) => left = right
  BY <1>2, <1>3, SeqEqual
<1>. QED  BY <1>2, <1>3, <1>4 DEF left, right, n, SameAt

\* What it takes to find mem across the two pieces.
LEMMA StraddlingPlace ==
    ASSUME rb \in Rings, NEW mem \in Seq(Alphabet), NEW i \in 1 .. Len(mem) - 1
    PROVE  i \in Straddling(mem) <=>
             /\ Len(mem) - i <= FirstPiece /\ i <= SecondPiece /\ 2 * i <= Len(mem)
             /\ SameAt(Pending, FirstPiece - (Len(mem) - i), mem, 0, Len(mem) - i)
             /\ SameAt(Pending, FirstPiece, mem, i, i)
<1>. PICK text : text = Pending
  OBVIOUS
<1>. PICK fp : fp = FirstPiece
  OBVIOUS
<1>. PICK m : m = Len(mem)
  OBVIOUS
<1>1. /\ text \in Seq(Alphabet) /\ fp \in 0 .. Len(text)
      /\ SecondPiece = Len(text) - fp /\ m \in Nat /\ Len(text) \in Nat
  BY PendingPieces, LenProperties
<1>0. text \in Seq(Alphabet) /\ mem \in Seq(Alphabet)
  BY <1>1
<1>2. i \in Straddling(mem) <=>
        /\ m - i <= fp /\ i <= SecondPiece /\ 2 * i <= m
        /\ SubSeq(text, fp - (m - i) + 1, fp) = SubSeq(mem, 1, m - i)
        /\ SubSeq(text, fp + 1, fp + i) = SubSeq(mem, i + 1, 2 * i)
  BY DEF Straddling
<1>3. ASSUME m - i <= fp
      PROVE  SubSeq(text, fp - (m - i) + 1, fp) = SubSeq(mem, 1, m - i)
               <=> SameAt(text, fp - (m - i), mem, 0, m - i)
  <2>. PICK a : a = fp - (m - i)
    OBVIOUS
  <2>. PICK d : d = m - i
    OBVIOUS
  <2>. PICK z : z = 0
    OBVIOUS
  <2>1. /\ a \in Nat /\ fp \in a .. Len(text) /\ z \in Nat /\ d \in z .. Len(mem)
        /\ fp - a = d - z /\ fp - a = d /\ z + 1 = 1
    BY ONLY <1>1, <1>3, i \in 1 .. Len(mem) - 1, m = Len(mem), a = fp - (m - i), d = m - i, z = 0
  <2>2. SubSeq(text, a + 1, fp) = SubSeq(mem, z + 1, d) <=> SameAt(text, a, mem, z, fp - a)
    BY ONLY <1>0, <2>1, SameSubSeq
  <2>. QED  BY <2>1, <2>2
<1>4. ASSUME i <= SecondPiece, 2 * i <= m
      PROVE  SubSeq(text, fp + 1, fp + i) = SubSeq(mem, i + 1, 2 * i)
               <=> SameAt(text, fp, mem, i, i)
  <2>. PICK b : b = fp + i
    OBVIOUS
  <2>. PICK c : c = i
    OBVIOUS
  <2>. PICK d : d = 2 * i
    OBVIOUS
  <2>1. /\ fp \in Nat /\ b \in fp .. Len(text) /\ c \in Nat /\ d \in c .. Len(mem)
        /\ b - fp = d - c /\ b - fp = i
    BY ONLY <1>1, <1>4, i \in 1 .. Len(mem) - 1, m = Len(mem), b = fp + i, c = i, d = 2 * i
  <2>2. SubSeq(text, fp + 1, b) = SubSeq(mem, c + 1, d) <=> SameAt(text, fp, mem, c, b - fp)
    BY ONLY <1>0, <2>1, SameSubSeq
  <2>. QED  BY <2>1, <2>2
<1>. QED  BY <1>2, <1>3, <1>4

\* rb_read_until_mem_iov finds the first mem, unless it is fooled, or does not
\* look, where the buffer wraps around.
LEMMA UntilMem ==
    ASSUME rb \in Rings, NEW mem \in Seq(Alphabet), Len(mem) >= 1
    PROVE  LET r == rb_read_until_mem(mem)
               f == Find(Pending, mem, 0)
           IN  /\ r \in Int /\ r >= -1
               /\ Straddling(mem) = {} =>
                     r = f \/ (f \in Nat /\ f < FirstPiece /\ FirstPiece < f + Len(mem))
               /\ Straddling(mem) # {} =>
                     \/ r = f
                     \/ /\ \A i \in Nat : Occurs(Pending, mem, i) => i + Len(mem) > FirstPiece
                        /\ \E i \in Straddling(mem) : r = FirstPiece - Len(mem) + i
<1>. DEFINE r == rb_read_until_mem(mem)
            f == Find(Pending, mem, 0)
            a == Find(FirstText, mem, 0)
            b == Find(SecondText, mem, 0)
            S == Straddling(mem)
            Y == CHOOSE i \in S : \A j \in S : i <= j
            fp == FirstPiece
            m == Len(mem)
<1>1. r = CASE a >= 0 -> a
            [] a < 0 /\ S # {} -> fp - m + Y
            [] OTHER -> IF b < 0 THEN -1 ELSE fp + b
  BY DEF rb_read_until_mem, FirstText, SecondText
<1>2. /\ Pending \in Seq(Alphabet) /\ FirstText \in Seq(Alphabet)
      /\ SecondText \in Seq(Alphabet) /\ fp \in Nat /\ m \in Nat /\ m >= 1
  BY PendingPieces, PieceTexts, LenProperties
<1>3. /\ \A i \in Nat : Occurs(FirstText, mem, i) <=> Occurs(Pending, mem, i) /\ i + m <= fp
      /\ \A i \in Nat : Occurs(SecondText, mem, i) <=> Occurs(Pending, mem, fp + i)
  BY PieceOccurs
<1>4. \/ f = -1 /\ \A i \in Nat : i >= 0 => ~Occurs(Pending, mem, i)
      \/ /\ f \in Nat /\ f >= 0 /\ Occurs(Pending, mem, f)
         /\ \A i \in Nat : i >= 0 /\ Occurs(Pending, mem, i) => f <= i
  BY <1>2, FindLeast
<1>5. \/ a = -1 /\ \A i \in Nat : i >= 0 => ~Occurs(FirstText, mem, i)
      \/ /\ a \in Nat /\ a >= 0 /\ Occurs(FirstText, mem, a)
         /\ \A i \in Nat : i >= 0 /\ Occurs(FirstText, mem, i) => a <= i
  BY <1>2, FindLeast
<1>6. \/ b = -1 /\ \A i \in Nat : i >= 0 => ~Occurs(SecondText, mem, i)
      \/ /\ b \in Nat /\ b >= 0 /\ Occurs(SecondText, mem, b)
         /\ \A i \in Nat : i >= 0 /\ Occurs(SecondText, mem, i) => b <= i
  BY <1>2, FindLeast
<1>7. S # {} => Y \in S
  <2>1. S \in SUBSET Nat
    BY <1>2 DEF Straddling
  <2>. HIDE DEF S
  <2>2. S # {} => \E i \in S : \A j \in S : i <= j
    BY <2>1, LeastOfNat
  <2>. QED  BY <2>2
<1>8. \A i \in S : i \in 1 .. m - 1 /\ m - i <= fp
  BY DEF Straddling
<1>. HIDE DEF r, f, a, b, S, Y, fp, m
<1>9. CASE a >= 0
  <2>1. a \in Nat /\ Occurs(Pending, mem, a) /\ a + m <= fp
    BY <1>3, <1>5, <1>9
  <2>2. f \in Nat /\ f <= a /\ Occurs(Pending, mem, f)
    BY <1>4, <2>1
  <2>3. f + m <= fp
    BY <1>2, <2>1, <2>2
  <2>4. a <= f
    BY <1>3, <1>5, <2>1, <2>2, <2>3
  <2>5. r = f
    BY <1>1, <1>9, <2>1, <2>2, <2>4
  <2>. QED  BY <2>2, <2>5 DEF r, f, S, fp, m
<1>10. CASE a < 0
  <2>1. \A i \in Nat : Occurs(Pending, mem, i) => i + m > fp
    <3>1. \A i \in Nat : ~Occurs(FirstText, mem, i)
      BY <1>5, <1>10
    <3>. QED  BY <1>2, <1>3, <3>1
  <2>2. CASE S # {}
    <3>1. r = fp - m + Y
      BY <1>1, <1>10, <2>2
    <3>2. Y \in S /\ Y \in 1 .. m - 1 /\ m - Y <= fp
      BY <1>7, <1>8, <2>2
    <3>3. r \in Int /\ r >= -1
      BY <1>2, <3>1, <3>2
    <3>. QED  BY <2>1, <2>2, <3>1, <3>2, <3>3 DEF r, f, S, fp, m
  <2>3. CASE S = {}
    <3>1. r = IF b < 0 THEN -1 ELSE fp + b
      BY <1>1, <1>5, <1>10, <2>3
    <3>2. r \in Int /\ r >= -1
      BY <1>2, <1>6, <3>1
    <3>3. CASE f = -1
      <4>1. \A i \in Nat : i >= 0 => ~Occurs(Pending, mem, i)
        BY <1>4, <3>3
      <4>2. b = -1
        <5>1. ASSUME b \in Nat, Occurs(SecondText, mem, b) PROVE FALSE
          <6>1. Occurs(Pending, mem, fp + b)
            BY <1>3, <5>1
          <6>2. fp + b \in Nat /\ fp + b >= 0
            BY <1>2, <5>1
          <6>. QED  BY <4>1, <6>1, <6>2
        <5>. QED  BY <1>6, <5>1
      <4>3. r = f
        BY <3>1, <3>3, <4>2
      <4>. QED  BY <2>3, <3>2, <4>3 DEF r, f, S, fp, m
    <3>4. CASE f \in Nat /\ f < fp
      <4>1. fp < f + m
        BY <1>2, <1>4, <2>1, <3>4
      <4>. QED  BY <2>3, <3>2, <3>4, <4>1 DEF r, f, S, fp, m
    <3>5. CASE f \in Nat /\ f >= fp
      <4>1. f - fp \in Nat /\ fp + (f - fp) = f
        BY <1>2, <3>5
      <4>2. Occurs(SecondText, mem, f - fp)
        BY <1>3, <1>4, <3>5, <4>1
      <4>3. b \in Nat /\ b <= f - fp /\ Occurs(Pending, mem, fp + b)
        BY <1>3, <1>6, <4>1, <4>2
      <4>4. f <= fp + b
        BY <1>2, <1>4, <3>5, <4>3
      <4>5. r = f
        BY <1>2, <3>1, <3>5, <4>3, <4>4
      <4>. QED  BY <2>3, <3>2, <4>5 DEF r, f, S, fp, m
    <3>. QED  BY <1>4, <1>2, <3>3, <3>4, <3>5
  <2>. QED  BY <2>2, <2>3
<1>. QED  BY <1>5, <1>9, <1>10

\* One character cannot be taken for another: CR LF is found.
LEMMA CrLfExact ==
    ASSUME rb \in Rings
    PROVE  rb_read_until_mem(<<CR, LF>>) = Find(Pending, <<CR, LF>>, 0)
<1>. PICK mem : mem = <<CR, LF>>
  OBVIOUS
<1>. PICK text : text = Pending
  OBVIOUS
<1>. PICK fp : fp = FirstPiece
  OBVIOUS
<1>. DEFINE r == rb_read_until_mem(mem)
            f == Find(Pending, mem, 0)
            S == Straddling(mem)
<1>1. mem \in Seq(Alphabet) /\ Len(mem) = 2 /\ mem[1] = CR /\ mem[2] = LF
  BY DEF Alphabet, CR, LF
<1>2. /\ text \in Seq(Alphabet) /\ Len(text) \in Nat /\ fp \in 0 .. Len(text)
      /\ SecondPiece = Len(text) - fp
  BY PendingPieces
<1>3. \A i \in Nat : Occurs(text, mem, i) <=>
        i + 2 <= Len(text) /\ text[i + 1] = CR /\ text[i + 2] = LF
  <2>1. \A i \in Nat : i + Len(mem) = i + 2 /\ 1 .. Len(mem) = {1, 2}
    BY <1>1
  <2>. QED  BY <1>1, <2>1 DEF Occurs
<1>4. S = {} \/ S = {1}
  <2>1. S \subseteq 1 .. Len(mem) - 1 /\ 1 .. Len(mem) - 1 = {1}
    BY <1>1 DEF Straddling
  <2>. HIDE DEF S
  <2>. QED  BY <2>1
<1>5. 1 \in S <=> 1 <= fp /\ fp + 1 <= Len(text) /\ text[fp] = CR /\ text[fp + 1] = LF
  <2>. PICK m : m = Len(mem)
    OBVIOUS
  <2>1. 1 \in 1 .. m - 1 /\ m - 1 = 1 /\ 2 * 1 <= m
    BY <1>1
  <2>2. 1 \in S <=> /\ m - 1 <= fp /\ 1 <= SecondPiece /\ 2 * 1 <= m
                     /\ SameAt(text, fp - (m - 1), mem, 0, m - 1)
                     /\ SameAt(text, fp, mem, 1, 1)
    BY <1>1, <2>1, StraddlingPlace
  <2>3. 1 <= fp => (SameAt(text, fp - 1, mem, 0, 1) <=> text[fp] = CR)
    <3>1. fp \in Nat /\ 1 .. 1 = {1} /\ 0 + 1 = 1 /\ (fp - 1) + 1 = fp
      BY <1>2
    <3>. QED  BY <1>1, <3>1 DEF SameAt
  <2>4. SameAt(text, fp, mem, 1, 1) <=> text[fp + 1] = LF
    <3>1. 1 .. 1 = {1} /\ 1 + 1 = 2
      OBVIOUS
    <3>. QED  BY <1>1, <3>1 DEF SameAt
  <2>. QED  BY <1>2, <2>1, <2>2, <2>3, <2>4
<1>6. /\ S = {} => r = f \/ (f \in Nat /\ f < fp /\ fp < f + 2)
      /\ S # {} => \/ r = f
                   \/ /\ \A i \in Nat : Occurs(text, mem, i) => i + 2 > fp
                      /\ \E i \in S : r = fp - 2 + i
  <2>1. /\ S = {} => r = f \/ (f \in Nat /\ f < fp /\ fp < f + Len(mem))
        /\ S # {} => \/ r = f
                     \/ /\ \A i \in Nat : Occurs(text, mem, i) => i + Len(mem) > fp
                        /\ \E i \in S : r = fp - Len(mem) + i
    <3>1. mem \in Seq(Alphabet) /\ Len(mem) >= 1
      BY <1>1
    <3>. QED  BY <3>1, UntilMem
  <2>. HIDE DEF S, r, f
  <2>. QED  BY <1>1, <2>1
<1>7. \/ f = -1 /\ \A i \in Nat : i >= 0 => ~Occurs(text, mem, i)
      \/ /\ f \in Nat /\ f >= 0 /\ Occurs(text, mem, f)
         /\ \A i \in Nat : i >= 0 /\ Occurs(text, mem, i) => f <= i
  BY <1>1, <1>2, FindLeast
<1>. HIDE DEF r, f, S
<1>8. CASE S = {}
  <2>1. ASSUME f \in Nat, f < fp, fp < f + 2 PROVE FALSE
    <3>1. f \in Nat /\ f + 1 = fp /\ f + 2 = fp + 1
      BY <1>2, <1>7, <2>1
    <3>2. text[fp] = CR /\ text[fp + 1] = LF /\ fp + 1 <= Len(text) /\ 1 <= fp
      BY <1>3, <1>7, <3>1
    <3>. QED  BY <1>5, <1>8, <3>2
  <2>. QED  BY <1>6, <1>8, <2>1 DEF r, f
<1>9. CASE S = {1}
  <2>1. ASSUME \A i \in Nat : Occurs(text, mem, i) => i + 2 > fp, r = fp - 2 + 1
        PROVE  r = f
    <3>1. 1 <= fp /\ fp + 1 <= Len(text) /\ text[fp] = CR /\ text[fp + 1] = LF
      BY <1>5, <1>9
    <3>2. fp - 1 \in Nat /\ (fp - 1) + 1 = fp /\ (fp - 1) + 2 = fp + 1
      BY <1>2, <3>1
    <3>3. Occurs(text, mem, fp - 1)
      BY <1>3, <3>1, <3>2
    <3>4. f \in Nat /\ f <= fp - 1 /\ f + 2 > fp
      BY <1>7, <2>1, <3>2, <3>3
    <3>. QED  BY <1>2, <2>1, <3>2, <3>4
  <2>. QED  BY <1>6, <1>9, <2>1 DEF r, f
<1>. QED  BY <1>4, <1>8, <1>9

\* What would be taken for the end of a list at the end of the buffer goes on
\* wrongly behind its O or its K, as nothing in the buffer does.
LEMMA EndNotStraddling ==
    ASSUME rb \in Rings, tty \in Seq(Cell), OKsWhole(rb, tty)
    PROVE  Straddling(EndOfList) = {}
<1>. PICK mem : mem = EndOfList
  OBVIOUS
<1>. PICK text : text = Pending
  OBVIOUS
<1>. PICK fp : fp = FirstPiece
  OBVIOUS
<1>1. /\ mem \in Seq(Alphabet) /\ Len(mem) = 7 /\ mem[2] = CR /\ mem[3] = LF
      /\ mem[4] = "O" /\ mem[5] = "K" /\ mem[6] = CR
  BY DEF EndOfList, Alphabet, CR, LF
<1>2. /\ text \in Seq(Alphabet) /\ Len(text) \in Nat /\ fp \in 0 .. Len(text)
      /\ SecondPiece = Len(text) - fp
  BY PendingPieces
<1>3. \A j \in 1 .. Len(text) :
        /\ text[j] = "O" /\ j + 1 <= Len(text) => text[j + 1] = "K"
        /\ text[j] = "K" => /\ j + 1 <= Len(text) => text[j + 1] = CR
                            /\ j + 2 <= Len(text) => text[j + 2] = LF
  <2>. PICK u : u = rb.used
    OBVIOUS
  <2>1. u = Len(text) /\ Len(tty) \in Nat
    BY PendingPieces, LenProperties
  <2>2. \A j \in 1 .. u : Ahead(rb, tty, j) = text[j]
    BY PendingPieces DEF Ahead
  <2>3. \A j \in 1 .. u + Len(tty) :
          /\ Ahead(rb, tty, j) = "O" => Ahead(rb, tty, j + 1) = "K"
          /\ Ahead(rb, tty, j) = "K" => /\ Ahead(rb, tty, j + 1) = CR
                                        /\ Ahead(rb, tty, j + 2) = LF
    BY DEF OKsWhole
  <2>. SUFFICES ASSUME NEW j \in 1 .. Len(text)
                PROVE  /\ text[j] = "O" /\ j + 1 <= Len(text) => text[j + 1] = "K"
                       /\ text[j] = "K" => /\ j + 1 <= Len(text) => text[j + 1] = CR
                                           /\ j + 2 <= Len(text) => text[j + 2] = LF
    OBVIOUS
  <2>4. /\ j \in 1 .. u + Len(tty) /\ j \in 1 .. u
        /\ j + 1 <= Len(text) => j + 1 \in 1 .. u
        /\ j + 2 <= Len(text) => j + 2 \in 1 .. u
    BY <1>2, <2>1
  <2>. QED  BY <2>2, <2>3, <2>4
<1>4. SUFFICES ASSUME NEW i \in Straddling(mem) PROVE FALSE
  OBVIOUS
<1>5. i \in 1 .. Len(mem) - 1
  BY DEF Straddling
<1>6. /\ 7 - i <= fp /\ i <= Len(text) - fp /\ i \in {1, 2, 3}
      /\ \A k \in 1 .. 7 - i : text[fp - (7 - i) + k] = mem[0 + k]
      /\ \A k \in 1 .. i : text[fp + k] = mem[i + k]
  <2>1. /\ Len(mem) - i <= fp /\ i <= SecondPiece /\ 2 * i <= Len(mem)
        /\ SameAt(text, fp - (Len(mem) - i), mem, 0, Len(mem) - i)
        /\ SameAt(text, fp, mem, i, i)
    BY <1>1, <1>4, <1>5, StraddlingPlace
  <2>2. i \in {1, 2, 3} /\ 7 - i <= fp /\ i <= Len(text) - fp
    BY <1>1, <1>2, <1>5, <2>1
  <2>. QED  BY <1>1, <2>1, <2>2 DEF SameAt
<1>7. CASE i = 1
  <2>1. /\ fp - 1 \in 1 .. Len(text) /\ (fp - 1) + 2 = fp + 1 /\ fp + 1 <= Len(text)
        /\ fp - (7 - 1) + 5 = fp - 1 /\ 5 \in 1 .. 7 - 1 /\ 0 + 5 = 5
        /\ 1 \in 1 .. 1 /\ 1 + 1 = 2
    BY <1>2, <1>6, <1>7
  <2>2. text[fp - 1] = "K" /\ text[fp + 1] = CR
    BY <1>1, <1>6, <1>7, <2>1
  <2>. QED  BY <1>3, <2>1, <2>2 DEF CR, LF
<1>8. CASE i = 2
  <2>1. /\ fp \in 1 .. Len(text) /\ fp + 1 <= Len(text)
        /\ fp - (7 - 2) + 5 = fp /\ 5 \in 1 .. 7 - 2 /\ 0 + 5 = 5
        /\ 1 \in 1 .. 2 /\ 2 + 1 = 3
    BY <1>2, <1>6, <1>8
  <2>2. text[fp] = "K" /\ text[fp + 1] = LF
    BY <1>1, <1>6, <1>8, <2>1
  <2>. QED  BY <1>3, <2>1, <2>2 DEF CR, LF
<1>9. CASE i = 3
  <2>1. /\ fp \in 1 .. Len(text) /\ fp + 1 <= Len(text)
        /\ fp - (7 - 3) + 4 = fp /\ 4 \in 1 .. 7 - 3 /\ 0 + 4 = 4
        /\ 1 \in 1 .. 3 /\ 3 + 1 = 4
    BY <1>2, <1>6, <1>9
  <2>2. text[fp] = "O" /\ text[fp + 1] = "O"
    BY <1>1, <1>6, <1>9, <2>1
  <2>. QED  BY <1>3, <2>1, <2>2
<1>. QED  BY <1>6, <1>7, <1>8, <1>9

LEMMA SearchesExact ==
    ASSUME rb \in Rings, tty \in Seq(Cell), OKsWhole(rb, tty)
    PROVE  SearchExact
<1>1. rb_read_until_mem(<<CR, LF>>) = Find(Pending, <<CR, LF>>, 0)
  BY CrLfExact
<1>. DEFINE r == rb_read_until_mem(EndOfList)
            f == Find(Pending, EndOfList, 0)
<1>2. r = f \/ (f \in Nat /\ f < FirstPiece /\ FirstPiece < f + Len(EndOfList))
  <2>1. EndOfList \in Seq(Alphabet) /\ Len(EndOfList) >= 1
    BY DEF EndOfList, Alphabet, CR, LF
  <2>. QED  BY <2>1, EndNotStraddling, UntilMem
<1>3. FirstPiece \in Nat
  BY PendingPieces
<1>. HIDE DEF r, f
<1>4. r # f => f \in 0 .. FirstPiece - 1 /\ FirstPiece < f + Len(EndOfList)
  BY <1>2, <1>3
<1>. QED  BY <1>1, <1>4 DEF SearchExact, r, f

\* Where the end of a +CDS is looked for in memory it is a number too.
LEMMA AfterTyped ==
    ASSUME rb \in Rings, NEW n \in rb_read_until_char_after(CR, CdsOffset)
    PROVE  n \in Int
<1>. PICK fp : fp = FirstPiece
  OBVIOUS
<1>. PICK sp : sp = SecondPiece
  OBVIOUS
<1>. PICK a : a = Find(FirstText, <<CR>>, CdsOffset)
  OBVIOUS
<1>. PICK b : b = Find(SecondText, <<CR>>, CdsOffset)
  OBVIOUS
<1>1. <<CR>> \in Seq(Alphabet) /\ CdsOffset \in Nat
  BY DEF Alphabet, CdsOffset, CR
<1>2. a \in Int /\ b \in Int /\ fp \in Int
  <2>1. FirstText \in Seq(Alphabet) /\ SecondText \in Seq(Alphabet)
    BY PieceTexts
  <2>2. a \in Int
    <3>. PICK t : t = FirstText
      OBVIOUS
    <3>1. Find(t, <<CR>>, CdsOffset) \in Int
      BY <1>1, <2>1, FindTyped
    <3>. QED  BY <3>1
  <2>3. b \in Int
    <3>. PICK t : t = SecondText
      OBVIOUS
    <3>1. Find(t, <<CR>>, CdsOffset) \in Int
      BY <1>1, <2>1, FindTyped
    <3>. QED  BY <3>1
  <2>4. fp \in Int
    BY PendingPieces
  <2>. QED  BY <2>2, <2>3, <2>4
<1>3. \/ \E i \in 0 .. Size : n = 0 + CdsOffset + i
      \/ n = -1
      \/ \E i \in 0 .. Size : n = fp + CdsOffset + i
      \/ n = fp + b
      \/ n = a
  <2>. DEFINE Astray(c) == {c + CdsOffset + i : i \in 0 .. Size}
              InSecond == IF sp = 0 THEN {-1}
                          ELSE IF sp < CdsOffset THEN {-1} \union Astray(fp)
                          ELSE {IF b < 0 THEN -1 ELSE fp + b}
  <2>1. n \in IF fp < CdsOffset THEN Astray(0) \union InSecond
             ELSE IF a >= 0 THEN {a} ELSE InSecond
    BY DEF rb_read_until_char_after, FirstText, SecondText
  <2>2. n \in Astray(0) \/ n \in InSecond \/ n = a
    <3>. HIDE DEF Astray, InSecond
    <3>. QED  BY <2>1
  <2>3. n \in InSecond => n = -1 \/ n \in Astray(fp) \/ n = fp + b
    <3>. HIDE DEF Astray
    <3>. QED  OBVIOUS
  <2>. HIDE DEF InSecond
  <2>. QED  BY <2>2, <2>3
<1>. QED  BY <1>1, <1>2, <1>3

-----------------------------------------------------------------------------
(* The invariant                                                           *)

LEMMA IInvFromParts ==
    ASSUME said' \in Seq(Kinds), rb' \in Rings, RingAgrees(rb'), tty' \in Seq(Cell),
           OKsWhole(rb', tty'), read_result' \in {0, 1}, cutting' \in BOOLEAN
    PROVE  IInv'
BY DEF IInv, TypeOK, Rings, RingAgrees

LEMMA IInvParts ==
    ASSUME IInv
    PROVE  /\ said \in Seq(Kinds) /\ rb \in Rings /\ RingAgrees(rb) /\ tty \in Seq(Cell)
           /\ OKsWhole(rb, tty) /\ read_result \in {0, 1} /\ cutting \in BOOLEAN
BY DEF IInv, TypeOK, RingAgrees

LEMMA EmptyRing ==
    LET b == rb_init([p \in Positions |-> Blank])
    IN  b \in Rings /\ RingAgrees(b) /\ OKsWhole(b, <<>>)
<1>. DEFINE b == rb_init([p \in Positions |-> Blank])
<1>1. Blank \in Cell
  BY DEF Blank, Cell, Alphabet
<1>2. b = [buffer |-> [p \in Positions |-> Blank], used |-> 0, read |-> 0, write |-> 0]
  BY DEF rb_init
<1>3. b \in Rings /\ RingAgrees(b)
  BY <1>1, <1>2, SizeAssumption DEF Rings, RingAgrees, Positions
<1>4. b.used = 0
  BY <1>2
<1>. HIDE DEF b
<1>5. OKsWhole(b, <<>>)
  <2>1. 1 .. b.used + Len(<<>>) = {}
    BY <1>4
  <2>. QED  BY <2>1 DEF OKsWhole
<1>. QED  BY <1>3, <1>5 DEF b

\* Whatever number of characters the reader is done with.
LEMMA ConsumedKeeps ==
    ASSUME IInv, NEW n \in Nat, rb' = Consumed(n), UNCHANGED <<said, tty, cutting>>,
           read_result' \in {0, 1}
    PROVE  IInv'
<1>1. Consumed(n) \in Rings /\ RingAgrees(Consumed(n)) /\ OKsWhole(Consumed(n), tty)
  BY IInvParts, Consumes, AheadConsumed
<1>2. rb' \in Rings /\ RingAgrees(rb') /\ OKsWhole(rb', tty')
  BY <1>1
<1>. QED  BY <1>2, IInvParts, IInvFromParts

LEMMA WaitKeeps ==
    ASSUME IInv, NEW state \in {0, 1}, Wait(state)
    PROVE  IInv'
BY DEF Wait, IInv, TypeOK

LEMMA InitOK == Init => IInv
<1>. SUFFICES ASSUME Init PROVE IInv
  OBVIOUS
<1>1. rb \in Rings /\ RingAgrees(rb) /\ OKsWhole(rb, tty) /\ tty \in Seq(Cell)
  BY EmptyRing DEF Init
<1>2. said \in Seq(Kinds)
  <2>1. said = <<>>
    BY DEF Init
  <2>. QED  BY <2>1
<1>3. read_result \in {0, 1} /\ cutting \in BOOLEAN
  BY DEF Init
<1>. QED  BY <1>1, <1>2, <1>3 DEF IInv, TypeOK, RingAgrees, Rings

LEMMA ReceiveOK ==
    ASSUME IInv, NEW n \in 1 .. Size, at_read(n)
    PROVE  IInv'
<1>. DEFINE data == SubSeq(tty, 1, n)
            rest == SubSeq(tty, n + 1, Len(tty))
<1>1. /\ rb \in Rings /\ RingAgrees(rb) /\ tty \in Seq(Cell) /\ OKsWhole(rb, tty)
      /\ said \in Seq(Kinds) /\ read_result \in {0, 1}
  BY IInvParts
<1>2. n \in 1 .. Len(tty) /\ n <= Size - rb.used
  <2>1. rb.used \in 0 .. Size /\ Len(tty) \in Nat /\ n \in 1 .. Least(Len(tty), rb_free(rb))
    BY <1>1 DEF Rings, at_read
  <2>. QED  BY <2>1, SizeAssumption DEF Least, rb_free
<1>3. /\ data \in Seq(Cell) /\ rest \in Seq(Cell) /\ Len(data) = n
      /\ OKsWhole(Received(rb, data), rest)
  BY <1>1, <1>2, AheadReceived
<1>4. /\ rb' = rb_write_upd(Filled(rb, data), n) /\ tty' = rest
      /\ said' = said /\ read_result' = read_result /\ cutting' = TRUE
  BY DEF at_read
<1>. HIDE DEF data, rest
<1>5. Received(rb, data) \in Rings /\ RingAgrees(Received(rb, data))
  BY <1>1, <1>2, <1>3, Receives
<1>6. rb' = Received(rb, data)
  BY <1>3, <1>4 DEF Received
<1>7. rb' \in Rings /\ RingAgrees(rb') /\ OKsWhole(rb', tty') /\ tty' \in Seq(Cell)
  BY <1>3, <1>4, <1>5, <1>6
<1>. QED  BY <1>1, <1>4, <1>7, IInvFromParts

LEMMA SaysOK ==
    ASSUME IInv, NEW k \in Kinds, ModemSays(k)
    PROVE  IInv'
<1>. DEFINE w == Wrapped(k)
            d == [i \in DOMAIN w |-> <<w[i], Len(said')>>]
<1>1. /\ rb \in Rings /\ RingAgrees(rb) /\ tty \in Seq(Cell) /\ OKsWhole(rb, tty)
      /\ said \in Seq(Kinds) /\ read_result \in {0, 1} /\ cutting \in BOOLEAN
  BY IInvParts
<1>2. w \in Seq(Alphabet) /\ TextWhole(w)
  BY WrappedWhole
<1>3. /\ said' = Append(said, k) /\ tty' = tty \o d
      /\ UNCHANGED <<rb, read_result, cutting>>
  BY DEF ModemSays
<1>4. said' \in Seq(Kinds) /\ Len(said') \in Nat
  BY <1>1, <1>3
<1>. HIDE DEF w
<1>5. d \in Seq(Cell) /\ Len(d) = Len(w) /\ \A j \in 1 .. Len(w) : d[j][1] = w[j]
  <2>1. DOMAIN w = 1 .. Len(w) /\ Len(w) \in Nat /\ \A j \in 1 .. Len(w) : w[j] \in Alphabet
    BY <1>2
  <2>. PICK l : l = Len(said')
    OBVIOUS
  <2>2. \A j \in 1 .. Len(w) : d[j] = <<w[j], l>> /\ d[j] \in Cell
    BY <1>4, <2>1 DEF Cell
  <2>. QED  BY <2>1, <2>2
<1>. HIDE DEF d
<1>6. tty \o d \in Seq(Cell) /\ OKsWhole(rb, tty \o d)
  <2>1. rb.used \in Nat
    BY <1>1, SizeAssumption DEF Rings
  <2>. QED  BY <1>1, <1>2, <1>5, <2>1, AheadSaid
<1>7. /\ rb' \in Rings /\ RingAgrees(rb') /\ OKsWhole(rb', tty') /\ tty' \in Seq(Cell)
      /\ read_result' \in {0, 1} /\ cutting' \in BOOLEAN
  BY <1>1, <1>3, <1>6
<1>. QED  BY <1>4, <1>7, IInvFromParts

LEMMA RestartOK == IInv /\ Restart => IInv'
<1>. SUFFICES ASSUME IInv, Restart PROVE IInv'
  OBVIOUS
<1>1. /\ rb' = rb_init([p \in Positions |-> Blank]) /\ tty' = <<>> /\ read_result' = 0
      /\ said' = said /\ cutting' = cutting
  BY DEF Restart
<1>2. rb' \in Rings /\ RingAgrees(rb') /\ OKsWhole(rb', tty') /\ tty' \in Seq(Cell)
  BY <1>1, EmptyRing
<1>. QED  BY <1>1, <1>2, IInvParts, IInvFromParts

LEMMA CutsOK == IInv /\ at_read_result_iov => IInv'
<1>. SUFFICES ASSUME IInv, at_read_result_iov PROVE IInv'
  OBVIOUS
<1>1. /\ rb \in Rings /\ rb.used \in Nat /\ read_result \in {0, 1}
  BY IInvParts, SizeAssumption DEF Rings
<1>2. ASSUME NEW n \in Nat, NEW state \in {0, 1}, Drop(n, state) PROVE IInv'
  BY <1>2, ConsumedKeeps DEF Drop
<1>3. ASSUME NEW n \in Nat, NEW behind \in Nat, Deliver(n, behind) PROVE IInv'
  <2>1. n + behind \in Nat
    OBVIOUS
  <2>. QED  BY <1>3, <2>1, ConsumedKeeps DEF Deliver
<1>4. CASE Nothing
  BY <1>1, <1>4, WaitKeeps DEF Nothing
<1>5. CASE Opening
  <2>1. CASE Drop(2, 1)
    BY <1>2, <2>1
  <2>2. CASE Wait(0)
    BY <2>2, WaitKeeps
  <2>3. CASE LET n == IF Starts(<<LF>>) THEN 0 ELSE rb_read_until_char(CR)
             IN  Drop(IF n < 0 THEN rb.used ELSE n + 1, 0)
    <3>1. rb_read_until_char(CR) \in Int
      <4>1. <<CR>> \in Seq(Alphabet)
        BY DEF Alphabet, CR
      <4>2. Pending \in Seq(Alphabet)
        BY <1>1, PendingPieces
      <4>. QED  BY <4>1, <4>2, FindTyped DEF rb_read_until_char
    <3>. DEFINE n == IF Starts(<<LF>>) THEN 0 ELSE rb_read_until_char(CR)
                k == IF n < 0 THEN rb.used ELSE n + 1
    <3>2. k \in Nat
      BY <1>1, <3>1
    <3>3. Drop(k, 0)
      BY <2>3
    <3>. HIDE DEF k
    <3>. QED  BY <1>2, <3>2, <3>3
  <2>. QED  BY <1>5, <2>1, <2>2, <2>3 DEF Opening
<1>6. CASE Cssi
  <2>1. Deliver(2, 0) \/ Wait(1)
    BY <1>6 DEF Cssi
  <2>. QED  BY <1>3, <2>1, WaitKeeps
<1>7. CASE SecondOpening
  BY <1>2, <1>7 DEF SecondOpening
<1>8. CASE Prompt
  BY <1>3, <1>8 DEF Prompt
<1>9. CASE List
  <2>. DEFINE n == rb_read_until_mem(EndOfList)
              behind == IF Starts(<<"+CMGR:">>) THEN Len(EndOfList) ELSE 1
  <2>1. n \in Int
    <3>1. EndOfList \in Seq(Alphabet) /\ Len(EndOfList) >= 1
      BY DEF EndOfList, Alphabet, CR, LF
    <3>. QED  BY <1>1, <3>1, UntilMem
  <2>2. behind \in Nat
    BY DEF EndOfList
  <2>3. (n >= 0 /\ Deliver(n, behind)) \/ Wait(1)
    BY <1>9 DEF List
  <2>. HIDE DEF n, behind
  <2>. QED  BY <1>3, <2>1, <2>2, <2>3, WaitKeeps
<1>10. CASE Cds
  <2>1. PICK n \in rb_read_until_char_after(CR, CdsOffset) :
                IF n >= 0 THEN Deliver(n, 1) ELSE Wait(0)
    BY <1>10 DEF Cds
  <2>2. n \in Int
    BY <1>1, AfterTyped
  <2>. QED  BY <1>3, <2>1, <2>2, WaitKeeps
<1>11. CASE Line
  <2>. DEFINE n == rb_read_until_mem(<<CR, LF>>)
  <2>1. n \in Int
    <3>1. <<CR, LF>> \in Seq(Alphabet) /\ Len(<<CR, LF>>) >= 1
      BY DEF Alphabet, CR, LF
    <3>. QED  BY <1>1, <3>1, UntilMem
  <2>2. (n >= 0 /\ Deliver(n + 1, 1)) \/ Wait(1)
    BY <1>11 DEF Line
  <2>. HIDE DEF n
  <2>3. n >= 0 => n + 1 \in Nat
    BY <2>1
  <2>. QED  BY <1>3, <2>2, <2>3, WaitKeeps
<1>. QED
  BY <1>4, <1>5, <1>6, <1>7, <1>8, <1>9, <1>10, <1>11 DEF at_read_result_iov

LEMMA NextOK == IInv /\ [Next]_vars => IInv'
<1>. SUFFICES ASSUME IInv, [Next]_vars PROVE IInv'
  OBVIOUS
<1>1. CASE \E k \in Kinds : ModemSays(k)
  BY <1>1, SaysOK
<1>2. CASE \E n \in 1 .. Size : at_read(n)
  BY <1>2, ReceiveOK
<1>3. CASE Restart
  BY <1>3, RestartOK
<1>4. CASE at_read_result_iov
  BY <1>4, CutsOK
<1>5. CASE UNCHANGED vars
  BY <1>5 DEF vars, IInv, TypeOK
<1>. QED  BY <1>1, <1>2, <1>3, <1>4, <1>5 DEF Next

\* The invariant the two theorems are read off: however the tty is read and cut
\* into results, an "OK" in the buffer or on its way is whole and ends its line.
THEOREM ReaderKept == Spec => []IInv
<1>. QED  BY InitOK, NextOK, PTL DEF Spec

\* Whatever the modem sends and wherever the pieces of it end, the positions
\* of the buffer of do_monitor_phone agree with the number of characters in it
\* (at_read, rb_write_upd, rb_read_upd).
THEOREM ReaderTyped == Spec => []TypeOK
<1>1. IInv => TypeOK
  BY DEF IInv
<1>. QED  BY <1>1, ReaderKept, PTL

\* rb_read_until_mem_iov finds the first CR LF there is, and the first end of a
\* list unless it lies across the end of the buffer; it finds none that is not
\* there, although across the end of the buffer it compares only parts of it.
THEOREM SearchAlwaysExact == Spec => []SearchExact
<1>1. IInv => SearchExact
  BY IInvParts, SearchesExact
<1>. QED  BY <1>1, ReaderKept, PTL
=============================================================================
