--------------------------- MODULE MixBuffer_proofs ---------------------------
(***************************************************************************)
(* The positions of the mixer's buffer and of its streams agree, and the   *)
(* mixer implements Mixer, for buffers and frames of any length and any    *)
(* number of streams.                                                      *)
(***************************************************************************)
EXTENDS MixBuffer, SequenceTheorems, TLAPS

\* The ring buffers and streams of TypeOK.
Rings == [buffer : [Positions -> Sample], used : 0 .. Size, read : Positions,
          write : Positions]
Places == [used : 0 .. Size, write : Positions]

\* The two halves of PositionsAgree, of any buffer and any stream in it.
RingAgrees(b) == b.write = Wrap(b.read + b.used)
PlaceAgrees(b, st) == st.used <= b.used /\ st.write = Wrap(b.read + st.used)

-----------------------------------------------------------------------------
(* The ring buffer                                                         *)

LEMMA Samples ==
    /\ Sample \subseteq Int
    /\ 0 \in Sample
    /\ \A a, b \in Sample : /\ saturated_add(a, b) \in Sample
                            /\ saturated_add(a, b) = TheMixer!Sum(a, b)
<1>1. MaxSample \in Nat
  BY MixerAssumption
<1>. QED
  BY <1>1 DEF Sample, saturated_add, TheMixer!Sum, TheMixer!Greater, TheMixer!Lesser

\* Cells at the same distance from the reading position stay where they are
\* when it moves.
LEMMA WrapTwice ==
    ASSUME NEW r \in Positions, NEW n \in 0 .. Size, NEW k \in 0 .. Size, n + k <= Size
    PROVE  /\ Wrap(r + n) \in Positions
           /\ Wrap(Wrap(r + n) + k) = Wrap(r + (n + k))
BY SizeAssumption DEF Positions, Wrap

LEMMA WrapAt ==
    ASSUME NEW r \in Positions, NEW k \in 1 .. Size
    PROVE  Wrap(r + k - 1) \in Positions
BY SizeAssumption DEF Positions, Wrap

\* The distance of the cell of the j-th unread sample from the writing position.
LEMMA WrapDistance ==
    ASSUME NEW r \in Positions, NEW u \in 0 .. Size, NEW j \in 1 .. Size
    PROVE  LET p == Wrap(r + j - 1)
               w == Wrap(r + u)
           IN  (IF p >= w THEN p - w ELSE p + Size - w)
                 = IF u < j THEN j - 1 - u ELSE j - 1 - u + Size
<1>1. CASE r + u < Size /\ r + j - 1 < Size
  BY <1>1, SizeAssumption DEF Positions, Wrap
<1>2. CASE r + u < Size /\ ~(r + j - 1 < Size)
  BY <1>2, SizeAssumption DEF Positions, Wrap
<1>3. CASE ~(r + u < Size) /\ r + j - 1 < Size
  BY <1>3, SizeAssumption DEF Positions, Wrap
<1>4. CASE ~(r + u < Size) /\ ~(r + j - 1 < Size)
  BY <1>4, SizeAssumption DEF Positions, Wrap
<1>. QED
  BY <1>1, <1>2, <1>3, <1>4

LEMMA ReadUpd ==
    ASSUME NEW b \in Rings, RingAgrees(b), NEW len \in Nat
    PROVE  /\ rb_read_upd(b, len) \in Rings
           /\ RingAgrees(rb_read_upd(b, len))
           /\ rb_read_upd(b, len).used = b.used - Least(len, b.used)
           /\ \A j \in 1 .. rb_read_upd(b, len).used :
                 Unread(rb_read_upd(b, len), j) = Unread(b, Least(len, b.used) + j)
<1>. DEFINE c == rb_read_upd(b, len)
            n == Least(len, b.used)
<1>1. n \in 0 .. b.used /\ b.used \in 0 .. Size /\ b.read \in Positions
  BY DEF Least, Rings
<1>2. CASE n = 0
  <2>1. c = b
    BY <1>2 DEF rb_read_upd
  <2>. HIDE DEF c
  <2>. HIDE DEF n
  <2>2. \A j \in 1 .. b.used : n + j = j
    BY <1>2, <1>1
  <2>. QED  BY <2>1, <2>2, <1>2, <1>1 DEF c, n
<1>3. CASE n # 0 /\ n = b.used
  <2>1. c = [buffer |-> b.buffer, used |-> 0, read |-> 0, write |-> 0]
    BY <1>3 DEF rb_read_upd, rb_init
  <2>. HIDE DEF c
  <2>2. c \in Rings /\ RingAgrees(c)
    BY <2>1, SizeAssumption DEF Rings, RingAgrees, Positions, Wrap
  <2>. QED  BY <2>1, <2>2, <1>1, <1>3 DEF c
<1>4. CASE n # 0 /\ n # b.used
  <2>1. c = [[b EXCEPT !.used = b.used - n] EXCEPT !.read = Wrap(b.read + n)]
    BY <1>4 DEF rb_read_upd
  <2>. HIDE DEF c, n
  <2>2. Wrap(b.read + n) \in Positions /\ b.used - n \in 0 .. Size
    BY <1>1, WrapTwice, SizeAssumption
  <2>3. /\ c \in Rings /\ c.used = b.used - n /\ c.read = Wrap(b.read + n)
        /\ c.buffer = b.buffer /\ c.write = b.write
    BY <2>1, <2>2 DEF Rings
  <2>4. RingAgrees(c)
    <3>1. Wrap(c.read + c.used) = Wrap(b.read + (n + (b.used - n)))
      BY <2>3, <1>1, WrapTwice, SizeAssumption
    <3>. QED  BY <3>1, <2>3, <1>1 DEF RingAgrees
  <2>5. ASSUME NEW j \in 1 .. c.used
        PROVE  Unread(c, j) = Unread(b, n + j)
    <3>1. j - 1 \in 0 .. Size /\ n + (j - 1) <= Size /\ n \in 0 .. Size
      BY <2>3, <1>1, SizeAssumption
    <3>2. Wrap(c.read + (j - 1)) = Wrap(b.read + (n + (j - 1)))
      BY <3>1, <2>3, <1>1, WrapTwice
    <3>3. b.read \in Int /\ c.read \in Int /\ j \in Int /\ n \in Int
      BY <2>3, <1>1, SizeAssumption, <2>2 DEF Positions
    <3>4. c.read + j - 1 = c.read + (j - 1) /\ b.read + (n + j) - 1 = b.read + (n + (j - 1))
      BY <3>3
    <3>. QED  BY <3>2, <3>4, <2>3 DEF Unread
  <2>. QED  BY <2>3, <2>4, <2>5 DEF c, n
<1>. QED
  BY <1>2, <1>3, <1>4

\* What remains of a stream's lead when len samples were read.
LEMMA AdvancedAgrees ==
    ASSUME NEW b \in Rings, RingAgrees(b), NEW len \in Nat,
           NEW st \in Places, PlaceAgrees(b, st),
           NEW c \in Rings, c.used = b.used - Least(len, b.used)
    PROVE  /\ Advanced(st, len, c.read) \in Places
           /\ PlaceAgrees(c, Advanced(st, len, c.read))
           /\ Advanced(st, len, c.read).used = TheMixer!Nearer(st.used, len)
<1>. DEFINE s == Advanced(st, len, c.read)
<1>1. /\ b.used \in 0 .. Size /\ st.used \in 0 .. b.used /\ c.used \in 0 .. Size
      /\ c.read \in Positions
      /\ c.used = IF len < b.used THEN b.used - len ELSE 0
  BY DEF Least, Rings, Places, PlaceAgrees
<1>2. s = [used |-> s.used, write |-> s.write] /\ s.write = Wrap(c.read + s.used)
  BY DEF Advanced
<1>3. /\ s.used = TheMixer!Nearer(st.used, len)
      /\ s.used \in 0 .. c.used
  BY <1>1 DEF Advanced, TheMixer!Nearer, TheMixer!Greater
<1>. HIDE DEF s
<1>4. s.write \in Positions
  BY <1>1, <1>2, <1>3, SizeAssumption DEF Wrap, Positions
<1>5. s \in Places /\ PlaceAgrees(c, s)
  BY <1>1, <1>2, <1>3, <1>4, SizeAssumption DEF Places, PlaceAgrees
<1>. QED
  BY <1>3, <1>5 DEF s

LEMMA CoreWrite ==
    ASSUME NEW b \in Rings, RingAgrees(b), NEW data \in Seq(Sample)
    PROVE  LET w == rb_write_core(b, data)
               n == Least(Len(data), rb_free(b))
           IN  /\ w \in Rings
               /\ RingAgrees(w)
               /\ w.used = b.used + n
               /\ w.read = b.read
               /\ \A j \in 1 .. Size :
                     Unread(w, j) = IF b.used < j /\ j <= b.used + n THEN data[j - b.used]
                                                                    ELSE Unread(b, j)
<1>. DEFINE n == Least(Len(data), rb_free(b))
            s == b.write + n
            W == IF s >= Size THEN s - Size ELSE s
            i(p) == IF p >= b.write THEN p - b.write ELSE p + Size - b.write
            B == [p \in Positions |-> IF i(p) < n THEN data[i(p) + 1] ELSE b.buffer[p]]
            w == rb_write_core(b, data)
<1>1. w = [[[b EXCEPT !.buffer = B] EXCEPT !.write = W] EXCEPT !.used = b.used + n]
  BY DEF rb_write_core
<1>2. /\ b.used \in 0 .. Size /\ b.read \in Positions /\ b.write = Wrap(b.read + b.used)
      /\ b.buffer \in [Positions -> Sample] /\ b.write \in Positions
  BY DEF Rings, RingAgrees
<1>3. n \in 0 .. Size - b.used /\ n <= Len(data) /\ n \in Nat
  BY <1>2, LenProperties, SizeAssumption DEF Least, rb_free
<1>. HIDE DEF n
<1>4. W \in Positions /\ W = Wrap(b.read + (b.used + n))
  <2>1. b.used + n <= Size /\ b.used \in 0 .. Size /\ n \in 0 .. Size
    BY <1>2, <1>3, SizeAssumption
  <2>2. W = Wrap(b.write + n)
    BY DEF Wrap
  <2>3. W = Wrap(b.read + (b.used + n))
    BY <2>1, <2>2, <1>2, WrapTwice
  <2>4. b.used + n \in 0 .. Size
    BY <2>1, SizeAssumption
  <2>. QED  BY <2>3, <2>4, <1>2, WrapTwice, SizeAssumption
<1>5. \A p \in Positions : i(p) \in 0 .. Size - 1
  BY <1>2, SizeAssumption DEF Positions
<1>6. B \in [Positions -> Sample]
  <2>1. \A p \in Positions : i(p) < n => i(p) + 1 \in 1 .. Len(data)
    BY <1>5, <1>3, LenProperties, SizeAssumption
  <2>2. \A k \in 1 .. Len(data) : data[k] \in Sample
    BY ElementOfSeq
  <2>3. ASSUME NEW p \in Positions
        PROVE  (IF i(p) < n THEN data[i(p) + 1] ELSE b.buffer[p]) \in Sample
    BY <2>1, <2>2, <1>2
  <2>. QED  BY <2>3
<1>7. \A p \in Positions : B[p] = IF i(p) < n THEN data[i(p) + 1] ELSE b.buffer[p]
  OBVIOUS
<1>. HIDE DEF B, W, w
<1>8. b.used + n \in 0 .. Size
  BY <1>2, <1>3, SizeAssumption
<1>9. /\ w \in Rings /\ w.used = b.used + n /\ w.read = b.read /\ w.buffer = B /\ w.write = W
  BY <1>1, <1>2, <1>4, <1>6, <1>8 DEF Rings
<1>10. RingAgrees(w)
  BY <1>9, <1>4 DEF RingAgrees
<1>11. ASSUME NEW j \in 1 .. Size
       PROVE  Unread(w, j) = IF b.used < j /\ j <= b.used + n THEN data[j - b.used]
                                                              ELSE Unread(b, j)
  <2>. DEFINE p == Wrap(b.read + j - 1)
  <2>1. p \in Positions
    BY <1>2, SizeAssumption DEF Positions, Wrap
  <2>2. i(p) = IF b.used < j THEN j - 1 - b.used ELSE j - 1 - b.used + Size
    BY <1>2, WrapDistance
  <2>3. b.used < j => (i(p) < n <=> j <= b.used + n) /\ i(p) + 1 = j - b.used
    BY <2>2, <1>2, <1>3, SizeAssumption
  <2>4. ~(b.used < j) => ~(i(p) < n)
    BY <2>2, <1>2, <1>3, SizeAssumption
  <2>5. Unread(w, j) = B[p] /\ Unread(b, j) = b.buffer[p]
    BY <1>9 DEF Unread
  <2>. HIDE DEF p, i
  <2>. QED  BY <2>1, <2>3, <2>4, <2>5, <1>7
<1>. QED
  BY <1>9, <1>10, <1>11 DEF n, w

-----------------------------------------------------------------------------
(* The mixer                                                               *)

LEMMA MixWrite ==
    ASSUME NEW b \in Rings, NEW st \in Places, PlaceAgrees(b, st),
           NEW data \in Seq(Sample), Len(data) <= Size - st.used
    PROVE  LET m == mixb_mix_write(b, st, data)
           IN  /\ m.rb \in Rings
               /\ m.rb.used = b.used /\ m.rb.read = b.read /\ m.rb.write = b.write
               /\ m.stream \in Places
               /\ m.stream.used = st.used + Len(data)
               /\ m.stream.write = Wrap(b.read + m.stream.used)
               /\ \A j \in 1 .. Size :
                     Unread(m.rb, j) =
                        IF st.used < j /\ j <= st.used + Len(data)
                        THEN saturated_add(Unread(b, j), data[j - st.used])
                        ELSE Unread(b, j)
<1>. DEFINE from == [b EXCEPT !.used = st.used, !.write = st.write]
            sum == saturated_sum(from, data)
            local == rb_write_core(from, sum)
            m == mixb_mix_write(b, st, data)
<1>1. /\ b.used \in 0 .. Size /\ b.read \in Positions /\ b.buffer \in [Positions -> Sample]
      /\ b.write \in Positions
      /\ st.used \in 0 .. Size /\ st.write \in Positions /\ st.write = Wrap(b.read + st.used)
  BY DEF Rings, Places, PlaceAgrees
<1>2. from = [[b EXCEPT !.used = st.used] EXCEPT !.write = st.write]
  OBVIOUS
<1>3. m = [rb |-> [b EXCEPT !.buffer = local.buffer],
           stream |-> [used |-> local.used, write |-> local.write]]
  BY DEF mixb_mix_write
<1>4. \A i \in DOMAIN data :
         sum[i] = saturated_add(from.buffer[Wrap(from.write + i - 1)], data[i])
  BY DEF saturated_sum
<1>5. sum = [i \in 1 .. Len(data) |-> sum[i]]
  BY LenProperties DEF saturated_sum
<1>. HIDE DEF from
<1>6. /\ from \in Rings /\ from.used = st.used /\ from.write = st.write
      /\ from.buffer = b.buffer /\ from.read = b.read
  BY <1>1, <1>2 DEF Rings
<1>7. RingAgrees(from)
  BY <1>1, <1>6 DEF RingAgrees
<1>. HIDE DEF sum
<1>8. \A i \in 1 .. Len(data) :
         sum[i] = saturated_add(b.buffer[Wrap(b.read + (st.used + i) - 1)], data[i])
  <2>1. ASSUME NEW i \in 1 .. Len(data)
        PROVE  Wrap(st.write + i - 1) = Wrap(b.read + (st.used + i) - 1)
    <3>1. i - 1 \in 0 .. Size /\ st.used + (i - 1) <= Size /\ i \in Int
      BY <1>1, LenProperties, SizeAssumption
    <3>2. Wrap(st.write + (i - 1)) = Wrap(b.read + (st.used + (i - 1)))
      BY <3>1, <1>1, WrapTwice
    <3>3. /\ st.write + i - 1 = st.write + (i - 1)
          /\ b.read + (st.used + i) - 1 = b.read + (st.used + (i - 1))
      BY <3>1, <1>1, SizeAssumption DEF Positions
    <3>. QED  BY <3>2, <3>3
  <2>2. DOMAIN data = 1 .. Len(data)
    BY LenProperties
  <2>. QED  BY <2>1, <2>2, <1>4, <1>6
<1>9. sum \in Seq(Sample) /\ Len(sum) = Len(data)
  <2>1. ASSUME NEW i \in 1 .. Len(data)
        PROVE  sum[i] \in Sample
    <3>1. st.used + i \in 1 .. Size
      BY <1>1, LenProperties, SizeAssumption
    <3>2. Wrap(b.read + (st.used + i) - 1) \in Positions
      BY <3>1, <1>1, WrapAt
    <3>3. b.buffer[Wrap(b.read + (st.used + i) - 1)] \in Sample
      BY <3>2, <1>1
    <3>4. data[i] \in Sample
      BY ElementOfSeq
    <3>. QED  BY <3>3, <3>4, <1>8, Samples
  <2>2. sum \in [1 .. Len(data) -> Sample] /\ Len(data) \in Nat
    BY <1>5, <2>1, LenProperties
  <2>. QED  BY <2>2, SeqDef, LenProperties
<1>. HIDE DEF local, m
<1>10. /\ local \in Rings /\ RingAgrees(local)
       /\ local.used = st.used + Len(data)
       /\ local.read = b.read
       /\ \A j \in 1 .. Size :
             Unread(local, j) = IF st.used < j /\ j <= st.used + Len(data)
                                THEN sum[j - st.used] ELSE Unread(from, j)
  <2>1. Least(Len(sum), rb_free(from)) = Len(data)
    BY <1>1, <1>6, <1>9, LenProperties, SizeAssumption DEF Least, rb_free
  <2>. QED  BY <2>1, <1>6, <1>7, <1>9, CoreWrite DEF local
<1>11. /\ m.rb \in Rings
       /\ m.rb.used = b.used /\ m.rb.read = b.read /\ m.rb.write = b.write
       /\ m.rb.buffer = local.buffer
       /\ m.stream = [used |-> local.used, write |-> local.write]
  BY <1>3, <1>10 DEF Rings
<1>12. m.stream \in Places /\ m.stream.used = st.used + Len(data)
       /\ m.stream.write = Wrap(b.read + m.stream.used)
  BY <1>10, <1>11 DEF Rings, Places, RingAgrees
<1>13. ASSUME NEW j \in 1 .. Size
       PROVE  Unread(m.rb, j) = IF st.used < j /\ j <= st.used + Len(data)
                                THEN saturated_add(Unread(b, j), data[j - st.used])
                                ELSE Unread(b, j)
  <2>1. Unread(m.rb, j) = Unread(local, j) /\ Unread(from, j) = Unread(b, j)
    BY <1>6, <1>10, <1>11 DEF Unread
  <2>2. CASE st.used < j /\ j <= st.used + Len(data)
    <3>1. j - st.used \in 1 .. Len(data) /\ st.used + (j - st.used) = j
      BY <2>2, <1>1, LenProperties, SizeAssumption
    <3>2. sum[j - st.used] = saturated_add(b.buffer[Wrap(b.read + j - 1)], data[j - st.used])
      BY <3>1, <1>8
    <3>. QED  BY <2>1, <2>2, <3>2, <1>10 DEF Unread
  <2>3. CASE ~(st.used < j /\ j <= st.used + Len(data))
    BY <2>1, <2>3, <1>10
  <2>. QED  BY <2>2, <2>3
<1>. QED
  BY <1>11, <1>12, <1>13 DEF m

LEMMA Pieces ==
    ASSUME NEW data \in Seq(Sample), NEW m \in Nat, NEW n \in 0 .. Len(data)
    PROVE  /\ SubSeq(data, 1, Least(n, m)) \in Seq(Sample)
           /\ Len(SubSeq(data, 1, Least(n, m))) = Least(n, m)
           /\ \A i \in 1 .. Least(n, m) : SubSeq(data, 1, Least(n, m))[i] = data[i]
           /\ SubSeq(data, m + 1, n) \in Seq(Sample)
           /\ Len(SubSeq(data, m + 1, n)) = IF m < n THEN n - m ELSE 0
           /\ \A i \in 1 .. n - m : SubSeq(data, m + 1, n)[i] = data[m + i]
<1>. DEFINE k == Least(n, m)
<1>1. Len(data) \in Nat /\ n \in Nat /\ k \in 0 .. n
  BY LenProperties DEF Least
<1>2. \A i \in 1 .. Len(data) : data[i] \in Sample
  BY ElementOfSeq
<1>. HIDE DEF k
<1>3. /\ SubSeq(data, 1, k) \in Seq(Sample)
      /\ Len(SubSeq(data, 1, k)) = IF 1 <= k THEN k - 1 + 1 ELSE 0
      /\ \A i \in 1 .. k - 1 + 1 : SubSeq(data, 1, k)[i] = data[1 + i - 1]
  <2>1. \A i \in 1 .. k : data[i] \in Sample
    BY <1>1, <1>2
  <2>2. k \in Int /\ 1 \in Int
    BY <1>1
  <2>. QED  BY <2>1, <2>2, SubSeqProperties
<1>4. /\ SubSeq(data, m + 1, n) \in Seq(Sample)
      /\ Len(SubSeq(data, m + 1, n)) = IF m + 1 <= n THEN n - (m + 1) + 1 ELSE 0
      /\ \A i \in 1 .. n - (m + 1) + 1 : SubSeq(data, m + 1, n)[i] = data[m + 1 + i - 1]
  <2>1. \A i \in m + 1 .. n : data[i] \in Sample
    BY <1>1, <1>2
  <2>2. m + 1 \in Int /\ n \in Int
    BY <1>1
  <2>. QED  BY <2>1, <2>2, SubSeqProperties
<1>5. /\ SubSeq(data, 1, k) \in Seq(Sample)
      /\ Len(SubSeq(data, 1, k)) = k
      /\ \A i \in 1 .. k : SubSeq(data, 1, k)[i] = data[i]
  <2>1. (IF 1 <= k THEN k - 1 + 1 ELSE 0) = k /\ k - 1 + 1 = k
    BY <1>1
  <2>2. \A i \in 1 .. k : 1 + i - 1 = i
    BY <1>1
  <2>. QED  BY <1>3, <2>1, <2>2
<1>6. /\ SubSeq(data, m + 1, n) \in Seq(Sample)
      /\ Len(SubSeq(data, m + 1, n)) = IF m < n THEN n - m ELSE 0
      /\ \A i \in 1 .. n - m : SubSeq(data, m + 1, n)[i] = data[m + i]
  <2>1. /\ (IF m + 1 <= n THEN n - (m + 1) + 1 ELSE 0) = IF m < n THEN n - m ELSE 0
        /\ n - (m + 1) + 1 = n - m
    BY <1>1
  <2>2. \A i \in 1 .. n - m : m + 1 + i - 1 = m + i
    BY <1>1
  <2>. QED  BY <1>4, <2>1, <2>2
<1>. QED  BY <1>5, <1>6 DEF k

\* How many samples of data a stream may still write.
Fitting(st, data) == Least(Size - st.used, Len(data))

LEMMA Write ==
    ASSUME NEW b \in Rings, RingAgrees(b), NEW st \in Places, PlaceAgrees(b, st),
           NEW data \in Seq(Sample)
    PROVE  LET w == mixb_write(b, st, data)
               to == st.used + Fitting(st, data)
           IN  /\ w.rb \in Rings
               /\ RingAgrees(w.rb)
               /\ w.rb.read = b.read
               /\ w.rb.used = TheMixer!Greater(b.used, to)
               /\ w.stream \in Places
               /\ PlaceAgrees(w.rb, w.stream)
               /\ w.stream.used = to
               /\ \A j \in 1 .. w.rb.used :
                     Unread(w.rb, j) =
                        IF j <= st.used \/ j > to THEN Unread(b, j)
                        ELSE IF j <= b.used THEN saturated_add(Unread(b, j), data[j - st.used])
                        ELSE data[j - st.used]
<1>. DEFINE len == Fitting(st, data)
            max_mix == b.used - st.used
            first == SubSeq(data, 1, Least(len, max_mix))
            rest == SubSeq(data, max_mix + 1, len)
            mixed == mixb_mix_write(b, st, first)
            appended == rb_write(mixed.rb, rest)
            w == mixb_write(b, st, data)
            to == st.used + len
<1>1. /\ b.used \in 0 .. Size /\ b.read \in Positions /\ st.used \in 0 .. b.used
      /\ b.write = Wrap(b.read + b.used)
  BY DEF Rings, Places, PlaceAgrees, RingAgrees
<1>2. /\ len \in 0 .. Len(data) /\ len <= Size - st.used /\ max_mix \in Nat
      /\ Len(data) \in Nat
  BY <1>1, LenProperties, SizeAssumption DEF Fitting, Least
<1>3. w = IF len > max_mix
          THEN [rb |-> appended, stream |-> [used |-> appended.used, write |-> appended.write]]
          ELSE mixed
  BY DEF mixb_write, Fitting
<1>. HIDE DEF len, max_mix, first, rest, mixed, appended, w
<1>4. /\ first \in Seq(Sample) /\ Len(first) = Least(len, max_mix)
      /\ \A i \in 1 .. Least(len, max_mix) : first[i] = data[i]
      /\ rest \in Seq(Sample) /\ Len(rest) = IF max_mix < len THEN len - max_mix ELSE 0
      /\ \A i \in 1 .. len - max_mix : rest[i] = data[max_mix + i]
  BY <1>2, Pieces DEF first, rest
<1>5. /\ mixed.rb \in Rings
      /\ mixed.rb.used = b.used /\ mixed.rb.read = b.read /\ mixed.rb.write = b.write
      /\ mixed.stream \in Places
      /\ mixed.stream.used = st.used + Least(len, max_mix)
      /\ mixed.stream.write = Wrap(b.read + mixed.stream.used)
      /\ \A j \in 1 .. Size :
            Unread(mixed.rb, j) = IF st.used < j /\ j <= st.used + Least(len, max_mix)
                                  THEN saturated_add(Unread(b, j), first[j - st.used])
                                  ELSE Unread(b, j)
  <2>1. Len(first) <= Size - st.used
    BY <1>1, <1>2, <1>4, SizeAssumption DEF Least
  <2>2. /\ mixed.rb \in Rings
        /\ mixed.rb.used = b.used /\ mixed.rb.read = b.read /\ mixed.rb.write = b.write
        /\ mixed.stream \in Places
        /\ mixed.stream.used = st.used + Len(first)
        /\ mixed.stream.write = Wrap(b.read + mixed.stream.used)
        /\ \A j \in 1 .. Size :
              Unread(mixed.rb, j) = IF st.used < j /\ j <= st.used + Len(first)
                                    THEN saturated_add(Unread(b, j), first[j - st.used])
                                    ELSE Unread(b, j)
    BY <2>1, <1>4, MixWrite DEF mixed
  <2>. QED  BY <2>2, <1>4
<1>6. RingAgrees(mixed.rb)
  BY <1>5, <1>1 DEF RingAgrees
<1>7. CASE len > max_mix
  <2>1. Least(len, max_mix) = max_mix /\ st.used + max_mix = b.used /\ to = b.used + (len - max_mix)
        /\ Len(rest) = len - max_mix
    BY <1>1, <1>2, <1>4, <1>7, SizeAssumption, SMTT(20) DEF Least, max_mix
  <2>2. Least(Len(rest), rb_free(mixed.rb)) = len - max_mix
    <3>1. rb_free(mixed.rb) = Size - b.used /\ len - max_mix <= Size - b.used
      BY <1>1, <1>2, <1>5, <2>1, SizeAssumption DEF rb_free, max_mix
    <3>2. Size - b.used \in Int /\ len - max_mix \in Int
      BY <1>1, <1>2, SizeAssumption
    <3>. QED  BY <3>1, <3>2, <2>1 DEF Least
  <2>3. /\ appended \in Rings /\ RingAgrees(appended)
        /\ appended.used = to /\ appended.read = b.read
        /\ \A j \in 1 .. Size :
              Unread(appended, j) = IF b.used < j /\ j <= to THEN rest[j - b.used]
                                                             ELSE Unread(mixed.rb, j)
    <3>1. LET n == Least(Len(rest), rb_free(mixed.rb))
          IN  /\ appended \in Rings /\ RingAgrees(appended)
              /\ appended.used = mixed.rb.used + n /\ appended.read = mixed.rb.read
              /\ \A j \in 1 .. Size :
                    Unread(appended, j) = IF mixed.rb.used < j /\ j <= mixed.rb.used + n
                                          THEN rest[j - mixed.rb.used]
                                          ELSE Unread(mixed.rb, j)
      BY <1>4, <1>5, <1>6, CoreWrite DEF appended, rb_write
    <3>. QED  BY <3>1, <1>5, <2>1, <2>2
  <2>4. w.rb = appended /\ w.stream = [used |-> appended.used, write |-> appended.write]
    BY <1>3, <1>7
  <2>5. to \in 0 .. Size /\ TheMixer!Greater(b.used, to) = to
    BY <1>1, <1>2, <1>7, <2>1, SizeAssumption DEF TheMixer!Greater
  <2>6. w.stream \in Places /\ PlaceAgrees(w.rb, w.stream) /\ w.stream.used = to
    BY <2>3, <2>4, <2>5, SizeAssumption DEF Rings, Places, PlaceAgrees, RingAgrees
  <2>7. ASSUME NEW j \in 1 .. to
        PROVE  Unread(appended, j) =
                  IF j <= st.used \/ j > to THEN Unread(b, j)
                  ELSE IF j <= b.used THEN saturated_add(Unread(b, j), data[j - st.used])
                  ELSE data[j - st.used]
    <3>1. j \in 1 .. Size /\ j \in Int
      BY <2>5, SizeAssumption
    <3>2. CASE j <= st.used
      <4>1. ~(b.used < j) /\ ~(st.used < j)
        BY <3>1, <3>2, <1>1
      <4>. QED  BY <4>1, <3>1, <3>2, <2>3, <1>5
    <3>3. CASE ~(j <= st.used) /\ j <= b.used
      <4>1. ~(b.used < j) /\ st.used < j /\ j <= st.used + Least(len, max_mix)
            /\ j - st.used \in 1 .. Least(len, max_mix) /\ ~(j > to)
        BY <3>1, <3>3, <1>1, <1>2, <2>1, SMTT(20)
      <4>. QED  BY <4>1, <3>1, <3>3, <2>3, <1>5, <1>4
    <3>4. CASE ~(j <= st.used) /\ ~(j <= b.used)
      <4>1. b.used \in Int /\ st.used \in Int /\ len \in Int /\ j <= to /\ to \in Int
        BY <1>1, <1>2, <2>5, SizeAssumption
      <4>2. max_mix \in Int /\ st.used + max_mix = b.used /\ to = b.used + (len - max_mix)
        BY <1>2, <2>1
      <4>. HIDE DEF to
      <4>3. b.used < j /\ ~(j > to)
        BY <3>1, <3>4, <4>1
      <4>4. j - b.used \in 1 .. len - max_mix
        BY <3>1, <4>1, <4>2, <4>3
      <4>5. max_mix + (j - b.used) = j - st.used
        BY <3>1, <4>1, <4>2, SMTT(20)
      <4>. QED  BY <4>1, <4>3, <4>4, <4>5, <3>1, <3>4, <2>3, <1>4
    <3>. QED  BY <3>2, <3>3, <3>4
  <2>. QED  BY <2>3, <2>4, <2>5, <2>6, <2>7 DEF w, len
<1>8. CASE ~(len > max_mix)
  <2>1. Least(len, max_mix) = len /\ to <= b.used /\ to \in 0 .. Size
        /\ TheMixer!Greater(b.used, to) = b.used
    BY <1>1, <1>2, <1>8, SizeAssumption DEF Least, max_mix, TheMixer!Greater
  <2>2. w = mixed
    BY <1>3, <1>8
  <2>3. PlaceAgrees(w.rb, w.stream)
    BY <1>5, <2>1, <2>2 DEF PlaceAgrees
  <2>4. ASSUME NEW j \in 1 .. b.used
        PROVE  Unread(mixed.rb, j) =
                  IF j <= st.used \/ j > to THEN Unread(b, j)
                  ELSE IF j <= b.used THEN saturated_add(Unread(b, j), data[j - st.used])
                  ELSE data[j - st.used]
    <3>1. j \in 1 .. Size /\ j \in Int
      BY <1>1, SizeAssumption
    <3>2. CASE j <= st.used \/ j > to
      <4>1. ~(st.used < j /\ j <= to)
        BY <3>1, <3>2, <1>1, <2>1
      <4>. QED  BY <4>1, <3>1, <3>2, <2>1, <1>5
    <3>3. CASE ~(j <= st.used \/ j > to)
      <4>1. st.used < j /\ j <= to /\ j - st.used \in 1 .. len /\ j <= b.used
        BY <3>1, <3>3, <1>1, <1>2, <2>1
      <4>. QED  BY <4>1, <3>1, <3>3, <2>1, <1>5, <1>4
    <3>. QED  BY <3>2, <3>3
  <2>. QED  BY <1>5, <1>6, <2>1, <2>2, <2>3, <2>4 DEF w, len
<1>. QED
  BY <1>2, <1>7, <1>8

-----------------------------------------------------------------------------
(* The line of samples                                                     *)

LEMMA ReadAll ==
    ASSUME NEW b \in Rings
    PROVE  /\ rb_read_all_iov(b) \in Seq(Sample)
           /\ Len(rb_read_all_iov(b)) = b.used
           /\ \A i \in 1 .. b.used : rb_read_all_iov(b)[i] = Unread(b, i)
<1>1. /\ b.used \in Nat /\ b.used \in 0 .. Size /\ b.read \in Positions
      /\ b.buffer \in [Positions -> Sample]
  BY SizeAssumption DEF Rings
<1>2. ASSUME NEW i \in 1 .. b.used
      PROVE  Unread(b, i) \in Sample
  <2>1. i \in 1 .. Size
    BY <1>1, SizeAssumption
  <2>. QED  BY <2>1, <1>1, WrapAt DEF Unread
<1>3. rb_read_all_iov(b) = [i \in 1 .. b.used |-> Unread(b, i)]
  BY DEF rb_read_all_iov
<1>4. rb_read_all_iov(b) \in [1 .. b.used -> Sample]
  BY <1>2, <1>3
<1>. HIDE DEF rb_read_all_iov
<1>5. rb_read_all_iov(b) \in Seq(Sample)
  BY <1>1, <1>4, SeqDef
<1>6. Len(rb_read_all_iov(b)) = b.used
  BY <1>1, <1>4, <1>5, LenProperties
<1>. QED  BY <1>3, <1>5, <1>6

LEMMA SkipRead ==
    ASSUME NEW b \in Rings, RingAgrees(b), NEW len \in Nat
    PROVE  rb_read_all_iov(rb_read_upd(b, len)) = TheMixer!Skip(rb_read_all_iov(b), len)
<1>. DEFINE c == rb_read_upd(b, len)
            n == Least(len, b.used)
            line == rb_read_all_iov(b)
            skipped == TheMixer!Skip(line, len)
<1>1. /\ c \in Rings /\ c.used = b.used - n
      /\ \A j \in 1 .. c.used : Unread(c, j) = Unread(b, n + j)
      /\ b.used \in Nat
      /\ n = IF len < b.used THEN len ELSE b.used
  BY ReadUpd, SizeAssumption DEF Rings, Least
<1>. HIDE DEF c, n
<1>2. /\ line \in Seq(Sample) /\ Len(line) = b.used
      /\ \A i \in 1 .. b.used : line[i] = Unread(b, i)
  BY ReadAll
<1>3. skipped = SubSeq(line, len + 1, b.used)
  BY <1>2 DEF TheMixer!Skip
<1>. HIDE DEF line, skipped
<1>4. /\ skipped \in Seq(Sample)
      /\ Len(skipped) = IF len + 1 <= b.used THEN b.used - (len + 1) + 1 ELSE 0
      /\ \A i \in 1 .. b.used - (len + 1) + 1 : skipped[i] = line[len + 1 + i - 1]
  <2>1. \A i \in len + 1 .. b.used : line[i] \in Sample
    BY <1>1, <1>2, ElementOfSeq
  <2>2. len + 1 \in Int /\ b.used \in Int
    BY <1>1
  <2>. QED  BY <2>1, <2>2, <1>3, SubSeqProperties
<1>5. Len(skipped) = c.used
  BY <1>1, <1>4
<1>6. /\ rb_read_all_iov(c) \in Seq(Sample) /\ Len(rb_read_all_iov(c)) = c.used
      /\ \A i \in 1 .. c.used : rb_read_all_iov(c)[i] = Unread(c, i)
  BY <1>1, ReadAll
<1>7. ASSUME NEW i \in 1 .. c.used
      PROVE  rb_read_all_iov(c)[i] = skipped[i]
  <2>1. len < b.used /\ n = len
    BY <1>1
  <2>2. i \in 1 .. b.used - (len + 1) + 1 /\ len + 1 + i - 1 = n + i /\ n + i \in 1 .. b.used
    BY <1>1, <2>1
  <2>. QED  BY <2>2, <1>1, <1>2, <1>4, <1>6
<1>8. rb_read_all_iov(c) = skipped
  BY <1>4, <1>5, <1>6, <1>7, SeqEqual
<1>. QED  BY <1>8 DEF c, skipped, line

\* What a stream writes is added to the line from its place on.
LEMMA WriteAdds ==
    ASSUME NEW b \in Rings, RingAgrees(b), NEW st \in Places, PlaceAgrees(b, st),
           NEW data \in Seq(Sample)
    PROVE  rb_read_all_iov(mixb_write(b, st, data).rb)
              = TheMixer!Added(rb_read_all_iov(b), st.used,
                               SubSeq(data, 1, Fitting(st, data)))
<1>. DEFINE len == Fitting(st, data)
            to == st.used + len
            r == mixb_write(b, st, data).rb
            line == rb_read_all_iov(b)
            fits == SubSeq(data, 1, len)
            added == TheMixer!Added(line, st.used, fits)
<1>1. /\ b.used \in Nat /\ st.used \in 0 .. b.used /\ b.used <= Size
      /\ len \in 0 .. Len(data) /\ Len(data) \in Nat
  BY LenProperties, SizeAssumption DEF Rings, Places, PlaceAgrees, Fitting, Least
<1>2. /\ r \in Rings /\ r.used = TheMixer!Greater(b.used, to)
      /\ \A j \in 1 .. r.used :
            Unread(r, j) =
               IF j <= st.used \/ j > to THEN Unread(b, j)
               ELSE IF j <= b.used THEN saturated_add(Unread(b, j), data[j - st.used])
               ELSE data[j - st.used]
  BY Write
<1>. HIDE DEF r, len
<1>3. /\ fits \in Seq(Sample) /\ Len(fits) = len
      /\ \A i \in 1 .. len : fits[i] = data[i]
  <2>1. \A i \in 1 .. len : data[i] \in Sample
    BY <1>1, ElementOfSeq
  <2>2. /\ fits \in Seq(Sample) /\ Len(fits) = IF 1 <= len THEN len - 1 + 1 ELSE 0
        /\ \A i \in 1 .. len - 1 + 1 : fits[i] = data[1 + i - 1]
    BY <2>1, <1>1, SubSeqProperties
  <2>3. (IF 1 <= len THEN len - 1 + 1 ELSE 0) = len /\ len - 1 + 1 = len
    BY <1>1
  <2>4. \A i \in 1 .. len : 1 + i - 1 = i
    BY <1>1
  <2>. QED  BY <2>2, <2>3, <2>4
<1>4. /\ line \in Seq(Sample) /\ Len(line) = b.used
      /\ \A i \in 1 .. b.used : line[i] = Unread(b, i)
  BY ReadAll
<1>. HIDE DEF fits, line
<1>5. added = [i \in 1 .. r.used |->
                  CASE i <= st.used \/ i > to -> line[i]
                    [] i > st.used /\ i <= b.used /\ i <= to -> TheMixer!Sum(line[i], fits[i - st.used])
                    [] OTHER -> fits[i - st.used]]
  BY <1>2, <1>3, <1>4 DEF TheMixer!Added
<1>. HIDE DEF added
<1>6. r.used \in Nat /\ to \in Nat /\ (r.used = b.used \/ r.used = to) /\ to <= r.used /\ b.used <= r.used
  BY <1>1, <1>2 DEF TheMixer!Greater
<1>7. ASSUME NEW j \in 1 .. r.used
      PROVE  Unread(r, j) = added[j]
  <2>1. CASE j <= st.used \/ j > to
    <3>1. added[j] = line[j] /\ j \in 1 .. b.used
      BY <2>1, <1>1, <1>5, <1>6
    <3>. QED  BY <3>1, <2>1, <1>2, <1>4
  <2>2. CASE ~(j <= st.used \/ j > to) /\ j <= b.used
    <3>1. j - st.used \in 1 .. len /\ j \in 1 .. b.used /\ j > st.used /\ j <= to
      BY <2>2, <1>1, <1>6
    <3>2. added[j] = TheMixer!Sum(line[j], fits[j - st.used])
      BY <3>1, <2>2, <1>5
    <3>3. Unread(r, j) = saturated_add(line[j], fits[j - st.used])
      BY <3>1, <2>2, <1>2, <1>3, <1>4
    <3>4. line[j] \in Sample /\ fits[j - st.used] \in Sample
      BY <3>1, <1>3, <1>4, ElementOfSeq
    <3>. QED  BY <3>2, <3>3, <3>4, Samples
  <2>3. CASE ~(j <= st.used \/ j > to) /\ ~(j <= b.used)
    <3>1. j - st.used \in 1 .. len
      BY <2>3, <1>1, <1>6
    <3>2. added[j] = fits[j - st.used]
      BY <2>3, <1>5
    <3>. QED  BY <3>1, <3>2, <2>3, <1>2, <1>3
  <2>. QED  BY <2>1, <2>2, <2>3
<1>8. rb_read_all_iov(r) = [i \in 1 .. r.used |-> Unread(r, i)]
  BY DEF rb_read_all_iov
<1>9. rb_read_all_iov(r) = added
  BY <1>5, <1>7, <1>8
<1>. QED  BY <1>9 DEF r, added, line, fits, len

-----------------------------------------------------------------------------
(* The steps                                                               *)

\* The inductive invariant.
Inv == TypeOK /\ PositionsAgree

LEMMA Unfolded ==
    Inv => /\ rb \in Rings /\ RingAgrees(rb)
           /\ streams \subseteq Stream
           /\ stream \in [Stream -> Places]
           /\ \A s \in streams : stream[s] \in Places /\ PlaceAgrees(rb, stream[s])
<1>. SUFFICES ASSUME Inv
              PROVE  /\ rb \in Rings /\ RingAgrees(rb)
                     /\ streams \subseteq Stream
                     /\ stream \in [Stream -> Places]
                     /\ \A s \in streams : stream[s] \in Places /\ PlaceAgrees(rb, stream[s])
  OBVIOUS
<1>1. rb \in Rings /\ streams \subseteq Stream /\ stream \in [Stream -> Places]
  BY DEF Inv, TypeOK, Rings, Places
<1>2. RingAgrees(rb) /\ \A s \in streams : PlaceAgrees(rb, stream[s])
  BY DEF Inv, PositionsAgree, RingAgrees, PlaceAgrees
<1>. QED  BY <1>1, <1>2

\* mixb_read_upd takes samples off the line and brings every stream nearer.
LEMMA ReadStep ==
    ASSUME Inv, NEW len \in Nat
    PROVE  LET u == mixb_read_upd(rb, stream, len)
           IN  /\ u.rb \in Rings /\ RingAgrees(u.rb)
               /\ u.stream \in [Stream -> Places]
               /\ \A s \in streams : /\ PlaceAgrees(u.rb, u.stream[s])
                                     /\ u.stream[s].used = TheMixer!Nearer(stream[s].used, len)
               /\ rb_read_all_iov(u.rb) = TheMixer!Skip(rb_read_all_iov(rb), len)
<1>. DEFINE u == mixb_read_upd(rb, stream, len)
            after == rb_read_upd(rb, len)
<1>1. /\ u.rb = after
      /\ u.stream = [s \in Stream |-> IF s \in streams THEN Advanced(stream[s], len, after.read)
                                                       ELSE stream[s]]
  BY DEF mixb_read_upd
<1>2. /\ after \in Rings /\ RingAgrees(after) /\ after.used = rb.used - Least(len, rb.used)
      /\ rb_read_all_iov(after) = TheMixer!Skip(rb_read_all_iov(rb), len)
  BY Unfolded, ReadUpd, SkipRead
<1>. HIDE DEF u, after
<1>3. ASSUME NEW s \in streams
      PROVE  /\ Advanced(stream[s], len, after.read) \in Places
             /\ PlaceAgrees(after, Advanced(stream[s], len, after.read))
             /\ Advanced(stream[s], len, after.read).used = TheMixer!Nearer(stream[s].used, len)
  BY <1>2, Unfolded, AdvancedAgrees
<1>4. u.stream \in [Stream -> Places]
  BY <1>1, <1>3, Unfolded
<1>5. \A s \in streams : u.stream[s] = Advanced(stream[s], len, after.read)
  BY <1>1, Unfolded
<1>. QED  BY <1>1, <1>2, <1>3, <1>4, <1>5 DEF u

\* What is true when channel_write has made room for data.
LEMMA Room ==
    ASSUME Inv, NEW s \in streams, NEW data \in Seq(Sample)
    PROVE  LET count == mixb_free(s)
               room == IF count < Len(data) THEN mixb_read_upd(rb, stream, Len(data) - count)
                                            ELSE [rb |-> rb, stream |-> stream]
               late == TheMixer!Greater(0, stream[s].used + Len(data) - Size)
           IN  /\ room.rb \in Rings /\ RingAgrees(room.rb)
               /\ room.stream \in [Stream -> Places]
               /\ \A t \in streams : /\ PlaceAgrees(room.rb, room.stream[t])
                                     /\ room.stream[t].used = TheMixer!Nearer(stream[t].used, late)
               /\ rb_read_all_iov(room.rb) = TheMixer!Skip(rb_read_all_iov(rb), late)
               /\ Fitting(room.stream[s], data) = TheMixer!Lesser(Size, Len(data))
<1>. DEFINE count == mixb_free(s)
            room == IF count < Len(data) THEN mixb_read_upd(rb, stream, Len(data) - count)
                                         ELSE [rb |-> rb, stream |-> stream]
            late == TheMixer!Greater(0, stream[s].used + Len(data) - Size)
<1>1. /\ stream[s].used \in 0 .. Size /\ Len(data) \in Nat /\ rb.used \in 0 .. Size
      /\ \A t \in streams : stream[t].used \in 0 .. Size
  BY Unfolded, LenProperties DEF Places, Rings
<1>2. count = Size - stream[s].used
  BY DEF mixb_free
<1>3. /\ late \in Nat
      /\ (count < Len(data)) => late = Len(data) - count
      /\ ~(count < Len(data)) => late = 0
  BY <1>1, <1>2, SizeAssumption DEF TheMixer!Greater
<1>. HIDE DEF room, late
<1>4. /\ room.rb \in Rings /\ RingAgrees(room.rb)
      /\ room.stream \in [Stream -> Places]
      /\ \A t \in streams : /\ PlaceAgrees(room.rb, room.stream[t])
                            /\ room.stream[t].used = TheMixer!Nearer(stream[t].used, late)
      /\ rb_read_all_iov(room.rb) = TheMixer!Skip(rb_read_all_iov(rb), late)
  <2>1. CASE count < Len(data)
    <3>1. room = mixb_read_upd(rb, stream, late)
      BY <2>1, <1>3 DEF room
    <3>. QED  BY <3>1, <1>3, ReadStep
  <2>2. CASE ~(count < Len(data))
    <3>1. room.rb = rb /\ room.stream = stream /\ late = 0
      BY <2>2, <1>3 DEF room
    <3>2. \A t \in streams : stream[t].used = TheMixer!Nearer(stream[t].used, 0)
      BY <1>1, SizeAssumption DEF TheMixer!Nearer, TheMixer!Greater
    <3>3. rb_read_all_iov(rb) = TheMixer!Skip(rb_read_all_iov(rb), 0)
      <4>1. rb_read_upd(rb, 0) = rb
        BY <1>1, SizeAssumption DEF rb_read_upd, Least
      <4>. QED  BY <4>1, Unfolded, SkipRead
    <3>. QED  BY <3>1, <3>2, <3>3, Unfolded
  <2>. QED  BY <2>1, <2>2
<1>5. Fitting(room.stream[s], data) = TheMixer!Lesser(Size, Len(data))
  <2>1. room.stream[s].used = IF late < stream[s].used THEN stream[s].used - late ELSE 0
    BY <1>1, <1>3, <1>4, SizeAssumption DEF TheMixer!Nearer, TheMixer!Greater
  <2>. QED  BY <2>1, <1>1, <1>2, <1>3, SizeAssumption
            DEF Fitting, Least, TheMixer!Lesser
<1>. QED  BY <1>4, <1>5 DEF room, late

\* The invariant from its parts.
LEMMA Folded ==
    ASSUME (rb \in Rings)', RingAgrees(rb'), (streams \subseteq Stream)',
           (stream \in [Stream -> Places])',
           \A t \in streams' : PlaceAgrees(rb', stream'[t]),
           (heard = <<>> \/ heard \in [1 .. FrameSize -> Sample])'
    PROVE  Inv'
BY DEF Inv, TypeOK, PositionsAgree, Rings, Places, RingAgrees, PlaceAgrees

LEMMA HeardTyped == Inv => (heard = <<>> \/ heard \in [1 .. FrameSize -> Sample])
BY DEF Inv, TypeOK

\* The places of the abstract mixer.
LineOf == rb_read_all_iov(rb)
PlaceOf == [s \in Stream |-> IF s \in streams THEN stream[s].used ELSE 0]

\* A ring buffer that starts over has an empty line.
LEMMA StartsOver ==
    ASSUME Inv
    PROVE  /\ rb_init(rb.buffer) \in Rings /\ RingAgrees(rb_init(rb.buffer))
           /\ rb_read_all_iov(rb_init(rb.buffer)) = <<>>
<1>1. rb_init(rb.buffer) = [buffer |-> rb.buffer, used |-> 0, read |-> 0, write |-> 0]
  BY DEF rb_init
<1>. HIDE DEF rb_init
<1>2. rb_init(rb.buffer) \in Rings /\ RingAgrees(rb_init(rb.buffer))
  BY <1>1, Unfolded, SizeAssumption DEF Rings, RingAgrees, Positions, Wrap
<1>3. /\ rb_read_all_iov(rb_init(rb.buffer)) \in Seq(Sample)
      /\ Len(rb_read_all_iov(rb_init(rb.buffer))) = 0
  BY <1>1, <1>2, ReadAll
<1>. QED  BY <1>2, <1>3, EmptySeq

LEMMA InitStep == Inv /\ mixb_init => Inv' /\ TheMixer!Begin
<1>. SUFFICES ASSUME Inv, mixb_init PROVE Inv' /\ TheMixer!Begin
  OBVIOUS
<1>1. /\ streams = {} /\ rb' = rb_init(rb.buffer)
      /\ streams' = streams /\ stream' = stream /\ heard' = heard
  BY DEF mixb_init
<1>2. Inv'
  BY <1>1, StartsOver, Unfolded, HeardTyped, Folded
<1>3. TheMixer!Begin
  <2>1. rb_read_all_iov(rb') = <<>>
    BY <1>1, StartsOver
  <2>. QED  BY <1>1, <2>1 DEF TheMixer!Begin, rb_read_all_iov
<1>. QED  BY <1>2, <1>3

LEMMA AttachStep ==
    ASSUME Inv, NEW s \in Stream, mixb_attach(s)
    PROVE  Inv' /\ TheMixer!Join(s)
<1>1. /\ s \notin streams /\ streams' = streams \union {s}
      /\ stream' = [stream EXCEPT ![s] = [used |-> 0, write |-> rb.read]]
      /\ rb' = rb /\ heard' = heard
  BY DEF mixb_attach
<1>2. [used |-> 0, write |-> rb.read] \in Places /\ PlaceAgrees(rb, [used |-> 0, write |-> rb.read])
  BY Unfolded, SizeAssumption DEF Rings, Places, PlaceAgrees, Positions, Wrap
<1>3. stream' \in [Stream -> Places]
  BY <1>1, <1>2, Unfolded
<1>4. /\ stream'[s] = [used |-> 0, write |-> rb.read]
      /\ \A t \in Stream \ {s} : stream'[t] = stream[t]
  BY <1>1, Unfolded
<1>5. Inv'
  <2>1. \A t \in streams' : PlaceAgrees(rb', stream'[t])
    BY <1>1, <1>2, <1>4, Unfolded
  <2>2. streams' \subseteq Stream
    BY <1>1, Unfolded
  <2>. QED  BY <2>1, <2>2, <1>1, <1>3, Unfolded, HeardTyped, Folded
<1>6. TheMixer!Join(s)
  <2>1. PlaceOf' = [PlaceOf EXCEPT ![s] = 0]
    <3>1. \A t \in Stream : (IF t \in streams' THEN stream'[t].used ELSE 0)
                              = IF t = s THEN 0 ELSE IF t \in streams THEN stream[t].used ELSE 0
      BY <1>1, <1>4
    <3>. QED  BY <3>1 DEF PlaceOf
  <2>. QED  BY <1>1, <2>1 DEF TheMixer!Join, PlaceOf, rb_read_all_iov, Unread
<1>. QED  BY <1>5, <1>6

LEMMA DetachStep ==
    ASSUME Inv, NEW s \in Stream, mixb_detach(s)
    PROVE  Inv' /\ TheMixer!Leave(s)
<1>1. /\ s \in streams /\ streams' = streams \ {s}
      /\ rb' = rb /\ stream' = stream /\ heard' = heard
  BY DEF mixb_detach
<1>2. Inv'
  BY <1>1, Unfolded, HeardTyped, Folded
<1>3. TheMixer!Leave(s)
  <2>1. PlaceOf' = [PlaceOf EXCEPT ![s] = 0]
    <3>1. \A t \in Stream : (IF t \in streams' THEN stream'[t].used ELSE 0)
                              = IF t = s THEN 0 ELSE IF t \in streams THEN stream[t].used ELSE 0
      BY <1>1
    <3>. QED  BY <3>1 DEF PlaceOf
  <2>. QED  BY <1>1, <2>1 DEF TheMixer!Leave, PlaceOf, rb_read_all_iov, Unread
<1>. QED  BY <1>2, <1>3

LEMMA SpeakStep ==
    ASSUME Inv, NEW s \in Stream, NEW data \in Frames, channel_write(s, data)
    PROVE  Inv' /\ TheMixer!Speak(s, data)
<1>. DEFINE count == mixb_free(s)
            room == IF count < Len(data) THEN mixb_read_upd(rb, stream, Len(data) - count)
                                         ELSE [rb |-> rb, stream |-> stream]
            written == mixb_write(room.rb, room.stream[s], data)
            late == TheMixer!Greater(0, stream[s].used + Len(data) - Size)
            fits == SubSeq(data, 1, TheMixer!Lesser(Size, Len(data)))
            near == TheMixer!Nearer(stream[s].used, late)
<1>1. data \in Seq(Sample)
  BY MixerAssumption
<1>2. /\ s \in streams /\ rb' = written.rb
      /\ stream' = [room.stream EXCEPT ![s] = written.stream]
      /\ streams' = streams /\ heard' = heard
  BY DEF channel_write
<1>3. /\ room.rb \in Rings /\ RingAgrees(room.rb)
      /\ room.stream \in [Stream -> Places]
      /\ \A t \in streams : /\ PlaceAgrees(room.rb, room.stream[t])
                            /\ room.stream[t].used = TheMixer!Nearer(stream[t].used, late)
      /\ rb_read_all_iov(room.rb) = TheMixer!Skip(rb_read_all_iov(rb), late)
      /\ Fitting(room.stream[s], data) = TheMixer!Lesser(Size, Len(data))
  BY <1>1, <1>2, Room
<1>. HIDE DEF room, late
<1>4. room.stream[s] \in Places /\ PlaceAgrees(room.rb, room.stream[s])
  BY <1>2, <1>3
<1>5. /\ written.rb \in Rings /\ RingAgrees(written.rb) /\ written.rb.read = room.rb.read
      /\ written.rb.used = TheMixer!Greater(room.rb.used, written.stream.used)
      /\ written.stream \in Places /\ PlaceAgrees(written.rb, written.stream)
      /\ written.stream.used = room.stream[s].used + Fitting(room.stream[s], data)
  BY <1>1, <1>3, <1>4, Write
<1>6. rb_read_all_iov(written.rb)
        = TheMixer!Added(rb_read_all_iov(room.rb), room.stream[s].used,
                         SubSeq(data, 1, Fitting(room.stream[s], data)))
  BY <1>1, <1>3, <1>4, WriteAdds
<1>. HIDE DEF written
<1>7. /\ stream' \in [Stream -> Places] /\ stream'[s] = written.stream
      /\ \A t \in Stream \ {s} : stream'[t] = room.stream[t]
  BY <1>2, <1>3, <1>5
<1>8. Inv'
  <2>1. ASSUME NEW t \in streams, t # s
        PROVE  PlaceAgrees(written.rb, room.stream[t])
    <3>1. /\ room.rb.used \in 0 .. Size /\ written.rb.used \in 0 .. Size
          /\ written.stream.used \in 0 .. Size /\ t \in Stream
      BY <1>3, <1>5, Unfolded DEF Rings, Places
    <3>2. room.rb.used <= written.rb.used
      BY <3>1, <1>5, SizeAssumption DEF TheMixer!Greater
    <3>3. room.stream[t].used \in 0 .. Size
      BY <3>1, <1>3 DEF Places
    <3>. QED  BY <3>1, <3>2, <3>3, <1>3, <1>5, SizeAssumption DEF PlaceAgrees
  <2>2. \A t \in streams' : PlaceAgrees(rb', stream'[t])
    BY <2>1, <1>2, <1>5, <1>7, Unfolded
  <2>3. (streams \subseteq Stream)' /\ (stream \in [Stream -> Places])' /\ (rb \in Rings)'
    BY <1>2, <1>5, <1>7, Unfolded
  <2>. QED  BY <2>2, <2>3, <1>2, <1>5, HeardTyped, Folded
<1>9. Len(fits) = TheMixer!Lesser(Size, Len(data))
  <2>1. Len(data) \in Nat /\ TheMixer!Lesser(Size, Len(data)) \in 0 .. Len(data)
    BY <1>1, LenProperties, SizeAssumption DEF TheMixer!Lesser
  <2>2. \A i \in 1 .. TheMixer!Lesser(Size, Len(data)) : data[i] \in Sample
    BY <2>1, <1>1, ElementOfSeq
  <2>. DEFINE m == TheMixer!Lesser(Size, Len(data))
  <2>. HIDE DEF m
  <2>3. Len(SubSeq(data, 1, m)) = IF 1 <= m THEN m - 1 + 1 ELSE 0
    BY <2>1, <2>2, SubSeqProperties DEF m
  <2>4. m \in Nat
    BY <2>1 DEF m
  <2>. QED  BY <2>3, <2>4 DEF m
<1>. HIDE DEF fits
<1>10. TheMixer!Speak(s, data)
  <2>1. PlaceOf[s] = stream[s].used
    BY <1>2 DEF PlaceOf
  <2>2. near = room.stream[s].used /\ stream'[s].used = near + Len(fits)
    BY <1>2, <1>3, <1>5, <1>7, <1>9
  <2>3. LineOf' = TheMixer!Added(TheMixer!Skip(LineOf, late), near, fits)
    BY <2>2, <1>2, <1>3, <1>6 DEF LineOf, rb_read_all_iov, Unread, fits
  <2>4. PlaceOf' = [t \in Stream |-> IF t = s THEN near + Len(fits)
                                     ELSE TheMixer!Nearer(PlaceOf[t], late)]
    <3>1. late \in Nat
      <4>1. stream[s].used \in 0 .. Size /\ Len(data) \in Nat
        BY <1>1, LenProperties, Unfolded DEF Places
      <4>. QED  BY <4>1, SizeAssumption DEF late, TheMixer!Greater
    <3>2. TheMixer!Nearer(0, late) = 0
      BY <3>1 DEF TheMixer!Nearer, TheMixer!Greater
    <3>3. ASSUME NEW t \in Stream
          PROVE  (IF t \in streams THEN stream'[t].used ELSE 0)
                    = IF t = s THEN near + Len(fits) ELSE TheMixer!Nearer(PlaceOf[t], late)
      BY <3>2, <2>2, <1>2, <1>3, <1>7 DEF PlaceOf
    <3>. QED  BY <3>3, <1>2 DEF PlaceOf
  <2>5. late = TheMixer!Greater(0, PlaceOf[s] + Len(data) - Size)
    BY <2>1 DEF late
  <2>. QED  BY <1>2, <2>1, <2>3, <2>4, <2>5 DEF TheMixer!Speak, LineOf, PlaceOf, fits
<1>. QED  BY <1>8, <1>10

LEMMA HearStep ==
    ASSUME Inv, timing_write
    PROVE  Inv' /\ TheMixer!Hear
<1>. DEFINE n == Least(rb.used, FrameSize)
            after == mixb_read_upd(rb, stream, n)
            frame == [i \in 1 .. FrameSize |-> IF i <= Len(LineOf) THEN LineOf[i] ELSE 0]
<1>1. /\ heard' = rb_read_n_iov(rb, n) \o Silence(FrameSize - n)
      /\ IF n > 0 THEN rb' = after.rb /\ stream' = after.stream
                  ELSE rb' = rb /\ stream' = stream
      /\ streams' = streams
  BY DEF timing_write
<1>2. /\ rb.used \in 0 .. Size /\ FrameSize \in 1 .. Size /\ n \in Nat
      /\ n = IF rb.used < FrameSize THEN rb.used ELSE FrameSize
  BY Unfolded, SizeAssumption, MixerAssumption DEF Rings, Least
<1>3. /\ LineOf \in Seq(Sample) /\ Len(LineOf) = rb.used
      /\ \A i \in 1 .. rb.used : LineOf[i] = Unread(rb, i)
  BY Unfolded, ReadAll DEF LineOf
<1>. HIDE DEF n, after
<1>4. /\ after.rb \in Rings /\ RingAgrees(after.rb)
      /\ after.stream \in [Stream -> Places]
      /\ \A t \in streams : /\ PlaceAgrees(after.rb, after.stream[t])
                            /\ after.stream[t].used = TheMixer!Nearer(stream[t].used, n)
      /\ rb_read_all_iov(after.rb) = TheMixer!Skip(LineOf, n)
  BY <1>2, ReadStep DEF after, LineOf
<1>5. heard' = frame
  <2>. DEFINE said == rb_read_n_iov(rb, n)
              silence == Silence(FrameSize - n)
  <2>1. said = [i \in 1 .. n |-> Unread(rb, i)]
    BY <1>2 DEF rb_read_n_iov
  <2>2. silence = [i \in 1 .. FrameSize - n |-> 0]
    BY DEF Silence
  <2>3. /\ n \in Nat /\ FrameSize - n \in Nat
        /\ \A i \in 1 .. n : i \in 1 .. rb.used
    BY <1>2, SizeAssumption
  <2>4. said \in Seq(Sample) /\ Len(said) = n
    <3>1. \A i \in 1 .. n : Unread(rb, i) \in Sample
      BY <2>3, <1>3, ElementOfSeq
    <3>2. said \in [1 .. n -> Sample]
      BY <2>1, <3>1
    <3>3. said \in Seq(Sample)
      BY <2>3, <3>2, SeqDef
    <3>. QED  BY <3>2, <3>3, <2>3, LenProperties
  <2>5. silence \in Seq(Sample) /\ Len(silence) = FrameSize - n
    <3>1. silence \in [1 .. FrameSize - n -> Sample]
      BY <2>2, Samples
    <3>2. silence \in Seq(Sample)
      BY <2>3, <3>1, SeqDef
    <3>. QED  BY <3>1, <3>2, <2>3, LenProperties
  <2>. HIDE DEF said, silence
  <2>6. /\ said \o silence \in Seq(Sample)
        /\ Len(said \o silence) = n + (FrameSize - n)
        /\ \A i \in 1 .. n + (FrameSize - n) :
              (said \o silence)[i] = IF i <= n THEN said[i] ELSE silence[i - n]
    BY <2>4, <2>5, ConcatProperties
  <2>7. n + (FrameSize - n) = FrameSize
    BY <1>2, SizeAssumption
  <2>8. ASSUME NEW i \in 1 .. FrameSize
        PROVE  (said \o silence)[i] = frame[i]
    <3>1. CASE i <= n
      <4>1. i \in 1 .. n /\ i <= rb.used /\ i \in 1 .. rb.used
        BY <3>1, <1>2, SizeAssumption
      <4>. QED  BY <4>1, <3>1, <2>1, <2>6, <2>7, <1>3
    <3>2. CASE ~(i <= n)
      <4>1. i - n \in 1 .. FrameSize - n /\ ~(i <= rb.used)
        BY <3>2, <1>2, SizeAssumption
      <4>. QED  BY <4>1, <3>2, <2>2, <2>6, <2>7, <1>3
    <3>. QED  BY <3>1, <3>2
  <2>9. said \o silence \in [1 .. FrameSize -> Sample]
    BY <2>6, <2>7, LenProperties, ElementOfSeq
  <2>10. said \o silence = frame
    BY <2>8, <2>9
  <2>. QED  BY <2>10, <1>1 DEF said, silence
<1>6. frame \in [1 .. FrameSize -> Sample]
  <2>1. \A i \in 1 .. FrameSize : i <= Len(LineOf) => LineOf[i] \in Sample
    BY <1>2, <1>3, ElementOfSeq, SizeAssumption
  <2>. QED  BY <2>1, Samples
<1>7. Inv'
  <2>1. CASE n > 0
    BY <2>1, <1>1, <1>4, <1>5, <1>6, Unfolded, Folded
  <2>2. CASE ~(n > 0)
    BY <2>2, <1>1, <1>5, <1>6, Unfolded, Folded
  <2>. QED  BY <2>1, <2>2
<1>8. LineOf' = TheMixer!Skip(LineOf, n)
  <2>1. CASE n > 0
    BY <2>1, <1>1, <1>4 DEF LineOf, rb_read_all_iov, Unread
  <2>2. CASE ~(n > 0)
    <3>1. n = 0
      BY <2>2, <1>2
    <3>2. rb_read_upd(rb, 0) = rb
      BY <1>2, SizeAssumption DEF rb_read_upd, Least
    <3>3. LineOf = TheMixer!Skip(LineOf, 0)
      BY <3>2, Unfolded, SkipRead DEF LineOf
    <3>. QED  BY <3>1, <3>3, <2>2, <1>1 DEF LineOf, rb_read_all_iov, Unread
  <2>. QED  BY <2>1, <2>2
<1>9. TheMixer!Skip(LineOf, n) = TheMixer!Skip(LineOf, FrameSize)
  <2>1. CASE n = FrameSize
    BY <2>1
  <2>2. CASE n # FrameSize
    <3>1. n = rb.used /\ rb.used < FrameSize
      BY <2>2, <1>2
    <3>2. /\ SubSeq(LineOf, n + 1, rb.used) = <<>>
          /\ SubSeq(LineOf, FrameSize + 1, rb.used) = <<>>
      BY <3>1, <1>2, <1>3, SubSeqProperties, EmptySeq, SizeAssumption
    <3>. QED  BY <3>2, <1>3 DEF TheMixer!Skip
  <2>. QED  BY <2>1, <2>2
<1>10. PlaceOf' = [t \in Stream |-> TheMixer!Nearer(PlaceOf[t], FrameSize)]
  <2>1. ASSUME NEW t \in streams
        PROVE  stream'[t].used = TheMixer!Nearer(stream[t].used, FrameSize)
    <3>1. stream[t].used \in 0 .. rb.used
      BY <1>2, Unfolded, SizeAssumption DEF Places, PlaceAgrees
    <3>2. TheMixer!Nearer(stream[t].used, n) = TheMixer!Nearer(stream[t].used, FrameSize)
      BY <3>1, <1>2, SizeAssumption DEF TheMixer!Nearer, TheMixer!Greater
    <3>3. CASE n > 0
      BY <3>2, <3>3, <1>1, <1>4
    <3>4. CASE ~(n > 0)
      <4>1. stream[t].used = 0 /\ stream' = stream /\ FrameSize \in Nat
        BY <3>1, <3>4, <1>1, <1>2, SizeAssumption
      <4>2. TheMixer!Nearer(0, FrameSize) = 0
        BY <4>1 DEF TheMixer!Nearer, TheMixer!Greater
      <4>. QED  BY <4>1, <4>2
    <3>. QED  BY <3>3, <3>4
  <2>2. TheMixer!Nearer(0, FrameSize) = 0
    BY <1>2, SizeAssumption DEF TheMixer!Nearer, TheMixer!Greater
  <2>3. ASSUME NEW t \in Stream
        PROVE  (IF t \in streams' THEN stream'[t].used ELSE 0)
                  = TheMixer!Nearer(PlaceOf[t], FrameSize)
    BY <2>1, <2>2, <1>1 DEF PlaceOf
  <2>. QED  BY <2>3 DEF PlaceOf
<1>11. TheMixer!Hear
  BY <1>1, <1>5, <1>8, <1>9, <1>10 DEF TheMixer!Hear, LineOf, PlaceOf
<1>. QED  BY <1>7, <1>11

-----------------------------------------------------------------------------
(* The theorems                                                            *)

LEMMA Starts == Init => Inv /\ TheMixer!MixerInit
<1>. SUFFICES ASSUME Init PROVE Inv /\ TheMixer!MixerInit
  OBVIOUS
<1>1. /\ rb = [buffer |-> [p \in Positions |-> 0], used |-> 0, read |-> 0, write |-> 0]
      /\ streams = {} /\ stream = [s \in Stream |-> [used |-> 0, write |-> 0]] /\ heard = <<>>
  BY DEF Init, rb_init
<1>2. [p \in Positions |-> 0] \in [Positions -> Sample] /\ 0 \in Positions /\ 0 \in 0 .. Size
  BY Samples, SizeAssumption DEF Positions
<1>3. rb \in Rings /\ RingAgrees(rb)
  BY <1>1, <1>2, SizeAssumption DEF Rings, RingAgrees, Wrap
<1>4. stream \in [Stream -> Places]
  BY <1>1, <1>2 DEF Places
<1>5. Inv
  BY <1>1, <1>3, <1>4 DEF Inv, TypeOK, PositionsAgree, Rings, Places, RingAgrees
<1>6. LineOf = <<>>
  <2>1. LineOf \in Seq(Sample) /\ Len(LineOf) = 0
    BY <1>1, <1>3, ReadAll DEF LineOf
  <2>. QED  BY <2>1, EmptySeq
<1>7. TheMixer!MixerInit
  BY <1>1, <1>6 DEF TheMixer!MixerInit, LineOf
<1>. QED  BY <1>5, <1>7

LEMMA Steps ==
    Inv /\ [Next]_vars => Inv' /\ [TheMixer!MixerNext]_TheMixer!mixerVars
<1>. SUFFICES ASSUME Inv, [Next]_vars
              PROVE  Inv' /\ [TheMixer!MixerNext]_TheMixer!mixerVars
  OBVIOUS
<1>1. CASE mixb_init
  BY <1>1, InitStep DEF TheMixer!MixerNext
<1>2. CASE timing_write
  BY <1>2, HearStep DEF TheMixer!MixerNext
<1>3. ASSUME NEW s \in Stream, mixb_attach(s)
      PROVE  Inv' /\ TheMixer!MixerNext
  BY <1>3, AttachStep DEF TheMixer!MixerNext
<1>4. ASSUME NEW s \in Stream, mixb_detach(s)
      PROVE  Inv' /\ TheMixer!MixerNext
  BY <1>4, DetachStep DEF TheMixer!MixerNext
<1>5. ASSUME NEW s \in Stream, NEW data \in Frames, channel_write(s, data)
      PROVE  Inv' /\ TheMixer!MixerNext
  BY <1>5, SpeakStep DEF TheMixer!MixerNext
<1>6. CASE UNCHANGED vars
  <2>1. rb' = rb /\ streams' = streams /\ stream' = stream /\ heard' = heard
    BY <1>6 DEF vars
  <2>2. Inv'
    BY <2>1, Unfolded, HeardTyped, Folded
  <2>3. UNCHANGED TheMixer!mixerVars
    BY <2>1 DEF TheMixer!mixerVars, rb_read_all_iov, Unread
  <2>. QED  BY <2>2, <2>3
<1>. QED  BY <1>1, <1>2, <1>3, <1>4, <1>5, <1>6 DEF Next

LEMMA InvInvariant == Spec => []Inv
<1>1. Init => Inv
  BY Starts
<1>2. Inv /\ [Next]_vars => Inv'
  BY Steps
<1>. QED  BY <1>1, <1>2, PTL DEF Spec

\* Every position stays inside the buffer, of whatever size: the sum that is
\* wrapped (rb_write_*_iov, mixb_write) is right at its very end too.
THEOREM PositionsTyped == Spec => []TypeOK
<1>1. Inv => TypeOK
  BY DEF Inv
<1>. QED  BY <1>1, InvInvariant, PTL

\* Whatever the size of the buffer, the streams and what they write: no stream
\* is ahead of the buffer, and each writes as far behind the shared reading
\* position as it has used (mixb_attach, mixb_read_upd, mixb_write).
THEOREM PositionsAlwaysAgree == Spec => []PositionsAgree
<1>1. Inv => PositionsAgree
  BY DEF Inv
<1>. QED  BY <1>1, InvInvariant, PTL

\* The ring buffer with the positions of its streams is the one line of samples
\* of Mixer: whoever speaks is heard once, in order and mixed with what the
\* others put at the same place (channel_write, timing_write).
THEOREM MixBufferIsMixer == Spec => MixerSpec
<1>1. Init => Inv /\ TheMixer!MixerInit
  BY Starts
<1>2. Inv /\ [Next]_vars => Inv' /\ [TheMixer!MixerNext]_TheMixer!mixerVars
  BY Steps
<1>. QED  BY <1>1, <1>2, PTL DEF Spec, MixerSpec, TheMixer!MixerSpec

=============================================================================
