-------------------------- MODULE CallStory_proofs --------------------------
(***************************************************************************)
(* What a call context has to do with the modem's calls, for any number of *)
(* contexts, tasks, dialers and call indices.  For calls that come in, and *)
(* for calls that are placed: CallIdxUnique, NoZombies, HangupWillEndCall  *)
(* and, for those that are placed, OnlyDialedConnect.  Which faults they   *)
(* stand is said at the theorems.                                          *)
(*                                                                         *)
(* The idea is to look at the modem's calls as the monitor will: a call is *)
(* open when its ^ORIG was read, or its first +CLCC line may be, and its   *)
(* ^CEND was not.  The modem changes what is open only by an incoming      *)
(* call, the monitor only by reading ^ORIG and ^CEND, and a context stands *)
(* for an open call.                                                       *)
(***************************************************************************)
EXTENDS Calls_proofs

-----------------------------------------------------------------------------
(* The story of a call: ^ORIG, what else names the call, ^CEND             *)

\* What a result says of call i.
Begins(e, i) == e.res = "ORIG" /\ e.idx = i
Ends(e, i)   == e.res = "CEND" /\ e.idx = i
Tells(e, i)  == \/ e.res = "CONN" /\ e.idx = i
                \/ e.res = "CLCC" /\ i \in DOMAIN e.lines /\ i > e.idx

\* Whether there is a call i among the calls m.
There(m, i) == m[i].state # "none"

\* After the first k of the results ev were read call i is open: it will end,
\* or is there, and does not begin before.
Open(ev, m, k, i) ==
    \/ \E l \in k + 1 .. Len(ev) :
          Ends(ev[l], i) /\ \A j \in k + 1 .. l - 1 : ~Begins(ev[j], i)
    \/ There(m, i) /\ \A j \in k + 1 .. Len(ev) : ~Begins(ev[j], i)

\* A call that begins, or that something is said of, is open then.
Told(ev, m) ==
    \A k \in 1 .. Len(ev), i \in CallIdx :
       Begins(ev[k], i) \/ Tells(ev[k], i) => Open(ev, m, k, i)

\* One that ends is not.
Over(ev, m) ==
    \A k \in 1 .. Len(ev), i \in CallIdx : Ends(ev[k], i) => ~Open(ev, m, k, i)

\* The story goes on from ev and m to fv and n, as far as it was true: calls
\* stay open.
GoesOn(ev, m, fv, n) ==
    /\ Told(ev, m) => Told(fv, n)
    /\ \A i \in CallIdx : Open(ev, m, 0, i) => Open(fv, n, 0, i)

\* It goes on without a call that comes in: no other call is open.
GoesOnAlone(ev, m, fv, n) ==
    /\ GoesOn(ev, m, fv, n)
    /\ Over(ev, m) => Over(fv, n)
    /\ \A i \in CallIdx : Open(fv, n, 0, i) => Open(ev, m, 0, i)

LEMMA GoesOnTransitive ==
    ASSUME NEW ev, NEW m, NEW fv, NEW n, NEW gv, NEW o
    PROVE  /\ GoesOn(ev, m, fv, n) /\ GoesOn(fv, n, gv, o) => GoesOn(ev, m, gv, o)
           /\ GoesOnAlone(ev, m, fv, n) /\ GoesOnAlone(fv, n, gv, o)
              => GoesOnAlone(ev, m, gv, o)
BY DEF GoesOn, GoesOnAlone

\* Only which calls are there counts.
LEMMA SameThere ==
    ASSUME NEW ev, NEW m, NEW n, \A i \in CallIdx : There(m, i) = There(n, i)
    PROVE  GoesOnAlone(ev, m, ev, n)
<1>1. \A k, i : i \in CallIdx => (Open(ev, m, k, i) <=> Open(ev, n, k, i))
  BY DEF Open
<1>. QED  BY <1>1 DEF GoesOnAlone, GoesOn, Told, Over

\* A call comes in.
LEMMA MoreThere ==
    ASSUME NEW ev, NEW m, NEW n, \A i \in CallIdx : There(m, i) => There(n, i)
    PROVE  GoesOn(ev, m, ev, n)
<1>1. \A k, i : i \in CallIdx /\ Open(ev, m, k, i) => Open(ev, n, k, i)
  BY DEF Open
<1>. QED  BY <1>1 DEF GoesOn, Told

\* Appending a result.
LEMMA AppendedAt ==
    ASSUME NEW ev \in Seq(Results), NEW e \in Results
    PROVE  /\ Len(Append(ev, e)) = Len(ev) + 1 /\ Len(ev) \in Nat
           /\ \A k \in 1 .. Len(ev) : Append(ev, e)[k] = ev[k]
           /\ Append(ev, e)[Len(ev) + 1] = e
           /\ Append(ev, e) = ev \o <<e>>
           /\ Append(ev, e) \in Seq(Results)
OBVIOUS

\* A result that neither begins nor ends a call.
LEMMA SaidQuietly ==
    ASSUME NEW ev \in Seq(Results), NEW m, NEW e \in Results, e.res \notin {"ORIG", "CEND"},
           \A i \in CallIdx : Tells(e, i) => There(m, i)
    PROVE  GoesOnAlone(ev, m, Append(ev, e), m)
<1>. DEFINE fv == Append(ev, e)
            n == Len(ev)
<1>1. /\ n \in Nat /\ Len(fv) = n + 1 /\ fv[n + 1] = e
      /\ \A k \in 1 .. n : fv[k] = ev[k]
  BY AppendedAt
<1>2. \A i : ~Begins(e, i) /\ ~Ends(e, i)
  BY DEF Begins, Ends
<1>. HIDE DEF fv
<1>3. ASSUME NEW k \in 0 .. n, NEW i \in CallIdx
      PROVE  Open(fv, m, k, i) <=> Open(ev, m, k, i)
  <2>1. \A l \in k + 1 .. n + 1 : \/ l \in k + 1 .. n /\ fv[l] = ev[l]
                                  \/ l = n + 1 /\ fv[l] = e
    BY <1>1
  <2>2. \A l \in k + 1 .. n : l \in k + 1 .. n + 1 /\ fv[l] = ev[l]
    BY <1>1
  <2>3. \A l \in k + 1 .. n : \A j \in k + 1 .. l - 1 : j \in k + 1 .. n
    BY <1>1
  <2>4. n + 1 \in k + 1 .. n + 1
    BY <1>1
  <2>. HIDE DEF n
  <2>5. Open(ev, m, k, i) => Open(fv, m, k, i)
    BY <1>1, <1>2, <2>1, <2>2, <2>3 DEF Open, n
  <2>6. Open(fv, m, k, i) => Open(ev, m, k, i)
    BY <1>1, <1>2, <2>1, <2>2, <2>3 DEF Open, n
  <2>. QED  BY <2>5, <2>6
<1>4. ASSUME NEW i \in CallIdx PROVE Open(fv, m, n + 1, i) <=> There(m, i)
  BY <1>1 DEF Open
<1>5. \A k \in 1 .. n + 1 : (k \in 1 .. n /\ fv[k] = ev[k]) \/ (k = n + 1 /\ fv[k] = e)
  BY <1>1
<1>6. Told(ev, m) => Told(fv, m)
  BY <1>1, <1>2, <1>3, <1>4, <1>5 DEF Told
<1>7. Over(ev, m) => Over(fv, m)
  BY <1>1, <1>2, <1>3, <1>5 DEF Over
<1>. QED  BY <1>1, <1>3, <1>6, <1>7 DEF GoesOnAlone, GoesOn, fv

\* ^ORIG of a call that was not there.
LEMMA SaidBegins ==
    ASSUME NEW ev \in Seq(Results), NEW m, NEW n, NEW e \in Results, NEW x \in CallIdx,
           e.res = "ORIG", e.idx = x, ~There(m, x), There(n, x),
           \A i \in CallIdx : i # x => There(n, i) = There(m, i)
    PROVE  GoesOnAlone(ev, m, Append(ev, e), n)
<1>. DEFINE fv == Append(ev, e)
            z == Len(ev)
<1>1. /\ z \in Nat /\ Len(fv) = z + 1 /\ fv[z + 1] = e
      /\ \A k \in 1 .. z : fv[k] = ev[k]
  BY AppendedAt
<1>2. \A i : ~Ends(e, i) /\ ~Tells(e, i) /\ (Begins(e, i) <=> i = x)
  BY DEF Begins, Ends, Tells
<1>. HIDE DEF fv
<1>3. ASSUME NEW k \in 0 .. z, NEW i \in CallIdx
      PROVE  Open(fv, n, k, i) <=> Open(ev, m, k, i)
  <2>1. \A l \in k + 1 .. z + 1 : \/ l \in k + 1 .. z /\ fv[l] = ev[l]
                                  \/ l = z + 1 /\ fv[l] = e
    BY <1>1
  <2>2. \A l \in k + 1 .. z : l \in k + 1 .. z + 1 /\ fv[l] = ev[l]
    BY <1>1
  <2>3. \A l \in k + 1 .. z : \A j \in k + 1 .. l - 1 : j \in k + 1 .. z
    BY <1>1
  <2>4. z + 1 \in k + 1 .. z + 1
    BY <1>1
  <2>. HIDE DEF z
  <2>5. Open(ev, m, k, i) => Open(fv, n, k, i)
    BY <1>1, <1>2, <2>1, <2>2, <2>3 DEF Open, z
  <2>6. Open(fv, n, k, i) => Open(ev, m, k, i)
    BY <1>1, <1>2, <2>1, <2>2, <2>3, <2>4 DEF Open, z
  <2>. QED  BY <2>5, <2>6
<1>4. Open(fv, n, z + 1, x)
  BY <1>1 DEF Open
<1>5. \A k \in 1 .. z + 1 : (k \in 1 .. z /\ fv[k] = ev[k]) \/ (k = z + 1 /\ fv[k] = e)
  BY <1>1
<1>6. Told(ev, m) => Told(fv, n)
  BY <1>1, <1>2, <1>3, <1>4, <1>5 DEF Told
<1>7. Over(ev, m) => Over(fv, n)
  BY <1>1, <1>2, <1>3, <1>5 DEF Over
<1>. QED  BY <1>1, <1>3, <1>6, <1>7 DEF GoesOnAlone, GoesOn, fv

\* ^CEND of a call that was there.
LEMMA SaidEnds ==
    ASSUME NEW ev \in Seq(Results), NEW m, NEW n, NEW e \in Results, NEW x \in CallIdx,
           e.res = "CEND", e.idx = x, There(m, x), ~There(n, x),
           \A i \in CallIdx : i # x => There(n, i) = There(m, i)
    PROVE  GoesOnAlone(ev, m, Append(ev, e), n)
<1>. DEFINE fv == Append(ev, e)
            z == Len(ev)
<1>1. /\ z \in Nat /\ Len(fv) = z + 1 /\ fv[z + 1] = e
      /\ \A k \in 1 .. z : fv[k] = ev[k]
  BY AppendedAt
<1>2. \A i : ~Begins(e, i) /\ ~Tells(e, i) /\ (Ends(e, i) <=> i = x)
  BY DEF Begins, Ends, Tells
<1>. HIDE DEF fv
<1>3. ASSUME NEW k \in 0 .. z, NEW i \in CallIdx
      PROVE  Open(fv, n, k, i) <=> Open(ev, m, k, i)
  <2>1. \A l \in k + 1 .. z + 1 : \/ l \in k + 1 .. z /\ fv[l] = ev[l]
                                  \/ l = z + 1 /\ fv[l] = e
    BY <1>1
  <2>2. \A l \in k + 1 .. z : l \in k + 1 .. z + 1 /\ fv[l] = ev[l]
    BY <1>1
  <2>3. /\ \A l \in k + 1 .. z : \A j \in k + 1 .. l - 1 : j \in k + 1 .. z
        /\ z + 1 - 1 = z
    BY <1>1
  <2>4. z + 1 \in k + 1 .. z + 1
    BY <1>1
  <2>. HIDE DEF z
  <2>5. Open(ev, m, k, i) => Open(fv, n, k, i)
    BY <1>1, <1>2, <2>1, <2>2, <2>3, <2>4 DEF Open, z
  <2>6. Open(fv, n, k, i) => Open(ev, m, k, i)
    BY <1>1, <1>2, <2>1, <2>2, <2>3, <2>4 DEF Open, z
  <2>. QED  BY <2>5, <2>6
<1>4. ~Open(fv, n, z + 1, x)
  BY <1>1 DEF Open
<1>5. \A k \in 1 .. z + 1 : (k \in 1 .. z /\ fv[k] = ev[k]) \/ (k = z + 1 /\ fv[k] = e)
  BY <1>1
<1>6. Told(ev, m) => Told(fv, n)
  BY <1>1, <1>2, <1>3, <1>5 DEF Told
<1>7. Over(ev, m) => Over(fv, n)
  BY <1>1, <1>2, <1>3, <1>4, <1>5 DEF Over
<1>. QED  BY <1>1, <1>3, <1>6, <1>7 DEF GoesOnAlone, GoesOn, fv

\* Reading the first result.
LEMMA ReadAt ==
    ASSUME NEW ev \in Seq(Results), ev # <<>>
    PROVE  /\ Len(ev) \in Nat \ {0} /\ Len(Tail(ev)) = Len(ev) - 1
           /\ \A k \in 1 .. Len(ev) - 1 : Tail(ev)[k] = ev[k + 1]
           /\ Head(ev) = ev[1] /\ ev[1] \in Results
           /\ Tail(ev) \in Seq(Results)
OBVIOUS

LEMMA ReadOpen ==
    ASSUME NEW ev \in Seq(Results), ev # <<>>, NEW m, NEW k \in 0 .. Len(ev) - 1, NEW i
    PROVE  Open(Tail(ev), m, k, i) <=> Open(ev, m, k + 1, i)
<1>. DEFINE fv == Tail(ev)
            z == Len(ev)
<1>1. /\ z \in Nat \ {0} /\ Len(fv) = z - 1
      /\ \A l \in 1 .. z - 1 : fv[l] = ev[l + 1]
  BY ReadAt
<1>. HIDE DEF fv
<1>2. /\ \A l \in k + 1 .. z - 1 : l + 1 \in k + 1 + 1 .. z /\ fv[l] = ev[l + 1]
      /\ \A l \in k + 1 + 1 .. z : l - 1 \in k + 1 .. z - 1 /\ fv[l - 1] = ev[l]
  BY <1>1
<1>3. ASSUME NEW l \in k + 1 .. z - 1
      PROVE  /\ \A j \in k + 1 .. l - 1 : j + 1 \in k + 1 + 1 .. l + 1 - 1 /\ fv[j] = ev[j + 1]
             /\ \A j \in k + 1 + 1 .. l + 1 - 1 : j - 1 \in k + 1 .. l - 1 /\ fv[j - 1] = ev[j]
  BY <1>1
<1>4. ASSUME NEW l \in k + 1 .. z - 1
      PROVE  (\A j \in k + 1 .. l - 1 : ~Begins(fv[j], i))
             <=> (\A j \in k + 1 + 1 .. l + 1 - 1 : ~Begins(ev[j], i))
  BY <1>3
<1>5. (\A j \in k + 1 .. z - 1 : ~Begins(fv[j], i))
      <=> (\A j \in k + 1 + 1 .. z : ~Begins(ev[j], i))
  BY <1>2
<1>6. (\E l \in k + 1 .. z - 1 : Ends(fv[l], i) /\ \A j \in k + 1 .. l - 1 : ~Begins(fv[j], i))
      => \E l \in k + 1 + 1 .. z : Ends(ev[l], i) /\ \A j \in k + 1 + 1 .. l - 1 : ~Begins(ev[j], i)
  BY <1>2, <1>4
<1>7. ASSUME NEW l \in k + 1 + 1 .. z, Ends(ev[l], i),
             \A j \in k + 1 + 1 .. l - 1 : ~Begins(ev[j], i)
      PROVE  \E h \in k + 1 .. z - 1 : Ends(fv[h], i) /\ \A j \in k + 1 .. h - 1 : ~Begins(fv[j], i)
  <2>1. l - 1 \in k + 1 .. z - 1 /\ fv[l - 1] = ev[l] /\ (l - 1) + 1 - 1 = l - 1
    BY <1>1, <1>2
  <2>. QED  BY <1>4, <1>7, <2>1
<1>. QED  BY <1>1, <1>5, <1>6, <1>7 DEF Open, fv

LEMMA ReadOn ==
    ASSUME NEW ev \in Seq(Results), ev # <<>>, NEW m
    PROVE  /\ Told(ev, m) => Told(Tail(ev), m)
           /\ Over(ev, m) => Over(Tail(ev), m)
<1>1. /\ Len(ev) \in Nat \ {0} /\ Len(Tail(ev)) = Len(ev) - 1
      /\ \A k \in 1 .. Len(ev) - 1 : Tail(ev)[k] = ev[k + 1] /\ k + 1 \in 1 .. Len(ev)
  BY ReadAt
<1>2. \A k \in 1 .. Len(ev) - 1, i \in CallIdx :
         Open(Tail(ev), m, k, i) <=> Open(ev, m, k + 1, i)
  BY <1>1, ReadOpen
<1>. QED  BY <1>1, <1>2 DEF Told, Over

\* What the first result tells of a call, and what it changes.
LEMMA ReadFirst ==
    ASSUME NEW ev \in Seq(Results), ev # <<>>, NEW m, NEW i \in CallIdx
    PROVE  /\ ~Begins(ev[1], i) /\ ~Ends(ev[1], i)
              => (Open(Tail(ev), m, 0, i) <=> Open(ev, m, 0, i))
           /\ Begins(ev[1], i) => ~Open(ev, m, 0, i)
           /\ Told(ev, m) /\ (Begins(ev[1], i) \/ Tells(ev[1], i)) => Open(Tail(ev), m, 0, i)
           /\ Over(ev, m) /\ Ends(ev[1], i) => ~Open(Tail(ev), m, 0, i)
<1>. DEFINE z == Len(ev)
<1>1. z \in Nat \ {0} /\ 1 \in 1 .. z
  BY ReadAt
<1>2. Open(Tail(ev), m, 0, i) <=> Open(ev, m, 1, i)
  <2>1. Open(Tail(ev), m, 0, i) <=> Open(ev, m, 0 + 1, i)
    BY <1>1, ReadOpen
  <2>. QED  BY <2>1
<1>3. /\ \A l \in 0 + 1 .. z : l = 1 \/ l \in 1 + 1 .. z
      /\ \A l \in 1 + 1 .. z : l \in 0 + 1 .. z /\ 1 \in 0 + 1 .. l - 1
      /\ \A l : \A j \in 0 + 1 .. l - 1 : j = 1 \/ j \in 1 + 1 .. l - 1
      /\ \A l : \A j \in 1 + 1 .. l - 1 : j \in 0 + 1 .. l - 1
      /\ 1 \in 0 + 1 .. z /\ 0 + 1 .. 1 - 1 = {}
  BY <1>1
<1>4. ASSUME ~Begins(ev[1], i), ~Ends(ev[1], i)
      PROVE  Open(ev, m, 1, i) <=> Open(ev, m, 0, i)
  <2>1. ASSUME NEW l
        PROVE  (\A j \in 0 + 1 .. l - 1 : ~Begins(ev[j], i)) <=> (\A j \in 1 + 1 .. l - 1 : ~Begins(ev[j], i))
    BY <1>3, <1>4
  <2>2. (\A j \in 0 + 1 .. z : ~Begins(ev[j], i)) <=> (\A j \in 1 + 1 .. z : ~Begins(ev[j], i))
    BY <1>3, <1>4
  <2>. QED  BY <1>3, <1>4, <2>1, <2>2 DEF Open
<1>5. ASSUME Begins(ev[1], i) PROVE ~Open(ev, m, 0, i)
  <2>1. ~Ends(ev[1], i)
    BY <1>5 DEF Begins, Ends
  <2>. QED  BY <1>3, <1>5, <2>1 DEF Open
<1>6. Told(ev, m) /\ (Begins(ev[1], i) \/ Tells(ev[1], i)) => Open(ev, m, 1, i)
  BY <1>1 DEF Told
<1>7. Over(ev, m) /\ Ends(ev[1], i) => ~Open(ev, m, 1, i)
  BY <1>1 DEF Over
<1>. QED  BY <1>2, <1>4, <1>5, <1>6, <1>7

\* The results when the line of call n was read.
LineOff(ev, n) == [ev EXCEPT ![1].idx = n]

\* A line of +CLCC is read, and lines are left.
LEMMA LineRead ==
    ASSUME NEW ev \in Seq(Results), ev # <<>>, ev[1].res = "CLCC", NEW m,
           NEW n \in CallIdx, n > ev[1].idx
    PROVE  LET fv == LineOff(ev, n)
           IN  /\ Len(fv) = Len(ev) /\ fv[1].res = "CLCC" /\ fv[1].lines = ev[1].lines
               /\ \A k \in 1 .. Len(ev) : k # 1 => fv[k] = ev[k]
               /\ \A k, i : Open(fv, m, k, i) <=> Open(ev, m, k, i)
               /\ Told(ev, m) => Told(fv, m)
               /\ Over(ev, m) => Over(fv, m)
<1>. DEFINE fv == LineOff(ev, n)
            z == Len(ev)
            h == [ev[1] EXCEPT !.idx = n]
<1>1. z \in Nat \ {0} /\ 1 \in 1 .. z /\ DOMAIN ev = 1 .. z /\ ev[1] \in Results
  BY ReadAt
<1>2. fv = [ev EXCEPT ![1] = h]
  BY <1>1 DEF LineOff
<1>. HIDE DEF fv
<1>3. DOMAIN fv = 1 .. z /\ fv[1] = h /\ \A k \in 1 .. z : k # 1 => fv[k] = ev[k]
  BY <1>1, <1>2
<1>4. fv \in [1 .. z -> {h} \union Results]
  BY <1>1, <1>2, <1>3
<1>5. Len(fv) = z
  BY <1>1, <1>4
<1>6. h.res = "CLCC" /\ h.idx = n /\ h.lines = ev[1].lines
  BY <1>1 DEF Results
<1>. HIDE DEF h
<1>7. \A i : ~Begins(h, i) /\ ~Ends(h, i) /\ ~Begins(ev[1], i) /\ ~Ends(ev[1], i)
  BY <1>6 DEF Begins, Ends
<1>8. \A i \in CallIdx : Tells(h, i) => Tells(ev[1], i)
  <2>1. ev[1].idx \in 0 .. MaxCallIdx
    BY <1>1 DEF Results
  <2>. QED  BY <1>6, <2>1, CallIdxAssumption DEF Tells, CallIdx
<1>9. ASSUME NEW k, NEW i
      PROVE  Open(fv, m, k, i) <=> Open(ev, m, k, i)
  <2>1. \A l \in k + 1 .. z : (Ends(fv[l], i) <=> Ends(ev[l], i)) /\ (Begins(fv[l], i) <=> Begins(ev[l], i))
    <3>. SUFFICES ASSUME NEW l \in k + 1 .. z
                  PROVE  /\ Ends(fv[l], i) <=> Ends(ev[l], i)
                         /\ Begins(fv[l], i) <=> Begins(ev[l], i)
      OBVIOUS
    <3>1. CASE l = 1
      BY <1>3, <1>7, <3>1
    <3>2. CASE l \in 1 .. z /\ l # 1
      BY <1>3, <3>2
    <3>3. CASE l \notin 1 .. z
      <4>1. fv[l] = ev[l]
        BY <1>2, <3>3
      <4>. QED  BY <4>1
    <3>. QED  BY <3>1, <3>2, <3>3
  <2>. QED  BY <1>5, <2>1 DEF Open
<1>10. Told(ev, m) => Told(fv, m)
  BY <1>1, <1>3, <1>5, <1>7, <1>8, <1>9 DEF Told
<1>11. Over(ev, m) => Over(fv, m)
  BY <1>1, <1>3, <1>5, <1>7, <1>9 DEF Over
<1>. QED  BY <1>3, <1>5, <1>6, <1>9, <1>10, <1>11 DEF fv

-----------------------------------------------------------------------------
(* What a step of the modem says                                           *)

\* A result that neither begins nor ends a call of m and answers no command.
Chats(e, m) ==
    /\ e \in Results /\ e.res \in {"CONN", "RING", "CCWA", "CLCC"}
    /\ \A i \in CallIdx : Tells(e, i) => There(m, i)
    /\ \A i \in DOMAIN e.lines : e.lines[i].idx = i /\ There(m, i) /\ e.lines[i].dir = m[i].dir

\* The calls m and n, which may be in other states.
SameOnes(m, n) == \A i \in CallIdx : There(n, i) = There(m, i) /\ n[i].dir = m[i].dir

\* Something is told, or nothing.
Chatted ==
    /\ SameOnes(mcall, mcall') /\ UNCHANGED mdial
    /\ \/ UNCHANGED events
       \/ \E e : Chats(e, mcall) /\ events' = Append(events, e)

\* The answer a before or after something else.
SaysWith(e, a) ==
    /\ Chats(e, mcall)
    /\ \/ events' = Append(Append(events, e), a)
       \/ events' = Append(Append(events, a), e)

\* The head command is answered, by OK or ERROR among what is told.
Answered(a) ==
    /\ Working(at_cmd_t)
    /\ \/ a = OK
       \/ a = ERROR /\ \/ "refuse" \in Faults
                       \/ at_queue_head_cmd(pvt).cmd \in {"A", "D", "CHLD_2x", "CHLD_2"}
    /\ SameOnes(mcall, mcall') /\ (mdial' => mdial)
    /\ events' = Append(events, a) \/ \E e : SaysWith(e, a)

DialTaken ==
    /\ Working({"D"})
    /\ events' = Append(events, OK)
    /\ ~mdial /\ mdial' /\ UNCHANGED mcall

CallBegun(x) ==
    /\ mdial /\ ~mdial'
    /\ events' = Append(events, Event("ORIG", x))
    /\ ~There(mcall, x) /\ There(mcall', x) /\ mcall'[x].dir = "outgoing"
    /\ \A i \in CallIdx : i # x => mcall'[i] = mcall[i]

CallOver(x) ==
    /\ UNCHANGED mdial
    /\ There(mcall, x) /\ mcall'[x] = NoCall
    /\ \A i \in CallIdx : i # x => mcall'[i] = mcall[i]
    /\ \/ events' = Append(events, Event("CEND", x))
       \/ "silent" \in Faults /\ UNCHANGED events

CallComes(x) ==
    /\ "incoming" \in Features
    /\ UNCHANGED mdial
    /\ There(mcall', x) /\ mcall'[x].dir = "incoming"
    /\ \A i \in CallIdx : i # x => mcall'[i] = mcall[i]
    /\ \E e : Chats(e, mcall) /\ events' = Append(events, e)

LEMMA SaysWithAnswers ==
    ASSUME NEW e, NEW a, SaysWith(e, a)
    PROVE  \E d : SaysWith(d, a)
OBVIOUS

LEMMA SaidTwice ==
    ASSUME NEW ev \in Seq(Results), NEW a \in Results, NEW b \in Results
    PROVE  /\ ev \o <<a>> = Append(ev, a) /\ ev \o <<>> = ev
           /\ ev \o <<a, b>> = Append(Append(ev, a), b)
OBVIOUS

LEMMA ChatEvents ==
    /\ \A i \in CallIdx : There(mcall, i) => Chats(Event("CONN", i), mcall)
    /\ Chats(Event("RING", 0), mcall) /\ Chats(Event("CCWA", 0), mcall)
<1>1. \A res, i : /\ Event(res, i).res = res /\ Event(res, i).idx = i
                  /\ DOMAIN Event(res, i).lines = {}
  BY DEF Event
<1>. QED  BY <1>1, EventType DEF Chats, Tells

\* Calls that are moved from states to others stay.
LEMMA MovedSame ==
    ASSUME mcall \in Mcalls, NEW S, "none" \notin S, NEW becomes \in [S -> McallStates \ {"none"}]
    PROVE  SameOnes(mcall, Moved(becomes))
<1>1. ASSUME NEW i \in CallIdx
      PROVE  There(Moved(becomes), i) = There(mcall, i) /\ Moved(becomes)[i].dir = mcall[i].dir
  <2>1. mcall[i] \in [state : McallStates, dir : {"outgoing", "incoming"}]
    BY DEF Mcalls
  <2>2. Moved(becomes)[i] = IF mcall[i].state \in S
                            THEN [mcall[i] EXCEPT !.state = becomes[mcall[i].state]] ELSE mcall[i]
    BY DEF Moved
  <2>3. CASE mcall[i].state \in S
    <3>1. becomes[mcall[i].state] # "none" /\ mcall[i].state # "none"
      BY <2>3
    <3>. QED  BY <2>1, <2>2, <2>3, <3>1 DEF There
  <2>4. CASE mcall[i].state \notin S
    BY <2>2, <2>4 DEF There
  <2>. QED  BY <2>3, <2>4
<1>. QED  BY <1>1 DEF SameOnes

LEMMA WithSame ==
    ASSUME NEW m \in Mcalls, NEW x \in CallIdx, There(m, x), NEW s \in McallStates \ {"none"},
           NEW n, n = [m EXCEPT ![x].state = s]
    PROVE  SameOnes(m, n) /\ \A i \in CallIdx : i # x => n[i] = m[i]
<1>1. m[x] \in [state : McallStates, dir : {"outgoing", "incoming"}]
  BY DEF Mcalls
<1>2. n = [m EXCEPT ![x] = [m[x] EXCEPT !.state = s]]
  BY DEF Mcalls
<1>3. /\ n[x] = [m[x] EXCEPT !.state = s]
      /\ \A i \in CallIdx : i # x => n[i] = m[i]
  BY <1>2 DEF Mcalls
<1>. QED  BY <1>1, <1>3 DEF SameOnes, There

LEMMA SameOnesTransitive ==
    ASSUME NEW m, NEW n, NEW o
    PROVE  SameOnes(m, m) /\ (SameOnes(m, n) /\ SameOnes(n, o) => SameOnes(m, o))
BY DEF SameOnes

LEMMA ModemKinds ==
    ASSUME ModemOK, ModemNext
    PROVE  \/ ModemResets
           \/ /\ UNCHANGED <<pvt, threads, conn>> /\ conn = "up"
              /\ \/ Chatted \/ Answered(OK) \/ Answered(ERROR) \/ DialTaken
                 \/ \E x \in CallIdx : CallBegun(x) \/ CallOver(x) \/ CallComes(x)
<1>1. /\ mcall \in Mcalls /\ events \in Seq(Results) /\ mdial \in BOOLEAN
      /\ OK \in Results /\ ERROR \in Results
      /\ \A i \in CallIdx, res \in {"ORIG", "CEND", "CONN"} : Event(res, i) \in Results
      /\ Event("RING", 0) \in Results /\ Event("CCWA", 0) \in Results
  BY EventType DEF ModemOK, Mcalls
<1>2. \A s \in {"ENDING", "DIALING", "ALERTING", "ACTIVE", "ONHOLD", "INCOMING", "WAITING"} :
         s \in McallStates \ {"none"}
  BY DEF McallStates, call_state_t
<1>3. \A cmds : Working(cmds) => conn = "up"
  BY DEF Working
<1>4. \A cmds \in SUBSET at_cmd_t : Working(cmds) => Working(at_cmd_t)
  BY DEF Working
<1>5. \A results : Says(results) => /\ events' = events \o results
                                    /\ UNCHANGED <<pvt, threads, conn>>
  BY DEF Says
<1>6. \A a \in Results, b \in Results :
         /\ events \o <<a>> = Append(events, a) /\ events \o <<>> = events
         /\ events \o <<a, b>> = Append(Append(events, a), b)
  BY <1>1, SaidTwice
<1>7. SameOnes(mcall, mcall)
  BY DEF SameOnes
<1>8. ASSUME ModemRefuses \/ ModemSetsSomething
      PROVE  (Answered(OK) \/ Answered(ERROR)) /\ UNCHANGED <<pvt, threads, conn>> /\ conn = "up"
  <2>1. {"AT", "CLIR", "DDSETEX"} \in SUBSET at_cmd_t
    BY DEF at_cmd_t
  <2>2. UNCHANGED <<mcall, mdial>>
    BY <1>8 DEF ModemRefuses, ModemSetsSomething, modem
  <2>. QED  BY <1>1, <1>3, <1>4, <1>5, <1>6, <1>7, <1>8, <2>1, <2>2
            DEF ModemRefuses, ModemSetsSomething, Answered
<1>9. ASSUME ModemDials
      PROVE  /\ Answered(ERROR) \/ DialTaken
             /\ UNCHANGED <<pvt, threads, conn>> /\ conn = "up"
  <2>1. {"D"} \in SUBSET at_cmd_t
    BY DEF at_cmd_t
  <2>2. Working({"D"}) /\ UNCHANGED mcall /\ at_queue_head_cmd(pvt).cmd = "D"
    BY <1>9 DEF ModemDials, Working
  <2>3. CASE CanDial
    <3>1. Says(<<OK>>) /\ ~mdial /\ mdial'
      BY <1>1, <1>9, <2>3 DEF ModemDials, CanDial
    <3>. QED  BY <1>1, <1>3, <1>5, <1>6, <2>2, <3>1 DEF DialTaken
  <2>4. CASE ~CanDial
    <3>1. Says(<<ERROR>>) /\ (mdial' => mdial)
      BY <1>1, <1>9, <2>4 DEF ModemDials
    <3>. QED  BY <1>1, <1>3, <1>4, <1>5, <1>6, <1>7, <2>1, <2>2, <3>1 DEF Answered
  <2>. QED  BY <2>3, <2>4
<1>10. ASSUME ModemAccepts
       PROVE  /\ Answered(OK) \/ Answered(ERROR)
              /\ UNCHANGED <<pvt, threads, conn>> /\ conn = "up"
  <2>1. {"A"} \in SUBSET at_cmd_t
    BY DEF at_cmd_t
  <2>2. Working({"A"}) /\ UNCHANGED mdial /\ at_queue_head_cmd(pvt).cmd = "A"
    BY <1>10 DEF ModemAccepts, Working
  <2>3. CASE Says(<<ERROR>>) /\ UNCHANGED mcall
    BY <1>1, <1>3, <1>4, <1>5, <1>6, <1>7, <2>1, <2>2, <2>3 DEF Answered
  <2>4. ASSUME NEW i \in ModemCalls({"INCOMING"}), mcall' = With(i, "ACTIVE"),
               Says(<<Event("CONN", i), OK>>) \/ Says(<<OK, Event("CONN", i)>>)
        PROVE  Answered(OK) /\ UNCHANGED <<pvt, threads, conn>>
    <3>1. i \in CallIdx /\ There(mcall, i)
      BY DEF ModemCalls, There
    <3>2. SameOnes(mcall, mcall')
      BY <1>1, <1>2, <2>4, <3>1, WithSame DEF With
    <3>3. Chats(Event("CONN", i), mcall) /\ Event("CONN", i) \in Results
      BY <1>1, <3>1, ChatEvents
    <3>4. SaysWith(Event("CONN", i), OK)
      BY <1>1, <1>5, <1>6, <2>4, <3>3 DEF SaysWith
    <3>. QED  BY <1>4, <1>5, <2>1, <2>2, <2>4, <3>2, <3>4, SaysWithAnswers DEF Answered
  <2>. QED  BY <1>3, <1>10, <2>2, <2>3, <2>4 DEF ModemAccepts
<1>11. ASSUME ModemHangsUp \/ ModemJoins \/ ModemSwaps
       PROVE  /\ Answered(OK) \/ Answered(ERROR)
              /\ UNCHANGED <<pvt, threads, conn>> /\ conn = "up"
  <2>1. /\ {"CHUP"} \in SUBSET at_cmd_t /\ {"CHLD_2"} \in SUBSET at_cmd_t
        /\ {"CHLD_3"} \in SUBSET at_cmd_t
    BY DEF at_cmd_t
  <2>2. SameOnes(mcall, mcall')
    <3>1. CASE ModemHangsUp
      <4>. DEFINE S == {"DIALING", "ALERTING", "ACTIVE", "INCOMING"}
                  becomes == [s \in S |-> "ENDING"]
      <4>1. becomes \in [S -> McallStates \ {"none"}] /\ "none" \notin S
        BY <1>2
      <4>2. mcall' = Moved(becomes)
        BY <3>1 DEF ModemHangsUp
      <4>. HIDE DEF S, becomes
      <4>. QED  BY <1>1, <4>1, <4>2, MovedSame
    <3>2. CASE ModemJoins
      <4>. DEFINE S == {"ONHOLD"}
                  becomes == [s \in S |-> "ACTIVE"]
      <4>1. becomes \in [S -> McallStates \ {"none"}] /\ "none" \notin S
        BY <1>2
      <4>2. mcall' = Moved(becomes)
        BY <3>2 DEF ModemJoins
      <4>. HIDE DEF S, becomes
      <4>. QED  BY <1>1, <4>1, <4>2, MovedSame
    <3>3. CASE ModemSwaps
      <4>. DEFINE S == {"ACTIVE", "ONHOLD"}
                  becomes == [s \in S |-> IF s = "ACTIVE" THEN "ONHOLD" ELSE "ACTIVE"]
      <4>1. becomes \in [S -> McallStates \ {"none"}] /\ "none" \notin S
        BY <1>2
      <4>2. mcall' = Moved(becomes)
        BY <3>3 DEF ModemSwaps
      <4>. HIDE DEF S, becomes
      <4>. QED  BY <1>1, <4>1, <4>2, MovedSame
    <3>. QED  BY <1>11, <3>1, <3>2, <3>3
  <2>3. mdial' => mdial
    BY <1>11 DEF ModemHangsUp, ModemJoins, ModemSwaps
  <2>4. /\ Working(at_cmd_t)
        /\ \/ Says(<<OK>>)
           \/ Says(<<ERROR>>) /\ at_queue_head_cmd(pvt).cmd = "CHLD_2"
    BY <1>4, <1>11, <2>1 DEF ModemHangsUp, ModemJoins, ModemSwaps, Working
  <2>. QED  BY <1>1, <1>3, <1>5, <1>6, <2>2, <2>3, <2>4 DEF Answered
<1>12. ASSUME ModemTakesUp
       PROVE  /\ Answered(OK) \/ Answered(ERROR)
              /\ UNCHANGED <<pvt, threads, conn>> /\ conn = "up"
  <2>. DEFINE S == {"ACTIVE"}
              becomes == [s \in S |-> "ONHOLD"]
              n == Moved(becomes)
  <2>1. {"CHLD_2x"} \in SUBSET at_cmd_t
    BY DEF at_cmd_t
  <2>2. Working({"CHLD_2x"}) /\ UNCHANGED mdial /\ at_queue_head_cmd(pvt).cmd = "CHLD_2x"
    BY <1>12 DEF ModemTakesUp, Working
  <2>3. \/ Says(<<ERROR>>) /\ UNCHANGED mcall
        \/ \E i \in CommandIdx \intersect ModemCalls({"WAITING", "ONHOLD"}) :
              /\ mcall' = [n EXCEPT ![i].state = "ACTIVE"]
              /\ \/ Says(<<OK>>)
                 \/ Says(<<Event("CONN", i), OK>>) \/ Says(<<OK, Event("CONN", i)>>)
    BY <1>12 DEF ModemTakesUp
  <2>4. becomes \in [S -> McallStates \ {"none"}] /\ "none" \notin S
    BY <1>2
  <2>. HIDE DEF S, becomes
  <2>5. SameOnes(mcall, n)
    BY <1>1, <2>4, MovedSame
  <2>6. n \in Mcalls
    <3>1. becomes \in [S -> McallStates]
      BY <2>4
    <3>. QED  BY <1>1, <3>1, MovedType
  <2>. HIDE DEF n
  <2>7. CASE Says(<<ERROR>>) /\ UNCHANGED mcall
    BY <1>1, <1>3, <1>4, <1>5, <1>6, <1>7, <2>1, <2>2, <2>7 DEF Answered
  <2>8. ASSUME NEW i \in CommandIdx \intersect ModemCalls({"WAITING", "ONHOLD"}),
               mcall' = [n EXCEPT ![i].state = "ACTIVE"],
               \/ Says(<<OK>>)
               \/ Says(<<Event("CONN", i), OK>>) \/ Says(<<OK, Event("CONN", i)>>)
        PROVE  Answered(OK) /\ UNCHANGED <<pvt, threads, conn>>
    <3>1. i \in CallIdx /\ There(mcall, i)
      BY DEF ModemCalls, There
    <3>2. There(n, i)
      BY <2>5, <3>1 DEF SameOnes
    <3>3. SameOnes(n, mcall')
      BY <1>2, <2>6, <2>8, <3>1, <3>2, WithSame
    <3>4. SameOnes(mcall, mcall')
      BY <2>5, <3>3, SameOnesTransitive
    <3>5. Chats(Event("CONN", i), mcall) /\ Event("CONN", i) \in Results
      BY <1>1, <3>1, ChatEvents
    <3>6. events' = Append(events, OK) \/ SaysWith(Event("CONN", i), OK)
      BY <1>1, <1>5, <1>6, <2>8, <3>5 DEF SaysWith
    <3>. QED  BY <1>4, <1>5, <2>1, <2>2, <2>8, <3>4, <3>6, SaysWithAnswers DEF Answered
  <2>. QED  BY <1>3, <2>2, <2>3, <2>7, <2>8
<1>13. ASSUME ModemLists
       PROVE  Answered(OK) /\ UNCHANGED <<pvt, threads, conn>> /\ conn = "up"
  <2>1. {"CLCC"} \in SUBSET at_cmd_t
    BY DEF at_cmd_t
  <2>2. Working({"CLCC"}) /\ UNCHANGED <<mcall, mdial>>
    BY <1>13 DEF ModemLists, modem
  <2>3. CASE Alive = {}
    BY <1>1, <1>3, <1>4, <1>5, <1>6, <1>7, <1>13, <2>1, <2>2, <2>3 DEF ModemLists, Answered
  <2>4. CASE Alive # {}
    <3>. DEFINE e == [Event("CLCC", 0) EXCEPT !.lines = Lines]
    <3>1. e \in Results
      BY <2>4, ListType
    <3>2. Says(<<e, OK>>)
      BY <1>13, <2>4 DEF ModemLists
    <3>3. e.res = "CLCC" /\ e.lines = Lines /\ DOMAIN Lines = Alive
      BY DEF Event, Lines
    <3>4. \A i \in Alive : There(mcall, i) /\ Lines[i].idx = i /\ Lines[i].dir = mcall[i].dir
      BY DEF Alive, ModemCalls, There, Lines
    <3>. HIDE DEF e
    <3>5. Chats(e, mcall)
      BY <3>1, <3>3, <3>4 DEF Chats, Tells
    <3>6. SaysWith(e, OK)
      BY <1>1, <1>5, <1>6, <3>1, <3>2, <3>5 DEF SaysWith
    <3>. QED  BY <1>3, <1>4, <1>5, <1>7, <2>1, <2>2, <3>2, <3>6, SaysWithAnswers DEF Answered
  <2>. QED  BY <2>3, <2>4
<1>14. ASSUME CallBegins
       PROVE  /\ \E x \in CallIdx : CallBegun(x)
              /\ UNCHANGED <<pvt, threads, conn>> /\ conn = "up"
  <2>1. FreeIdx # {} /\ NewIdx \in CallIdx
    BY <1>14, NewIdxType DEF CallBegins
  <2>2. ~There(mcall, NewIdx)
    <3>1. FreeIdx \in SUBSET Nat
      BY DEF FreeIdx, ModemCalls, CallIdx
    <3>2. NewIdx \in FreeIdx
      BY <2>1, <3>1, LeastOfNat DEF NewIdx
    <3>. QED  BY <3>2 DEF FreeIdx, ModemCalls, There
  <2>. DEFINE new == [state |-> "DIALING", dir |-> "outgoing"]
  <2>3. /\ mcall' = [mcall EXCEPT ![NewIdx] = new] /\ mdial /\ ~mdial' /\ conn = "up"
        /\ Says(<<Event("ORIG", NewIdx)>>)
    BY <1>14 DEF CallBegins
  <2>4. new.state # "none" /\ new.dir = "outgoing"
    OBVIOUS
  <2>. HIDE DEF new
  <2>5. mcall'[NewIdx] = new /\ \A i \in CallIdx : i # NewIdx => mcall'[i] = mcall[i]
    BY <1>1, <2>1, <2>3 DEF Mcalls
  <2>. QED  BY <1>1, <1>5, <1>6, <2>1, <2>2, <2>3, <2>4, <2>5 DEF CallBegun, There
<1>15. ASSUME RemoteCalls
       PROVE  /\ \E x \in CallIdx : CallComes(x)
              /\ UNCHANGED <<pvt, threads, conn>> /\ conn = "up"
  <2>1. FreeIdx # {} /\ NewIdx \in CallIdx
    BY <1>15, NewIdxType DEF RemoteCalls
  <2>2. PICK s \in {"INCOMING", "WAITING"} :
           mcall' = [mcall EXCEPT ![NewIdx] = [state |-> s, dir |-> "incoming"]]
    BY <1>15 DEF RemoteCalls
  <2>. DEFINE new == [state |-> s, dir |-> "incoming"]
  <2>3. new.state # "none" /\ new.dir = "incoming"
    OBVIOUS
  <2>. HIDE DEF new
  <2>4. mcall'[NewIdx] = new /\ \A i \in CallIdx : i # NewIdx => mcall'[i] = mcall[i]
    BY <1>1, <2>1, <2>2 DEF Mcalls, new
  <2>5. Says(<<Event("RING", 0)>>) \/ Says(<<Event("CCWA", 0)>>)
    BY <1>15 DEF RemoteCalls
  <2>6. \E e : Chats(e, mcall) /\ events' = Append(events, e)
    BY <1>1, <1>5, <1>6, <2>5, ChatEvents
  <2>7. "incoming" \in Features /\ conn = "up" /\ UNCHANGED mdial
    BY <1>15 DEF RemoteCalls
  <2>. QED  BY <1>5, <2>1, <2>3, <2>4, <2>5, <2>6, <2>7 DEF CallComes, There
<1>16. ASSUME NEW i \in CallIdx,
              RemoteRings(i) \/ RemoteAnswers(i) \/ RemoteCallsOn(i) \/ CallEnds(i)
       PROVE  Chatted /\ UNCHANGED <<pvt, threads, conn>> /\ conn = "up"
  <2>1. There(mcall, i)
    BY <1>16 DEF There, RemoteRings, RemoteAnswers, RemoteCallsOn, CallEnds, Alive, ModemCalls
  <2>2. PICK s \in McallStates \ {"none"} : mcall' = [mcall EXCEPT ![i].state = s]
    BY <1>2, <1>16 DEF RemoteRings, RemoteAnswers, RemoteCallsOn, CallEnds, With
  <2>3. SameOnes(mcall, mcall')
    BY <1>1, <2>1, <2>2, WithSame
  <2>4. /\ UNCHANGED mdial /\ conn = "up"
        /\ Says(<<>>) \/ Says(<<Event("CONN", i)>>) \/ Says(<<Event("RING", 0)>>)
    BY <1>16 DEF RemoteRings, RemoteAnswers, RemoteCallsOn, CallEnds
  <2>5. events' = events \/ \E e : Chats(e, mcall) /\ events' = Append(events, e)
    <3>1. CASE Says(<<>>)
      BY <1>1, <1>5, <1>6, <3>1
    <3>2. CASE Says(<<Event("CONN", i)>>) \/ Says(<<Event("RING", 0)>>)
      <4>1. events' = Append(events, Event("CONN", i)) \/ events' = Append(events, Event("RING", 0))
        BY <1>1, <1>5, <1>6, <3>2
      <4>. QED  BY <2>1, <4>1, ChatEvents
    <3>. QED  BY <2>4, <3>1, <3>2
  <2>6. UNCHANGED <<pvt, threads>> /\ conn' = conn
    BY <1>5, <2>4
  <2>. QED  BY <2>3, <2>4, <2>5, <2>6 DEF Chatted
<1>17. ASSUME NEW i \in CallIdx, ModemTellsEnd(i)
       PROVE  CallOver(i) /\ UNCHANGED <<pvt, threads, conn>> /\ conn = "up"
  <2>1. There(mcall, i) /\ UNCHANGED mdial /\ conn = "up"
    BY <1>17 DEF ModemTellsEnd, There
  <2>2. mcall'[i] = NoCall /\ \A j \in CallIdx : j # i => mcall'[j] = mcall[j]
    BY <1>1, <1>17 DEF ModemTellsEnd, Mcalls
  <2>. QED  BY <1>1, <1>5, <1>6, <1>17, <2>1, <2>2 DEF ModemTellsEnd, CallOver
<1>. QED  BY <1>8, <1>9, <1>10, <1>11, <1>12, <1>13, <1>14, <1>15, <1>16, <1>17 DEF ModemNext

-----------------------------------------------------------------------------
(* What the queue holds                                                    *)

\* Task t has a command of this code left.
Pends(t, code) == \E j \in t.cindex + 1 .. Len(t.cmds) : t.cmds[j].cmd = code

\* A task dials once at most, and has something left to do.
Fine(t) ==
    /\ t.cindex < Len(t.cmds)
    /\ \A i, j \in 1 .. Len(t.cmds) : t.cmds[i].cmd = "D" /\ t.cmds[j].cmd = "D" => i = j

\* A task of a queue that dials for the contexts I only, and hangs up for none
\* of N.
TaskFor(t, I, N) ==
    /\ Fine(t)
    /\ Pends(t, "D") => t.cpvt \in I
    /\ Pends(t, "CHUP") => t.cpvt \notin N

\* The places of the tasks that will dial.
Dials(q) == {k \in 1 .. Len(q) : Pends(q[k], "D")}

QueueFor(q, I, N) ==
    /\ \A k \in 1 .. Len(q) : TaskFor(q[k], I, N)
    /\ \A j, k \in Dials(q) : j = k

\* The code of the head command.
HeadCode(q) == q[1].cmds[q[1].cindex + 1].cmd

\* The queue q became r without a result: its head is where it was, and no
\* other task will dial.
Longer(q, r, I, N) ==
    /\ QueueFor(q, I, N) => QueueFor(r, I, N)
    /\ Dials(q) = {} => Dials(r) = {}
    /\ Dials(q) \subseteq {1} => Dials(r) \subseteq {1}
    /\ q # <<>> => r # <<>> /\ HeadCode(r) = HeadCode(q)

LEMMA LongerTransitive ==
    ASSUME NEW q, NEW r, NEW s, NEW I, NEW N
    PROVE  /\ Longer(q, q, I, N)
           /\ Longer(q, r, I, N) /\ Longer(r, s, I, N) => Longer(q, s, I, N)
BY DEF Longer

\* A task queued behind the head is somewhere in the queue.
LEMMA QueuedAt ==
    ASSUME NEW q \in Seq(Tasks), NEW t \in Tasks, NEW athead
    PROVE  LET r == Inserted(q, t, athead)
           IN  /\ Len(q) \in Nat /\ Len(r) = Len(q) + 1
               /\ q # <<>> => r[1] = q[1] /\ r # <<>>
               /\ \E z \in 1 .. Len(q) + 1 :
                     /\ r[z] = t /\ (z = 1 => q = <<>>)
                     /\ \A k \in 1 .. z - 1 : r[k] = q[k]
                     /\ \A k \in z + 1 .. Len(q) + 1 : r[k] = q[k - 1] /\ k - 1 \in 1 .. Len(q)
<1>. DEFINE r == Inserted(q, t, athead)
            n == Len(q)
<1>1. n \in Nat
  OBVIOUS
<1>2. CASE athead /\ q # <<>>
  <2>. DEFINE h == <<Head(q), t>>
  <2>1. h \in Seq(Tasks) /\ Tail(q) \in Seq(Tasks) /\ Len(h) = 2 /\ Len(Tail(q)) = n - 1
    BY <1>2
  <2>2. h[1] = q[1] /\ h[2] = t /\ \A k \in 1 .. n - 1 : Tail(q)[k] = q[k + 1]
    BY <1>2
  <2>3. r = h \o Tail(q)
    BY <1>2 DEF Inserted
  <2>. HIDE DEF h
  <2>4. /\ Len(r) = n + 1 /\ r[1] = q[1] /\ r[2] = t
        /\ \A k \in 3 .. n + 1 : r[k] = q[k - 1]
    <3>1. n >= 1
      BY <1>2
    <3>2. Len(r) = 2 + (n - 1) /\ \A k \in 1 .. 2 + (n - 1) :
             r[k] = IF k <= 2 THEN h[k] ELSE Tail(q)[k - 2]
      <4>. DEFINE b == Tail(q)
      <4>1. b \in Seq(Tasks) /\ Len(b) = n - 1 /\ r = h \o b
        BY <2>1, <2>3
      <4>. HIDE DEF b, r
      <4>2. Len(r) = Len(h) + Len(b) /\ \A k \in 1 .. Len(h) + Len(b) :
               r[k] = IF k <= Len(h) THEN h[k] ELSE b[k - Len(h)]
        BY ONLY <2>1, <4>1, h \in Seq(Tasks), ConcatProperties
      <4>. QED  BY <2>1, <4>1, <4>2 DEF b
    <3>3. \A k \in 3 .. n + 1 : k - 2 \in 1 .. n - 1 /\ (k - 2) + 1 = k - 1
      BY <1>1
    <3>. QED  BY <1>1, <2>2, <3>1, <3>2, <3>3
  <2>5. n >= 1
    BY <1>2
  <2>6. r # <<>>
    BY <1>1, <2>4
  <2>. HIDE DEF r
  <2>7. 2 \in 1 .. n + 1 /\ \A k \in 1 .. 2 - 1 : r[k] = q[k]
    BY <1>1, <2>4, <2>5
  <2>8. \A k \in 2 + 1 .. n + 1 : r[k] = q[k - 1] /\ k - 1 \in 1 .. n
    BY <1>1, <2>4
  <2>. QED  BY <1>1, <2>4, <2>6, <2>7, <2>8 DEF r
<1>3. CASE ~(athead /\ q # <<>>)
  <2>1. r = Append(q, t)
    BY <1>3 DEF Inserted
  <2>2. /\ Len(r) = n + 1 /\ r[n + 1] = t /\ \A k \in 1 .. n : r[k] = q[k]
        /\ r # <<>>
    BY <2>1
  <2>. HIDE DEF r
  <2>3. n = 0 => q = <<>>
    OBVIOUS
  <2>4. /\ q # <<>> => r[1] = q[1]
        /\ n + 1 \in 1 .. n + 1 /\ (n + 1 = 1 => q = <<>>)
        /\ \A k \in 1 .. (n + 1) - 1 : r[k] = q[k]
        /\ \A k \in (n + 1) + 1 .. n + 1 : r[k] = q[k - 1] /\ k - 1 \in 1 .. n
    BY <1>1, <2>2, <2>3
  <2>. QED  BY <1>1, <2>2, <2>4 DEF r
<1>. QED  BY <1>2, <1>3

LEMMA QueuedDials ==
    ASSUME NEW q \in Seq(Tasks), NEW t \in Tasks, NEW athead, NEW I, NEW N, TaskFor(t, I, N)
    PROVE  LET r == Inserted(q, t, athead)
           IN  /\ ~Pends(t, "D") => Longer(q, r, I, N)
               /\ QueueFor(q, I, N) /\ Dials(q) = {} => QueueFor(r, I, N)
<1>. DEFINE r == Inserted(q, t, athead)
            n == Len(q)
<1>1. n \in Nat /\ Len(r) = n + 1 /\ (q # <<>> => r[1] = q[1] /\ r # <<>>)
  BY QueuedAt
<1>2. PICK z \in 1 .. n + 1 :
         /\ r[z] = t /\ (z = 1 => q = <<>>)
         /\ \A k \in 1 .. z - 1 : r[k] = q[k]
         /\ \A k \in z + 1 .. n + 1 : r[k] = q[k - 1] /\ k - 1 \in 1 .. n
  BY QueuedAt
<1>. HIDE DEF r
<1>3. \A k \in 1 .. n + 1 : \/ k < z /\ k \in 1 .. n /\ r[k] = q[k]
                            \/ k = z
                            \/ k > z /\ k - 1 \in 1 .. n /\ r[k] = q[k - 1]
  BY <1>1, <1>2
<1>4. QueueFor(q, I, N) => \A k \in 1 .. Len(r) : TaskFor(r[k], I, N)
  BY <1>1, <1>2, <1>3 DEF QueueFor
<1>5. \A k \in Dials(r) : \/ k < z /\ k \in Dials(q)
                          \/ k = z /\ Pends(t, "D")
                          \/ k > z /\ k - 1 \in Dials(q)
  BY <1>1, <1>2, <1>3 DEF Dials
<1>6. Dials(q) = {} => \A j, k \in Dials(r) : j = k
  BY <1>5
<1>7. Dials(r) \subseteq Int /\ Dials(q) \subseteq Int
  BY DEF Dials
<1>8. ASSUME ~Pends(t, "D")
      PROVE  Longer(q, r, I, N)
  <2>1. \A j, k \in Dials(r) : (\A a, b \in Dials(q) : a = b) => j = k
    BY <1>5, <1>7, <1>8
  <2>2. Dials(q) = {} => Dials(r) = {}
    BY <1>5, <1>8
  <2>3. ASSUME Dials(q) \subseteq {1} PROVE Dials(r) \subseteq {1}
    <3>1. CASE q = <<>>
      <4>1. Dials(q) = {}
        BY <3>1 DEF Dials
      <4>. QED  BY <2>2, <4>1
    <3>2. CASE q # <<>>
      <4>1. z > 1
        BY <1>2, <3>2
      <4>2. ASSUME NEW k \in Dials(r), k > z, k - 1 \in Dials(q) PROVE FALSE
        BY <1>7, <2>3, <4>1, <4>2
      <4>. QED  BY <1>5, <1>8, <2>3, <4>2
    <3>. QED  BY <3>1, <3>2
  <2>4. q # <<>> => r # <<>> /\ HeadCode(r) = HeadCode(q)
    BY <1>1 DEF HeadCode
  <2>. QED  BY <1>4, <2>1, <2>2, <2>3, <2>4 DEF Longer, QueueFor
<1>. QED  BY <1>4, <1>6, <1>8 DEF QueueFor, r

\* The contexts and the call dialed last are the same: only the queue changed,
\* or the flags.
SameCalls(p, q) ==
    /\ q \in Pvts
    /\ q.chans = p.chans /\ q.cpvt = p.cpvt /\ q.last_dialed = p.last_dialed

LEMMA SameCallsTransitive ==
    ASSUME NEW p, NEW q, NEW r
    PROVE  /\ CallsOK(p) => SameCalls(p, p)
           /\ SameCalls(p, q) /\ SameCalls(q, r) => SameCalls(p, r)
BY DEF SameCalls, CallsOK

LEMMA RequeuedSame ==
    ASSUME NEW p, CallsOK(p), NEW tasks \in Seq(Tasks), NEW m \in Int, NEW n \in Int
    PROVE  SameCalls(p, Requeued(p, tasks, m, n)) /\ Requeued(p, tasks, m, n).at_queue = tasks
<1>1. p \in Pvts
  BY DEF CallsOK
<1>. QED  BY <1>1 DEF SameCalls, Requeued, Pvts

\* The head task goes on with less to do.
LEMMA HeadGoesOn ==
    ASSUME NEW q \in Seq(Tasks), q # <<>>, NEW t \in Tasks, t.cpvt = q[1].cpvt,
           Fine(q[1]) => Fine(t), \A code : Pends(t, code) => Pends(q[1], code), NEW I, NEW N
    PROVE  LET r == [q EXCEPT ![1] = t]
           IN  /\ QueueFor(q, I, N) => QueueFor(r, I, N)
               /\ Dials(r) \subseteq Dials(q) /\ (1 \in Dials(r) => Pends(t, "D"))
               /\ r # <<>> /\ r[1] = t
<1>. DEFINE r == [q EXCEPT ![1] = t]
            n == Len(q)
<1>1. n \in Nat /\ 1 \in 1 .. n /\ Len(r) = n /\ r[1] = t /\ r # <<>>
  BY ExceptSeq
<1>2. \A k \in 1 .. n : k # 1 => r[k] = q[k]
  OBVIOUS
<1>. HIDE DEF r
<1>3. Dials(r) \subseteq Dials(q)
  BY <1>1, <1>2 DEF Dials
<1>4. QueueFor(q, I, N) => QueueFor(r, I, N)
  BY <1>1, <1>2, <1>3 DEF QueueFor, TaskFor
<1>5. 1 \in Dials(r) => Pends(t, "D")
  BY <1>1 DEF Dials
<1>. QED  BY <1>1, <1>3, <1>4, <1>5 DEF r

LEMMA TailQueue ==
    ASSUME NEW q \in Seq(Tasks), q # <<>>, NEW I, NEW N
    PROVE  /\ QueueFor(q, I, N) => QueueFor(Tail(q), I, N)
           /\ Dials(q) \subseteq {1} => Dials(Tail(q)) = {}
<1>. DEFINE r == Tail(q)
            n == Len(q)
<1>1. n \in Nat /\ Len(r) = n - 1 /\ \A k \in 1 .. n - 1 : r[k] = q[k + 1] /\ k + 1 \in 1 .. n
  OBVIOUS
<1>. HIDE DEF r
<1>2. \A k \in Dials(r) : k + 1 \in Dials(q) /\ k \in Nat /\ k # 0
  BY <1>1 DEF Dials
<1>3. QueueFor(q, I, N) => QueueFor(r, I, N)
  BY <1>1, <1>2 DEF QueueFor
<1>4. Dials(q) \subseteq {1} => Dials(r) = {}
  BY <1>2
<1>. QED  BY <1>3, <1>4 DEF r

LEMMA RemovedQueue ==
    ASSUME NEW p, CallsOK(p), ~QueueEmpty(p), NEW res
    PROVE  LET q == p.at_queue
               t == [q[1] EXCEPT !.cindex = q[1].cindex + 1]
               r == at_queue_remove_cmd(p, res)
           IN  /\ SameCalls(p, r)
               /\ \/ r.at_queue = Tail(q)
                  \/ r.at_queue = [q EXCEPT ![1] = t] /\ q[1].cindex + 1 < Len(q[1].cmds)
<1>. DEFINE q == p.at_queue
            t == [q[1] EXCEPT !.cindex = q[1].cindex + 1]
            tasks == [q EXCEPT ![1] = t]
            done == Requeued(p, tasks, p.at_tasks, p.at_cmds - 1)
            m == done.at_tasks - 1
            n == done.at_cmds - (Len(at_queue_head_task(done).cmds) - at_queue_head_task(done).cindex)
<1>1. p \in Pvts /\ q \in Seq(Tasks) /\ q # <<>> /\ p.at_tasks \in Int /\ p.at_cmds \in Int
  BY QueueType, TasksForTasks DEF QueueEmpty
<1>2. done = [p EXCEPT !.at_queue[1].cindex = @ + 1, !.at_cmds = @ - 1]
  BY QueueType DEF Pvts, Requeued
<1>3. at_queue_remove_cmd(p, res) = IF TaskOver(p, res) THEN at_queue_remove(done) ELSE done
  BY <1>2 DEF at_queue_remove_cmd
<1>4. t \in Tasks /\ q[1] \in Tasks /\ q[1].cindex \in Nat /\ Len(q[1].cmds) \in Nat
      /\ Len(t.cmds) = Len(q[1].cmds) /\ t.cindex = q[1].cindex + 1
      /\ t.cpvt = q[1].cpvt
  <2>1. q[1] \in Tasks
    BY <1>1
  <2>. QED  BY <2>1 DEF Tasks
<1>. HIDE DEF t
<1>5. tasks \in Seq(TasksFor(p.chans)) /\ tasks \in Seq(Tasks) /\ tasks # <<>> /\ tasks[1] = t
      /\ Tail(tasks) = Tail(q)
  <2>1. tasks \in Seq(TasksFor(p.chans))
    BY <1>4, HeadReplaced
  <2>2. tasks \in Seq(Tasks) /\ Len(tasks) = Len(q) /\ \A k \in 1 .. Len(q) : tasks[k] = IF k = 1 THEN t ELSE q[k]
    BY <1>1, <1>4, ExceptSeq
  <2>3. Len(q) \in Nat \ {0}
    BY <1>1
  <2>. HIDE DEF tasks
  <2>4. tasks # <<>> /\ tasks[1] = t
    BY <2>2, <2>3
  <2>5. Tail(tasks) = Tail(q)
    <3>1. \A k \in 1 .. Len(q) - 1 : k + 1 \in 1 .. Len(q) /\ k + 1 # 1
      BY <2>3
    <3>2. \A k \in 1 .. Len(q) - 1 : tasks[k + 1] = q[k + 1]
      BY <2>2, <3>1
    <3>. QED  BY <2>2, <3>2 DEF Tail
  <2>. QED  BY <2>1, <2>2, <2>4, <2>5
<1>. HIDE DEF tasks
<1>6. SameCalls(p, done) /\ done.at_queue = tasks
  BY <1>1, <1>5, RequeuedSame
<1>7. done.at_tasks \in Int /\ done.at_cmds \in Int /\ CallsOK(done)
  <2>1. Keeps(p, done)
    BY <1>1, <1>5, RequeuedKeeps
  <2>2. CallsOK(done)
    BY <2>1, KeepsOK
  <2>. QED  BY <2>2, QueueType
<1>. HIDE DEF done
<1>8. SameCalls(done, at_queue_remove(done)) /\ at_queue_remove(done).at_queue = Tail(q)
  <2>1. at_queue_remove(done) = Requeued(done, Tail(tasks), m, n)
    BY <1>5, <1>6 DEF at_queue_remove, Requeued, QueueEmpty
  <2>2. m \in Int /\ n \in Int
    <3>1. Head(tasks) = tasks[1]
      BY <1>5
    <3>2. at_queue_head_task(done) = t
      BY <1>5, <1>6, <3>1 DEF at_queue_head_task
    <3>3. Len(t.cmds) \in Nat /\ t.cindex \in Int
      BY <1>4
    <3>. QED  BY <1>7, <3>2, <3>3
  <2>. DEFINE rest == Tail(tasks)
  <2>3. rest \in Seq(Tasks) /\ CallsOK(done)
    BY <1>5, <1>7
  <2>. HIDE DEF m, n, rest
  <2>4. SameCalls(done, Requeued(done, rest, m, n)) /\ Requeued(done, rest, m, n).at_queue = rest
    BY ONLY <2>2, <2>3, RequeuedSame
  <2>. QED  BY <1>5, <2>1, <2>4 DEF rest
<1>9. ~TaskOver(p, res) => q[1].cindex + 1 < Len(q[1].cmds)
  <2>1. at_queue_head_task(p) = q[1]
    BY <1>1 DEF at_queue_head_task
  <2>. QED  BY <1>4, <2>1 DEF TaskOver
<1>. QED  BY <1>3, <1>6, <1>8, <1>9, SameCallsTransitive DEF t, tasks

\* A command is done with: the task goes on, or not.
LEMMA RemoveCmdQueue ==
    ASSUME NEW p, CallsOK(p), NEW res, NEW I, NEW N
    PROVE  LET q == p.at_queue
               r == at_queue_remove_cmd(p, res)
           IN  /\ SameCalls(p, r)
               /\ QueueFor(q, I, N) => QueueFor(r.at_queue, I, N)
               /\ Dials(q) = {} => Dials(r.at_queue) = {}
               /\ Dials(q) \subseteq {1} => Dials(r.at_queue) \subseteq {1}
               /\ QueueFor(q, I, N) /\ Dials(q) \subseteq {1} /\ q # <<>> /\ HeadCode(q) = "D"
                    => Dials(r.at_queue) = {}
<1>1. CASE QueueEmpty(p)
  BY <1>1, SameCallsTransitive DEF at_queue_remove_cmd, QueueEmpty
<1>2. CASE ~QueueEmpty(p)
  <2>. DEFINE q == p.at_queue
              t == [q[1] EXCEPT !.cindex = q[1].cindex + 1]
              s == [q EXCEPT ![1] = t]
              r == at_queue_remove_cmd(p, res)
  <2>1. SameCalls(p, r) /\ (r.at_queue = Tail(q) \/ (r.at_queue = s /\ q[1].cindex + 1 < Len(q[1].cmds)))
    BY <1>2, RemovedQueue
  <2>2. q \in Seq(Tasks) /\ q # <<>>
    BY <1>2, QueueType, TasksForTasks DEF QueueEmpty
  <2>3. /\ t \in Tasks /\ t.cpvt = q[1].cpvt /\ t.cmds = q[1].cmds /\ t.cindex = q[1].cindex + 1
        /\ q[1].cindex \in Nat /\ Len(q[1].cmds) \in Nat
    <3>1. q[1] \in Tasks
      BY <2>2
    <3>. QED  BY <3>1 DEF Tasks
  <2>4. \A code : Pends(t, code) => Pends(q[1], code)
    BY <2>3 DEF Pends
  <2>5. q[1].cindex + 1 < Len(q[1].cmds) => (Fine(q[1]) => Fine(t))
    BY <2>3 DEF Fine
  <2>6. Fine(q[1]) /\ HeadCode(q) = "D" => ~Pends(t, "D")
    <3>. SUFFICES ASSUME Fine(q[1]), HeadCode(q) = "D", NEW j \in t.cindex + 1 .. Len(t.cmds),
                         t.cmds[j].cmd = "D"
                  PROVE  FALSE
      BY DEF Pends
    <3>1. q[1].cindex + 1 \in 1 .. Len(q[1].cmds) /\ q[1].cmds[q[1].cindex + 1].cmd = "D"
      BY <2>3 DEF Fine, HeadCode
    <3>2. j \in 1 .. Len(q[1].cmds) /\ j # q[1].cindex + 1 /\ q[1].cmds[j].cmd = "D"
      BY <2>3
    <3>. QED  BY <3>1, <3>2 DEF Fine
  <2>7. QueueFor(q, I, N) => Fine(q[1])
    BY <2>2 DEF QueueFor, TaskFor
  <2>. HIDE DEF q, t, r
  <2>8. CASE r.at_queue = Tail(q)
    <3>1. /\ QueueFor(q, I, N) => QueueFor(Tail(q), I, N)
          /\ Dials(q) \subseteq {1} => Dials(Tail(q)) = {}
      BY <2>2, TailQueue
    <3>. QED  BY <2>1, <2>8, <3>1 DEF q, r
  <2>9. CASE r.at_queue = s /\ q[1].cindex + 1 < Len(q[1].cmds)
    <3>1. /\ QueueFor(q, I, N) => QueueFor(s, I, N)
          /\ Dials(s) \subseteq Dials(q) /\ (1 \in Dials(s) => Pends(t, "D"))
      BY <2>2, <2>3, <2>4, <2>5, <2>9, HeadGoesOn
    <3>. HIDE DEF s
    <3>2. QueueFor(q, I, N) /\ Dials(q) \subseteq {1} /\ q # <<>> /\ HeadCode(q) = "D" => Dials(s) = {}
      BY <2>6, <2>7, <3>1
    <3>. QED  BY <2>1, <2>9, <3>1, <3>2 DEF q, r
  <2>. QED  BY <2>1, <2>8, <2>9
<1>. QED  BY <1>1, <1>2

\* The head command that is written stays.
LEMMA WrittenQueue ==
    ASSUME NEW p, CallsOK(p), ~QueueEmpty(p), NEW I, NEW N
    PROVE  LET r == MarkWritten(p)
           IN  SameCalls(p, r) /\ Longer(p.at_queue, r.at_queue, I, N)
<1>. DEFINE q == p.at_queue
            k == q[1].cindex + 1
            cmd == [q[1].cmds[k] EXCEPT !.length = 0]
            cmds == [q[1].cmds EXCEPT ![k] = cmd]
            t == [q[1] EXCEPT !.cmds = cmds]
            s == [q EXCEPT ![1] = t]
<1>1. q \in Seq(Tasks) /\ q # <<>> /\ q[1] \in Tasks /\ q[1].cmds \in Seq(Commands)
      /\ q[1].cindex \in Nat
  BY HeadTask, QueueType, TasksForTasks DEF QueueEmpty, TasksFor
<1>2. /\ Len(cmds) = Len(q[1].cmds) /\ Len(cmds) \in Nat /\ cmds \in Seq(Commands)
      /\ \A j \in 1 .. Len(cmds) : cmds[j].cmd = q[1].cmds[j].cmd
  <2>1. CASE k \in 1 .. Len(q[1].cmds)
    <3>1. q[1].cmds[k] \in Commands
      BY <1>1, <2>1
    <3>2. cmd \in Commands /\ cmd.cmd = q[1].cmds[k].cmd
      BY <3>1 DEF Commands
    <3>. HIDE DEF cmd, k
    <3>3. cmds \in Seq(Commands) /\ Len(cmds) = Len(q[1].cmds)
          /\ \A j \in 1 .. Len(cmds) : cmds[j] = IF j = k THEN cmd ELSE q[1].cmds[j]
      BY <1>1, <2>1, <3>2, ExceptSeq
    <3>. HIDE DEF cmds
    <3>. QED  BY <1>1, <3>2, <3>3
  <2>2. CASE k \notin 1 .. Len(q[1].cmds)
    <3>1. k \notin DOMAIN q[1].cmds
      BY <1>1, <2>2
    <3>. HIDE DEF k, cmd
    <3>2. cmds = q[1].cmds
      BY <1>1, <3>1
    <3>. HIDE DEF cmds
    <3>. QED  BY <1>1, <3>2
  <2>. QED  BY <2>1, <2>2
<1>3. MarkWritten(p) = Requeued(p, s, p.at_tasks, p.at_cmds)
  BY QueueType DEF MarkWritten, Pvts, Requeued
<1>. HIDE DEF cmds
<1>4. /\ t \in Tasks /\ t.cpvt = q[1].cpvt /\ t.cindex = q[1].cindex /\ t.cmds = cmds
  BY <1>1, <1>2 DEF Tasks
<1>. HIDE DEF t
<1>5. (Fine(q[1]) => Fine(t)) /\ \A code : Pends(t, code) => Pends(q[1], code)
  <2>1. t.cindex = q[1].cindex /\ Len(t.cmds) = Len(q[1].cmds)
        /\ \A j \in 1 .. Len(t.cmds) : t.cmds[j].cmd = q[1].cmds[j].cmd
    BY <1>2, <1>4
  <2>2. \A j \in t.cindex + 1 .. Len(t.cmds) : j \in 1 .. Len(t.cmds)
    BY <1>1, <1>2, <2>1
  <2>. HIDE DEF q
  <2>. QED  BY <2>1, <2>2 DEF Fine, Pends
<1>6. s \in Seq(Tasks) /\ p.at_tasks \in Int /\ p.at_cmds \in Int
  BY <1>1, <1>4, ExceptSeq, QueueType
<1>7. SameCalls(p, MarkWritten(p)) /\ MarkWritten(p).at_queue = s
  <2>. HIDE DEF s
  <2>. QED  BY <1>3, <1>6, RequeuedSame
<1>8. /\ QueueFor(q, I, N) => QueueFor(s, I, N)
      /\ Dials(s) \subseteq Dials(q) /\ s # <<>> /\ s[1] = t
  BY <1>1, <1>4, <1>5, HeadGoesOn
<1>9. HeadCode(s) = HeadCode(q)
  <2>1. CASE k \in 1 .. Len(q[1].cmds)
    BY <1>2, <1>4, <1>8, <2>1 DEF HeadCode
  <2>2. CASE k \notin 1 .. Len(q[1].cmds)
    <3>1. cmds = q[1].cmds
      <4>1. k \notin DOMAIN q[1].cmds
        BY <1>1, <2>2
      <4>. HIDE DEF k, cmd
      <4>. QED  BY <1>1, <4>1 DEF cmds
    <3>. QED  BY <1>4, <1>8, <3>1 DEF HeadCode
  <2>. QED  BY <2>1, <2>2
<1>. HIDE DEF s
<1>. QED  BY <1>7, <1>8, <1>9 DEF Longer

\* at_queue_run after a result was handled.
LEMMA RunQueue ==
    ASSUME NEW p, CallsOK(p), NEW ok \in BOOLEAN, NEW I, NEW N
    PROVE  LET r == at_queue_run(p, ok)
           IN  /\ SameCalls(p, r)
               /\ QueueFor(p.at_queue, I, N) => QueueFor(r.at_queue, I, N)
               /\ ok => Longer(p.at_queue, r.at_queue, I, N)
<1>1. CASE HeadUnwritten(p) /\ ok
  BY <1>1, WrittenQueue DEF at_queue_run, HeadUnwritten, Longer
<1>2. CASE HeadUnwritten(p) /\ ~ok
  BY <1>2, RemoveCmdQueue DEF at_queue_run
<1>3. CASE ~HeadUnwritten(p)
  BY <1>3, SameCallsTransitive, LongerTransitive DEF at_queue_run
<1>. QED  BY <1>1, <1>2, <1>3

-----------------------------------------------------------------------------
(* The jobs of calls in the queue                                          *)

\* The codes of a job's commands.
Codes(job) == {job.cmds[j].cmd : j \in 1 .. Len(job.cmds)}

\* A job that has something to do, and dials once at most.
FineJob(job) ==
    /\ IsJob(job) /\ 0 < Len(job.cmds)
    /\ \A i, j \in 1 .. Len(job.cmds) : job.cmds[i].cmd = "D" /\ job.cmds[j].cmd = "D" => i = j

LEMMA JoinedAt ==
    ASSUME NEW x \in Seq(Commands), NEW y \in Seq(Commands)
    PROVE  /\ x \o y \in Seq(Commands) /\ Len(x \o y) = Len(x) + Len(y)
           /\ \A k \in 1 .. Len(x) + Len(y) : (x \o y)[k] = IF k <= Len(x) THEN x[k] ELSE y[k - Len(x)]
BY ConcatProperties

LEMMA JobsFine ==
    /\ \A hold, clir \in BOOLEAN :
          FineJob(at_enque_dial(hold, clir)) /\ "CHUP" \notin Codes(at_enque_dial(hold, clir))
    /\ FineJob(at_enque_hangup) /\ "D" \notin Codes(at_enque_hangup)
    /\ \A s : FineJob(at_enque_answer(s)) /\ {"D", "CHUP"} \intersect Codes(at_enque_answer(s)) = {}
    /\ \A job \in {at_enque_clcc, at_enque_conference, at_enque_activate, at_enque_ping,
                   at_enque_cmd_proc} :
          FineJob(job) /\ {"D", "CHUP"} \intersect Codes(job) = {}
<1>1. \A s : ST(s).cmd = s /\ STI(s).cmd = s
  BY DEF ST, STI, Command
<1>2. ASSUME NEW hold \in BOOLEAN, NEW clir \in BOOLEAN
      PROVE  FineJob(at_enque_dial(hold, clir)) /\ "CHUP" \notin Codes(at_enque_dial(hold, clir))
  <2>. DEFINE job == at_enque_dial(hold, clir)
              third == <<STI("D"), ST("CLCC"), ST("DDSETEX")>>
  <2>1. IsJob(job)
    BY JobsTyped
  <2>. DEFINE first  == IF hold THEN <<ST("CHLD_2")>> ELSE <<>>
              second == IF clir THEN <<STI("CLIR")>> ELSE <<>>
              x == first \o second
  <2>2. job.cmds = x \o third
    BY DEF at_enque_dial, Job
  <2>c. /\ ST("CHLD_2") \in Commands /\ STI("CLIR") \in Commands /\ STI("D") \in Commands
        /\ ST("CLCC") \in Commands /\ ST("DDSETEX") \in Commands
    BY DEF ST, STI, Command, Commands, at_cmd_t
  <2>f. /\ first \in Seq(Commands) /\ Len(first) \in Nat
        /\ \A k \in 1 .. Len(first) : first[k].cmd \notin {"D", "CHUP"}
    BY <1>1, <2>c
  <2>s. /\ second \in Seq(Commands) /\ Len(second) \in Nat
        /\ \A k \in 1 .. Len(second) : second[k].cmd \notin {"D", "CHUP"}
    BY <1>1, <2>c
  <2>t. /\ third \in Seq(Commands) /\ Len(third) = 3
        /\ third[1].cmd = "D" /\ third[2].cmd = "CLCC" /\ third[3].cmd = "DDSETEX"
    BY <1>1, <2>c
  <2>. HIDE DEF third, job, first, second
  <2>x. /\ x \in Seq(Commands) /\ Len(x) = Len(first) + Len(second)
        /\ \A k \in 1 .. Len(first) + Len(second) :
              x[k] = IF k <= Len(first) THEN first[k] ELSE second[k - Len(first)]
    BY <2>f, <2>s, JoinedAt
  <2>. HIDE DEF x
  <2>3. /\ Len(x) \in Nat
        /\ \A k \in 1 .. Len(x) : x[k].cmd \notin {"D", "CHUP"}
    <3>1. \A k \in 1 .. Len(x) : k <= Len(first) => x[k] = first[k] /\ k \in 1 .. Len(first)
      BY <2>f, <2>s, <2>x
    <3>2. \A k \in 1 .. Len(x) : ~(k <= Len(first))
             => x[k] = second[k - Len(first)] /\ k - Len(first) \in 1 .. Len(second)
      BY <2>f, <2>s, <2>x
    <3>. QED  BY <2>f, <2>s, <2>x, <3>1, <3>2
  <2>4. /\ Len(job.cmds) = Len(x) + Len(third)
        /\ \A k \in 1 .. Len(x) + Len(third) :
              job.cmds[k] = IF k <= Len(x) THEN x[k] ELSE third[k - Len(x)]
    <3>1. /\ Len(x \o third) = Len(x) + Len(third)
          /\ \A k \in 1 .. Len(x) + Len(third) :
                (x \o third)[k] = IF k <= Len(x) THEN x[k] ELSE third[k - Len(x)]
      BY ONLY <2>t, <2>x, JoinedAt
    <3>. QED  BY <2>2, <3>1
  <2>5. \A k \in 1 .. Len(job.cmds) : \/ job.cmds[k].cmd \notin {"D", "CHUP"}
                                      \/ k = Len(x) + 1 /\ job.cmds[k].cmd = "D"
    <3>. TAKE k \in 1 .. Len(job.cmds)
    <3>1. CASE k <= Len(x)
      BY <2>3, <2>t, <2>4, <3>1
    <3>2. CASE k > Len(x)
      <4>1. k - Len(x) \in 1 .. 3
        BY <2>3, <2>t, <2>4, <3>2
      <4>2. job.cmds[k] = third[k - Len(x)]
        BY <2>3, <2>t, <2>4, <3>2
      <4>. QED  BY <2>3, <2>t, <4>1, <4>2
    <3>. QED  BY <2>3, <3>1, <3>2
  <2>6. 0 < Len(job.cmds)
    BY <2>3, <2>t, <2>4
  <2>. QED  BY <2>1, <2>5, <2>6 DEF FineJob, Codes, job
<1>3. FineJob(at_enque_hangup) /\ "D" \notin Codes(at_enque_hangup)
  BY <1>1, JobsTyped DEF FineJob, Codes, at_enque_hangup, Job
<1>4. ASSUME NEW s
      PROVE  FineJob(at_enque_answer(s)) /\ {"D", "CHUP"} \intersect Codes(at_enque_answer(s)) = {}
  <2>. DEFINE job == at_enque_answer(s)
  <2>1. \/ job.cmds = <<ST("A"), ST("DDSETEX")>>
        \/ job.cmds = <<ST("CHLD_2x")>>
    BY DEF at_enque_answer, Job
  <2>2. IsJob(job)
    BY JobsTyped
  <2>. HIDE DEF job
  <2>3. FineJob(job) /\ {"D", "CHUP"} \intersect Codes(job) = {}
    <3>1. CASE job.cmds = <<ST("A"), ST("DDSETEX")>>
      <4>1. Len(job.cmds) = 2 /\ job.cmds[1].cmd = "A" /\ job.cmds[2].cmd = "DDSETEX"
        BY <1>1, <3>1
      <4>. QED  BY <2>2, <4>1 DEF FineJob, Codes
    <3>2. CASE job.cmds = <<ST("CHLD_2x")>>
      <4>1. Len(job.cmds) = 1 /\ job.cmds[1].cmd = "CHLD_2x"
        BY <1>1, <3>2
      <4>. QED  BY <2>2, <4>1 DEF FineJob, Codes
    <3>. QED  BY <2>1, <3>1, <3>2
  <2>. QED  BY <2>3 DEF job
<1>5. /\ FineJob(at_enque_clcc) /\ {"D", "CHUP"} \intersect Codes(at_enque_clcc) = {}
      /\ FineJob(at_enque_conference) /\ {"D", "CHUP"} \intersect Codes(at_enque_conference) = {}
      /\ FineJob(at_enque_activate) /\ {"D", "CHUP"} \intersect Codes(at_enque_activate) = {}
  BY <1>1, JobsTyped DEF FineJob, Codes, at_enque_clcc, at_enque_conference, at_enque_activate, Job
<1>6. /\ FineJob(at_enque_ping) /\ {"D", "CHUP"} \intersect Codes(at_enque_ping) = {}
      /\ FineJob(at_enque_cmd_proc) /\ {"D", "CHUP"} \intersect Codes(at_enque_cmd_proc) = {}
  BY <1>1, JobsTyped DEF FineJob, Codes, at_enque_ping, at_enque_cmd_proc, Job
<1>. QED  BY <1>2, <1>3, <1>4, <1>5, <1>6

\* A job that is queued.
\* The command at the head stays there.
HeadStays(q, r) == q # <<>> => r # <<>> /\ HeadCode(r) = HeadCode(q)

LEMMA JobQueued ==
    ASSUME NEW p, CallsOK(p), NEW c \in p.chans \union {sys_chan}, NEW job, FineJob(job),
           HasMemory(p), NEW I, NEW N, "D" \in Codes(job) => c \in I,
           "CHUP" \in Codes(job) => c \notin N
    PROVE  LET r == Added(p, c, job)
           IN  /\ SameCalls(p, r) /\ CallsOK(r)
               /\ "D" \notin Codes(job) => Longer(p.at_queue, r.at_queue, I, N)
               /\ QueueFor(p.at_queue, I, N) /\ Dials(p.at_queue) = {} => QueueFor(r.at_queue, I, N)
               /\ HeadStays(p.at_queue, r.at_queue)
<1>. DEFINE id == NextTaskId(p)
            t == NewTask(id, c, job)
            tasks == Inserted(p.at_queue, t, job.athead)
            m == p.at_tasks + 1
            n == p.at_cmds + Len(t.cmds)
<1>1. IsJob(job) /\ p.at_queue \in Seq(Tasks) /\ p.chans \subseteq CpvtId
      /\ p.at_tasks \in Int /\ p.at_cmds \in Int
  BY QueueType, TasksForTasks DEF FineJob
<1>2. id \in TaskId
  <2>1. FreeTaskIds(p) \in SUBSET Nat /\ FreeTaskIds(p) # {} /\ FreeTaskIds(p) \subseteq TaskId
    BY TaskIdAssumption DEF HasMemory, FreeTaskIds
  <2>. QED  BY <2>1, LeastOfNat DEF NextTaskId
<1>. HIDE DEF id
<1>3. /\ t \in Tasks /\ t.cpvt = c /\ t.cmds = job.cmds /\ t.cindex = 0
      /\ Len(t.cmds) \in Nat
  BY <1>1, <1>2 DEF NewTask, Tasks, IsJob
<1>. HIDE DEF t
<1>4. /\ \A code : Pends(t, code) <=> code \in Codes(job)
      /\ Fine(t)
  BY <1>3 DEF Pends, Codes, Fine, FineJob
<1>5. TaskFor(t, I, N)
  BY <1>3, <1>4 DEF TaskFor
<1>6. tasks \in Seq(Tasks) /\ m \in Int /\ n \in Int
  BY <1>1, <1>3, InsertedTyped
<1>7. Added(p, c, job) = Requeued(p, tasks, m, n)
  BY DEF Added, at_queue_add, Requeued, t, id
<1>8. CallsOK(Added(p, c, job))
  <2>1. Keeps(p, at_queue_add(p, NewTask(id, c, job), job.athead))
    BY <1>1, <1>2, AddKeeps
  <2>. QED  BY <2>1, KeepsOK DEF Added, id
<1>9. /\ ~Pends(t, "D") => Longer(p.at_queue, tasks, I, N)
      /\ QueueFor(p.at_queue, I, N) /\ Dials(p.at_queue) = {} => QueueFor(tasks, I, N)
  BY <1>1, <1>3, <1>5, QueuedDials
<1>11. p.at_queue # <<>> => tasks # <<>> /\ tasks[1] = p.at_queue[1]
  BY <1>1, <1>3, QueuedAt
<1>. HIDE DEF tasks, m, n
<1>10. SameCalls(p, Requeued(p, tasks, m, n)) /\ Requeued(p, tasks, m, n).at_queue = tasks
  BY <1>6, RequeuedSame
<1>. QED  BY <1>4, <1>7, <1>8, <1>9, <1>10, <1>11 DEF HeadStays, HeadCode

LEMMA InsertQueue ==
    ASSUME NEW p, CallsOK(p), NEW c \in p.chans \union {sys_chan}, NEW job, FineJob(job),
           NEW ok \in BOOLEAN, NEW I, NEW N, "D" \in Codes(job) => c \in I,
           "CHUP" \in Codes(job) => c \notin N
    PROVE  LET r == Insert(p, c, job, ok)
           IN  /\ SameCalls(p, r) /\ CallsOK(r)
               /\ "D" \notin Codes(job) /\ QueueFor(p.at_queue, I, N) => QueueFor(r.at_queue, I, N)
               /\ "D" \notin Codes(job) /\ ok => Longer(p.at_queue, r.at_queue, I, N)
               /\ QueueFor(p.at_queue, I, N) /\ Dials(p.at_queue) = {} => QueueFor(r.at_queue, I, N)
               /\ ok => HeadStays(p.at_queue, r.at_queue)
<1>1. CASE ~HasMemory(p)
  BY <1>1, SameCallsTransitive, LongerTransitive DEF Insert, HeadStays
<1>2. CASE HasMemory(p)
  <2>. DEFINE a == Added(p, c, job)
              r == at_queue_run(a, ok)
  <2>1. /\ SameCalls(p, a) /\ CallsOK(a)
        /\ "D" \notin Codes(job) => Longer(p.at_queue, a.at_queue, I, N)
        /\ QueueFor(p.at_queue, I, N) /\ Dials(p.at_queue) = {} => QueueFor(a.at_queue, I, N)
        /\ HeadStays(p.at_queue, a.at_queue)
    BY <1>2, JobQueued
  <2>2. Insert(p, c, job, ok) = r
    BY <1>2 DEF Insert
  <2>. HIDE DEF a
  <2>3. /\ SameCalls(a, r) /\ CallsOK(r)
        /\ QueueFor(a.at_queue, I, N) => QueueFor(r.at_queue, I, N)
        /\ ok => Longer(a.at_queue, r.at_queue, I, N)
    BY <2>1, RunQueue, RunKeeps, KeepsOK
  <2>. HIDE DEF r
  <2>4. SameCalls(p, r)
    BY <2>1, <2>3, SameCallsTransitive
  <2>5. "D" \notin Codes(job) /\ ok => Longer(p.at_queue, r.at_queue, I, N)
    BY <2>1, <2>3, LongerTransitive
  <2>6. "D" \notin Codes(job) /\ QueueFor(p.at_queue, I, N) => QueueFor(r.at_queue, I, N)
    BY <2>1, <2>3 DEF Longer
  <2>7. ok => HeadStays(p.at_queue, r.at_queue)
    BY <2>1, <2>3 DEF Longer, HeadStays
  <2>. QED  BY <2>1, <2>2, <2>3, <2>4, <2>5, <2>6, <2>7
<1>. QED  BY <1>1, <1>2

LEMMA clccQueue ==
    ASSUME NEW p, CallsOK(p), NEW ok \in BOOLEAN, NEW I, NEW N
    PROVE  LET r == request_clcc(p, ok)
           IN  /\ SameCalls(p, r) /\ CallsOK(r)
               /\ QueueFor(p.at_queue, I, N) => QueueFor(r.at_queue, I, N)
               /\ ok => Longer(p.at_queue, r.at_queue, I, N)
<1>1. FineJob(at_enque_clcc) /\ "D" \notin Codes(at_enque_clcc) /\ "CHUP" \notin Codes(at_enque_clcc)
  BY JobsFine
<1>. QED  BY <1>1, InsertQueue DEF request_clcc

\* The tasks of a context that is freed go on as sys_chan's.
LEMMA UnlinkedQueue ==
    ASSUME NEW q \in Seq(Tasks), NEW c, NEW I, NEW N, sys_chan \notin N
    PROVE  LET r == Unlinked(q, c)
           IN  /\ QueueFor(q, I, N) /\ (\A k \in Dials(q) : q[k].cpvt # c) => QueueFor(r, I, N)
               /\ Dials(r) = Dials(q)
               /\ q # <<>> => r # <<>> /\ HeadCode(r) = HeadCode(q)
<1>. DEFINE r == Unlinked(q, c)
            n == Len(q)
<1>1. n \in Nat /\ DOMAIN q = 1 .. n /\ \A k \in 1 .. n : q[k] \in Tasks
  OBVIOUS
<1>2. /\ DOMAIN r = 1 .. n
      /\ \A k \in 1 .. n : r[k] = IF q[k].cpvt = c THEN [q[k] EXCEPT !.cpvt = sys_chan] ELSE q[k]
  BY <1>1 DEF Unlinked
<1>3. r \in Seq(Tasks)
  <2>1. \A k \in 1 .. n : [q[k] EXCEPT !.cpvt = sys_chan] \in Tasks
    BY <1>1 DEF Tasks
  <2>2. r \in [1 .. n -> Tasks]
    BY <1>1, <2>1 DEF Unlinked
  <2>. HIDE DEF r
  <2>. QED  BY <1>1, <2>2
<1>. HIDE DEF r
<1>4. Len(r) = n
  BY <1>1, <1>2, <1>3
<1>5. ASSUME NEW k \in 1 .. n
      PROVE  /\ r[k].cmds = q[k].cmds /\ r[k].cindex = q[k].cindex
             /\ r[k].cpvt = IF q[k].cpvt = c THEN sys_chan ELSE q[k].cpvt
  BY <1>1, <1>2 DEF Tasks
<1>6. \A k \in 1 .. n : /\ Fine(r[k]) <=> Fine(q[k])
                        /\ \A code : Pends(r[k], code) <=> Pends(q[k], code)
  BY <1>5 DEF Fine, Pends
<1>7. Dials(r) = Dials(q)
  BY <1>4, <1>6 DEF Dials
<1>8. QueueFor(q, I, N) /\ (\A k \in Dials(q) : q[k].cpvt # c) => QueueFor(r, I, N)
  <2>. SUFFICES ASSUME QueueFor(q, I, N), \A k \in Dials(q) : q[k].cpvt # c
                PROVE  \A k \in 1 .. n : TaskFor(r[k], I, N)
    BY <1>4, <1>7 DEF QueueFor
  <2>. TAKE k \in 1 .. n
  <2>1. TaskFor(q[k], I, N) /\ (Pends(q[k], "D") => q[k].cpvt # c)
    BY DEF QueueFor, Dials
  <2>. QED  BY <1>5, <1>6, <2>1 DEF TaskFor
<1>9. q # <<>> => r # <<>> /\ HeadCode(r) = HeadCode(q)
  <2>. SUFFICES ASSUME q # <<>> PROVE r # <<>> /\ HeadCode(r) = HeadCode(q)
    OBVIOUS
  <2>1. 1 \in 1 .. n /\ n # 0
    BY <1>1
  <2>. QED  BY <1>4, <1>5, <2>1 DEF HeadCode
<1>. QED  BY <1>7, <1>8, <1>9 DEF r

\* Other contexts to dial and to hang up for.
LEMMA QueueForOthers ==
    ASSUME NEW q, NEW I, NEW N, NEW J, NEW M,
           \A k \in 1 .. Len(q) : /\ k \in Dials(q) /\ q[k].cpvt \in I => q[k].cpvt \in J
                                  /\ q[k].cpvt \in M => q[k].cpvt \in N
    PROVE  QueueFor(q, I, N) => QueueFor(q, J, M)
BY DEF QueueFor, TaskFor, Dials

-----------------------------------------------------------------------------
(* What the operations do to the contexts                                  *)

\* The same call, as far as its state and its audio are not looked at.
Alike(x, y) ==
    /\ x.idx = y.idx /\ x.dir = y.dir /\ x.called = y.called
    /\ x.channel = y.channel /\ x.need_hangup = y.need_hangup

\* The same contexts in use, the same queue and the same call dialed last.
RestSame(p, q) ==
    q.chans = p.chans /\ q.at_queue = p.at_queue /\ q.last_dialed = p.last_dialed

\* Context c is in state new; c is a NULL pointer when none changes.
Changed(p, q, c, new) ==
    /\ q.chans = p.chans /\ q.last_dialed = p.last_dialed
    /\ \A d \in CpvtId : /\ Alike(q.cpvt[d], p.cpvt[d])
                         /\ q.cpvt[d].state = IF d = c THEN new ELSE p.cpvt[d].state

\* Nothing of the contexts changed that the calls are told by.
Still(p, q) == Changed(p, q, NoCpvt, "INIT")

LEMMA StillTransitive ==
    ASSUME NEW p, NEW q, NEW r, NEW c, NEW new
    PROVE  /\ Still(p, p)
           /\ SameCalls(p, q) => Still(p, q)
           /\ Still(p, q) /\ Still(q, r) => Still(p, r)
           /\ Still(p, q) /\ Changed(q, r, c, new) => Changed(p, r, c, new)
           /\ Changed(p, q, c, new) /\ Still(q, r) => Changed(p, r, c, new)
BY NoCpvtAssumption DEF Still, Changed, Alike, SameCalls

LEMMA DisactivateEffect ==
    ASSUME NEW p, p \in Pvts, NEW c \in CpvtId
    PROVE  LET q == disactivate_call(p, c) IN Still(p, q) /\ RestSame(p, q) /\ q \in Pvts
<1>. DEFINE q == [p EXCEPT !.streams[c] = @ - 1, !.cpvt[c].activated = FALSE, !.cpvt[c].master = FALSE]
            x == [p.cpvt[c] EXCEPT !.activated = FALSE, !.master = FALSE]
            f == [p.cpvt EXCEPT ![c] = x]
            s == [p.streams EXCEPT ![c] = @ - 1]
<1>1. p.cpvt \in [CpvtId -> Cpvts] /\ p.streams \in [CpvtId -> Int]
  BY DEF Pvts
<1>2. f \in [CpvtId -> Cpvts] /\ \A d \in CpvtId : /\ Alike(f[d], p.cpvt[d])
                                                   /\ f[d].state = p.cpvt[d].state
  <2>1. p.cpvt[c] \in Cpvts
    BY <1>1
  <2>2. x \in Cpvts /\ Alike(x, p.cpvt[c]) /\ x.state = p.cpvt[c].state
    BY ONLY <2>1 DEF Cpvts, Alike
  <2>. HIDE DEF x
  <2>3. f \in [CpvtId -> Cpvts] /\ \A d \in CpvtId : f[d] = IF d = c THEN x ELSE p.cpvt[d]
    BY <1>1, <2>2
  <2>. HIDE DEF f
  <2>. QED  BY <2>2, <2>3 DEF Alike
<1>3. s \in [CpvtId -> Int]
  BY <1>1
<1>4. q = [p EXCEPT !.streams = s, !.cpvt = f]
  BY <1>1 DEF Pvts, Cpvts
<1>. HIDE DEF f, s, q
<1>5. q \in Pvts /\ RestSame(p, q) /\ q.cpvt = f
  BY <1>2, <1>3, <1>4 DEF Pvts, RestSame
<1>6. Still(p, q)
  BY <1>2, <1>5, NoCpvtAssumption DEF Still, Changed, RestSame
<1>7. disactivate_call(p, c) \in {p, q}
  BY DEF disactivate_call, q
<1>. QED  BY <1>5, <1>6, <1>7, StillTransitive DEF RestSame

LEMMA ActivateEffect ==
    ASSUME NEW p, p \in Pvts, NEW c \in CpvtId
    PROVE  LET q == activate_call(p, c) IN Still(p, q) /\ RestSame(p, q)
<1>1. CASE p.cpvt[c].master
  BY <1>1, StillTransitive DEF activate_call, RestSame
<1>2. CASE ~p.cpvt[c].master
  <2>. DEFINE y(d) == IF d = c
                      THEN [p.cpvt[d] EXCEPT !.activated = p.cpvt[d].activated \/ HasAudio,
                                             !.master = HasAudio]
                      ELSE [p.cpvt[d] EXCEPT !.master = FALSE]
              f == [d \in CpvtId |-> y(d)]
              s == [p.streams EXCEPT ![c] = IF p.cpvt[c].activated THEN @ ELSE @ + 1]
              q == [p EXCEPT !.streams = s, !.cpvt = f]
  <2>1. activate_call(p, c) = q
    BY <1>2 DEF activate_call
  <2>2. \A d \in CpvtId : Alike(y(d), p.cpvt[d]) /\ y(d).state = p.cpvt[d].state
    BY DEF Pvts, Cpvts, Alike
  <2>. HIDE DEF y, s
  <2>3. RestSame(p, q) /\ q.cpvt = f
    BY DEF Pvts, RestSame
  <2>. HIDE DEF q
  <2>4. Still(p, q)
    BY <2>2, <2>3, NoCpvtAssumption DEF Still, Changed, RestSame
  <2>. QED  BY <2>1, <2>3, <2>4
<1>. QED  BY <1>1, <1>2

LEMMA RestatedEffect ==
    ASSUME NEW p, p \in Pvts, NEW c \in CpvtId, NEW new \in call_state_t
    PROVE  LET q == Restated(p, c, new) IN Changed(p, q, c, new) /\ RestSame(p, q) /\ q \in Pvts
<1>. DEFINE x == [p.cpvt[c] EXCEPT !.state = new]
            f == [p.cpvt EXCEPT ![c] = x]
            old == p.cpvt[c].state
            n == [p.chan_count EXCEPT ![old] = @ - 1, ![new] = @ + 1]
            m == [p EXCEPT !.cpvt = f, !.chan_count = n]
<1>1. p.cpvt \in [CpvtId -> Cpvts] /\ p.chan_count \in [call_state_t -> Int] /\ old \in call_state_t
  BY DEF Pvts, Cpvts
<1>2. f \in [CpvtId -> Cpvts] /\ \A d \in CpvtId : /\ Alike(f[d], p.cpvt[d])
                                                   /\ f[d].state = IF d = c THEN new ELSE p.cpvt[d].state
  <2>1. x \in Cpvts /\ Alike(x, p.cpvt[c]) /\ x.state = new
    BY <1>1 DEF Cpvts, Alike
  <2>. HIDE DEF x
  <2>. QED  BY <1>1, <2>1 DEF Alike
<1>3. n \in [call_state_t -> Int]
  BY <1>1
<1>4. MovedTo(p, c, new) = m
  BY <1>1 DEF MovedTo, Pvts
<1>. HIDE DEF f, n
<1>5. m \in Pvts /\ RestSame(p, m) /\ m.cpvt = f
  BY <1>2, <1>3 DEF Pvts, RestSame
<1>6. Changed(p, m, c, new)
  BY <1>2, <1>5 DEF Changed, RestSame
<1>. HIDE DEF m
<1>7. /\ FlagsAfter(m, old) \in Pvts /\ RestSame(p, FlagsAfter(m, old))
      /\ FlagsAfter(m, old).cpvt = m.cpvt
  BY <1>5 DEF FlagsAfter, Pvts, RestSame
<1>8. Changed(p, FlagsAfter(m, old), c, new)
  BY <1>6, <1>7 DEF Changed, RestSame
<1>9. Restated(p, c, new) \in {m, FlagsAfter(m, old)}
  BY <1>4 DEF Restated, MovedTo
<1>. QED  BY <1>5, <1>6, <1>7, <1>8, <1>9

\* A change of state, but for the release of a call.
LEMMA ChangeEffect ==
    ASSUME NEW p, p \in Pvts, NEW c \in CpvtId, NEW new \in call_state_t, new # "RELEASED"
    PROVE  LET q == change_channel_state(p, c, new) IN Changed(p, q, c, new) /\ RestSame(p, q)
<1>. DEFINE q == Restated(p, c, new)
<1>1. CASE new = p.cpvt[c].state
  BY <1>1 DEF change_channel_state, Changed, RestSame, Alike
<1>2. CASE new # p.cpvt[c].state
  <2>1. change_channel_state(p, c, new) \in {q, activate_call(q, c), disactivate_call(q, c)}
    BY <1>2 DEF change_channel_state
  <2>2. Changed(p, q, c, new) /\ RestSame(p, q) /\ q \in Pvts
    BY RestatedEffect
  <2>. HIDE DEF q
  <2>3. /\ Still(q, activate_call(q, c)) /\ RestSame(q, activate_call(q, c))
        /\ Still(q, disactivate_call(q, c)) /\ RestSame(q, disactivate_call(q, c))
    BY <2>2, ActivateEffect, DisactivateEffect
  <2>. QED  BY <2>1, <2>2, <2>3, StillTransitive DEF RestSame
<1>. QED  BY <1>1, <1>2

\* Context c is gone, and nothing points to it.
Released(p, q, c) ==
    /\ q.chans = p.chans \ {c}
    /\ q.last_dialed = IF p.last_dialed = c THEN NoCpvt ELSE p.last_dialed
    /\ \A d \in q.chans : Alike(q.cpvt[d], p.cpvt[d]) /\ q.cpvt[d].state = p.cpvt[d].state

LEMMA ReleaseEffect ==
    ASSUME NEW p, p \in Pvts, NEW c \in p.chans, p.cpvt[c].state # "RELEASED"
    PROVE  LET q == change_channel_state(p, c, "RELEASED")
           IN  Released(p, q, c) /\ q.at_queue = Unlinked(p.at_queue, c)
<1>. DEFINE r == Restated(p, c, "RELEASED")
            d == disactivate_call(r, c)
            q == cpvt_free(d, c)
<1>1. c \in CpvtId /\ "RELEASED" \in call_state_t /\ p.chans \subseteq CpvtId
  BY DEF Pvts, call_state_t
<1>2. Changed(p, r, c, "RELEASED") /\ RestSame(p, r) /\ r \in Pvts
  BY <1>1, RestatedEffect
<1>3. change_channel_state(p, c, "RELEASED") = q
  BY DEF change_channel_state
<1>. HIDE DEF r
<1>4. Still(r, d) /\ RestSame(r, d) /\ d \in Pvts
  BY <1>1, <1>2, DisactivateEffect
<1>. HIDE DEF d
<1>5. Changed(p, d, c, "RELEASED") /\ RestSame(p, d)
  BY <1>2, <1>4, StillTransitive DEF RestSame
<1>6. /\ q.chans = d.chans \ {c}
      /\ q.last_dialed = IF d.last_dialed = c THEN NoCpvt ELSE d.last_dialed
      /\ \A e \in CpvtId : e # c => q.cpvt[e] = d.cpvt[e]
      /\ q.at_queue = Unlinked(d.at_queue, c)
  BY <1>4 DEF cpvt_free, Pvts
<1>. HIDE DEF q
<1>. QED  BY <1>1, <1>3, <1>5, <1>6 DEF Changed, RestSame, Released

\* The flag NEED_HANGUP of context c is need now.
Marked(p, q, c, need) ==
    /\ RestSame(p, q)
    /\ \A d \in CpvtId :
          /\ d # c => q.cpvt[d] = p.cpvt[d]
          /\ q.cpvt[d].idx = p.cpvt[d].idx /\ q.cpvt[d].dir = p.cpvt[d].dir
          /\ q.cpvt[d].called = p.cpvt[d].called /\ q.cpvt[d].state = p.cpvt[d].state
          /\ q.cpvt[d].channel = p.cpvt[d].channel
          /\ d = c => q.cpvt[d].need_hangup = need

LEMMA NeedHangupEffect ==
    ASSUME NEW p, p \in Pvts, NEW c \in CpvtId \union {sys_chan}, NEW need \in BOOLEAN
    PROVE  LET q == NeedHangup(p, c, need) IN Marked(p, q, c, need) /\ q \in Pvts
<1>1. CASE c = sys_chan
  BY <1>1, SysChanAssumption DEF NeedHangup, RestSame, Marked
<1>2. CASE c # sys_chan
  <2>. DEFINE x == [p.cpvt[c] EXCEPT !.need_hangup = need]
              f == [p.cpvt EXCEPT ![c] = x]
              q == [p EXCEPT !.cpvt = f]
  <2>1. c \in CpvtId /\ p.cpvt \in [CpvtId -> Cpvts]
    BY <1>2 DEF Pvts
  <2>2. /\ x \in Cpvts /\ x.idx = p.cpvt[c].idx /\ x.dir = p.cpvt[c].dir
        /\ x.called = p.cpvt[c].called /\ x.state = p.cpvt[c].state
        /\ x.channel = p.cpvt[c].channel /\ x.need_hangup = need
    BY <2>1 DEF Cpvts
  <2>. HIDE DEF x
  <2>3. f \in [CpvtId -> Cpvts] /\ \A d \in CpvtId : f[d] = IF d = c THEN x ELSE p.cpvt[d]
    BY <2>1, <2>2
  <2>4. NeedHangup(p, c, need) = q
    BY <1>2 DEF NeedHangup, x
  <2>. HIDE DEF f
  <2>5. q \in Pvts /\ RestSame(p, q) /\ q.cpvt = f
    BY <2>3 DEF Pvts, RestSame
  <2>. HIDE DEF q
  <2>. QED  BY <2>2, <2>3, <2>4, <2>5 DEF Marked
<1>. QED  BY <1>1, <1>2

\* A new context.
LEMMA AllocEffect ==
    ASSUME NEW p, p \in Pvts, NEW c \in CpvtId \ p.chans, NEW new
    PROVE  LET q == cpvt_alloc(p, c, new)
           IN  /\ q.chans = p.chans \union {c} /\ q.cpvt[c] = new
               /\ \A d \in CpvtId : d # c => q.cpvt[d] = p.cpvt[d]
               /\ q.at_queue = p.at_queue /\ q.last_dialed = p.last_dialed
BY DEF Pvts, cpvt_alloc

-----------------------------------------------------------------------------
(* What the handlers do to contexts and queue                              *)

\* The queue q became r by jobs that do not dial, ok says whether writes
\* succeed.
Kept(q, r, ok, I, N) ==
    /\ QueueFor(q, I, N) => QueueFor(r, I, N)
    /\ ok => Longer(q, r, I, N)

LEMMA KeptTransitive ==
    ASSUME NEW q, NEW r, NEW s, NEW ok, NEW I, NEW N
    PROVE  /\ Kept(q, q, ok, I, N)
           /\ Kept(q, r, ok, I, N) /\ Kept(r, s, ok, I, N) => Kept(q, s, ok, I, N)
BY LongerTransitive DEF Kept

LEMMA ReflaggedEffect ==
    ASSUME NEW p, CallsOK(p), NEW dialing \in BOOLEAN, NEW ring \in BOOLEAN, NEW cwaiting \in BOOLEAN,
           NEW last \in p.chans \union {NoCpvt}
    PROVE  LET q == Reflagged(p, dialing, ring, cwaiting, last)
           IN  /\ q.chans = p.chans /\ q.cpvt = p.cpvt /\ q.at_queue = p.at_queue
               /\ q.last_dialed = last
               /\ CallsOK(q) /\ q \in Pvts
<1>1. CallsOK(Reflagged(p, dialing, ring, cwaiting, last))
  BY FlagsKeep, KeepsOK
<1>. QED  BY <1>1 DEF CallsOK, Reflagged, Pvts

LEMMA HangupEffect ==
    ASSUME NEW p, CallsOK(p), NEW c \in p.chans \union {sys_chan}, NEW ok \in BOOLEAN
    PROVE  LET q == HangupQueued(p, c, ok)
           IN  /\ CallsOK(q) /\ q \in Pvts /\ q.chans = p.chans /\ q.cpvt = p.cpvt
               /\ q.last_dialed \in {p.last_dialed, NoCpvt}
               /\ c = sys_chan \/ p.cpvt[c].state # "INIT" => q.last_dialed = p.last_dialed
               /\ \A I, N : c \notin N => Kept(p.at_queue, q.at_queue, ok, I, N)
<1>. DEFINE u == Undialed(p, c)
            q == Insert(u, c, at_enque_hangup, ok)
<1>1. /\ u.chans = p.chans /\ u.cpvt = p.cpvt /\ u.at_queue = p.at_queue
      /\ u.last_dialed \in {p.last_dialed, NoCpvt}
      /\ c = sys_chan \/ p.cpvt[c].state # "INIT" => u.last_dialed = p.last_dialed
  BY DEF Undialed, CallsOK, Pvts
<1>2. CallsOK(u)
  BY UndialedKeeps, KeepsOK
<1>3. HangupQueued(p, c, ok) = q
  BY DEF HangupQueued
<1>. HIDE DEF u
<1>4. FineJob(at_enque_hangup) /\ "D" \notin Codes(at_enque_hangup)
  BY JobsFine
<1>5. ASSUME NEW I, NEW N, c \notin N
      PROVE  SameCalls(u, q) /\ CallsOK(q) /\ Kept(u.at_queue, q.at_queue, ok, I, N)
  BY <1>1, <1>2, <1>4, <1>5, InsertQueue DEF Kept
<1>. HIDE DEF q
<1>6. c \notin {}
  OBVIOUS
<1>7. SameCalls(u, q) /\ CallsOK(q)
  BY <1>5, <1>6
<1>. QED  BY <1>1, <1>3, <1>5, <1>7 DEF SameCalls

LEMMA FlagsListedEffect ==
    ASSUME NEW p, CallsOK(p), NEW s
    PROVE  LET q == FlagsListed(p, s)
           IN  SameCalls(p, q) /\ CallsOK(q) /\ q.at_queue = p.at_queue
<1>. DEFINE w == s = "WAITING"
            r == s = "INCOMING"
            d == s \in {"DIALING", "ALERTING"}
            q == Reflagged(p, d, r, w, p.last_dialed)
<1>1. p.last_dialed \in p.chans \union {NoCpvt} /\ p \in Pvts
  BY DEF CallsOK
<1>2. FlagsListed(p, s) \in {p, q}
  BY <1>1 DEF FlagsListed, Reflagged, Pvts
<1>3. d \in BOOLEAN /\ r \in BOOLEAN /\ w \in BOOLEAN
  OBVIOUS
<1>. HIDE DEF d, r, w
<1>4. SameCalls(p, q) /\ CallsOK(q) /\ q.at_queue = p.at_queue
  BY <1>1, <1>3, ReflaggedEffect DEF SameCalls
<1>. HIDE DEF q
<1>. QED  BY <1>1, <1>2, <1>4 DEF SameCalls

\* The OK of a command that was queued for c.
Acks(p, q, c, code) ==
    /\ q.chans = p.chans /\ q.at_queue = p.at_queue
    /\ q.last_dialed = IF code = "D" /\ c # sys_chan THEN c ELSE p.last_dialed
    /\ \A d \in CpvtId :
          /\ q.cpvt[d].idx = p.cpvt[d].idx /\ q.cpvt[d].dir = p.cpvt[d].dir
          /\ q.cpvt[d].called = p.cpvt[d].called /\ q.cpvt[d].state = p.cpvt[d].state
          /\ q.cpvt[d].channel = p.cpvt[d].channel
          /\ d = c /\ code \in {"D", "A", "CHLD_2x"} => q.cpvt[d].need_hangup
          /\ (d # c \/ code # "CHUP") /\ p.cpvt[d].need_hangup => q.cpvt[d].need_hangup

LEMMA AcknowledgedEffect ==
    ASSUME NEW p, CallsOK(p), ~QueueEmpty(p), NEW c \in p.chans \union {sys_chan}
    PROVE  LET q == Acknowledged(p, c)
           IN  CallsOK(q) /\ Acks(p, q, c, HeadCode(p.at_queue))
<1>. DEFINE on == TRUE
            last == IF c = sys_chan THEN p.last_dialed ELSE c
            q == Reflagged(p, on, p.ring, p.cwaiting, last)
            a == Acknowledged(p, c)
            code == HeadCode(p.at_queue)
<1>1. /\ p \in Pvts /\ on \in BOOLEAN /\ p.ring \in BOOLEAN /\ p.cwaiting \in BOOLEAN
      /\ last \in p.chans \union {NoCpvt} /\ c \in CpvtId \union {sys_chan}
  BY DEF CallsOK, Pvts
<1>2. q = [p EXCEPT !.dialing = TRUE, !.last_dialed = IF c = sys_chan THEN @ ELSE c]
  BY <1>1 DEF Reflagged, Pvts
<1>3. at_queue_head_cmd(p).cmd = code
  BY HeadTask DEF at_queue_head_cmd, at_queue_task_cmd, HeadCode
<1>4. a = IF code = "D" THEN NeedHangup(q, c, TRUE)
          ELSE IF code \in {"A", "CHLD_2x"} THEN NeedHangup(p, c, TRUE)
          ELSE IF code = "CHUP" THEN NeedHangup(p, c, FALSE) ELSE p
  BY <1>2, <1>3 DEF Acknowledged
<1>. HIDE DEF on, code
<1>5. /\ q.chans = p.chans /\ q.cpvt = p.cpvt /\ q.at_queue = p.at_queue
      /\ q.last_dialed = last
      /\ CallsOK(q) /\ q \in Pvts
  BY <1>1, ReflaggedEffect
<1>6. last = IF c # sys_chan THEN c ELSE p.last_dialed
  OBVIOUS
<1>. HIDE DEF q, last
<1>7. CallsOK(a)
  BY <1>1, <1>4, <1>5, NeedHangupKeeps, KeepsOK
<1>. HIDE DEF a
<1>8. ASSUME code = "D" PROVE Acks(p, a, c, code)
  <2>1. a = NeedHangup(q, c, TRUE) /\ q \in Pvts /\ c \in CpvtId \union {sys_chan}
    BY <1>1, <1>4, <1>5, <1>8
  <2>2. Marked(q, a, c, TRUE)
    BY ONLY <2>1, NeedHangupEffect
  <2>3. a.last_dialed = IF code = "D" /\ c # sys_chan THEN c ELSE p.last_dialed
    BY <1>5, <1>6, <1>8, <2>2 DEF Marked, RestSame
  <2>. QED  BY <1>5, <1>8, <2>2, <2>3 DEF Marked, RestSame, Acks
<1>9. ASSUME code # "D" PROVE Acks(p, a, c, code)
  <2>1. \/ a = NeedHangup(p, c, TRUE) /\ code \in {"A", "CHLD_2x"}
        \/ a = NeedHangup(p, c, FALSE) /\ code = "CHUP"
        \/ a = p /\ code \notin {"A", "CHLD_2x", "CHUP"}
    BY <1>4, <1>9
  <2>2. /\ Marked(p, NeedHangup(p, c, TRUE), c, TRUE)
        /\ Marked(p, NeedHangup(p, c, FALSE), c, FALSE)
    BY ONLY <1>1, NeedHangupEffect
  <2>3. CASE a = NeedHangup(p, c, TRUE) /\ code \in {"A", "CHLD_2x"}
    BY <1>9, <2>2, <2>3 DEF Marked, RestSame, Acks
  <2>4. CASE a = NeedHangup(p, c, FALSE) /\ code = "CHUP"
    BY <1>9, <2>2, <2>4 DEF Marked, RestSame, Acks
  <2>5. CASE a = p /\ code \notin {"A", "CHLD_2x", "CHUP"}
    BY <1>9, <2>5 DEF Acks
  <2>. QED  BY <2>1, <2>3, <2>4, <2>5
<1>10. Acks(p, a, c, code)
  BY <1>8, <1>9
<1>. QED  BY <1>7, <1>10 DEF a, code

\* Context c has lost its channel.
HangsUp(p, q, c) ==
    /\ q.chans = p.chans
    /\ \A d \in CpvtId :
          /\ q.cpvt[d].idx = p.cpvt[d].idx /\ q.cpvt[d].dir = p.cpvt[d].dir
          /\ q.cpvt[d].called = p.cpvt[d].called /\ q.cpvt[d].state = p.cpvt[d].state
          /\ d # c => Alike(q.cpvt[d], p.cpvt[d])
          /\ d = c => ~q.cpvt[d].channel
    /\ q.last_dialed \in {p.last_dialed, NoCpvt}
    /\ p.cpvt[c].state # "INIT" => q.last_dialed = p.last_dialed

Parted(p, q, c) ==
    /\ RestSame(p, q) /\ q \in Pvts
    /\ \A d \in CpvtId : d # c => q.cpvt[d] = p.cpvt[d]
    /\ q.cpvt[c].idx = p.cpvt[c].idx /\ q.cpvt[c].dir = p.cpvt[c].dir
    /\ q.cpvt[c].called = p.cpvt[c].called /\ q.cpvt[c].state = p.cpvt[c].state
    /\ q.cpvt[c].need_hangup = p.cpvt[c].need_hangup /\ ~q.cpvt[c].channel

LEMMA UnchannelledEffect ==
    ASSUME NEW p, p \in Pvts, NEW c \in CpvtId
    PROVE  Parted(p, [p EXCEPT !.cpvt[c].channel = FALSE], c)
<1>. DEFINE x == [p.cpvt[c] EXCEPT !.channel = FALSE]
            f == [p.cpvt EXCEPT ![c] = x]
            q == [p EXCEPT !.cpvt = f]
<1>1. p.cpvt \in [CpvtId -> Cpvts] /\ [p EXCEPT !.cpvt[c].channel = FALSE] = q
  BY DEF Pvts
<1>2. /\ x \in Cpvts /\ x.idx = p.cpvt[c].idx /\ x.dir = p.cpvt[c].dir
      /\ x.called = p.cpvt[c].called /\ x.state = p.cpvt[c].state
      /\ x.need_hangup = p.cpvt[c].need_hangup /\ ~x.channel
  BY <1>1 DEF Cpvts
<1>. HIDE DEF x
<1>4. f \in [CpvtId -> Cpvts] /\ f[c] = x /\ \A d \in CpvtId : d # c => f[d] = p.cpvt[d]
  BY <1>1, <1>2
<1>. HIDE DEF f
<1>5. q \in Pvts /\ RestSame(p, q) /\ q.cpvt = f
  BY <1>4 DEF Pvts, RestSame
<1>. HIDE DEF q
<1>. QED  BY <1>1, <1>2, <1>4, <1>5 DEF Parted

LEMMA HungUpEffect ==
    ASSUME NEW p, CallsOK(p), NEW c \in p.chans, NEW ok \in BOOLEAN
    PROVE  LET q == HungUp(p, c, ok)
           IN  /\ HangsUp(p, q, c)
               /\ ~p.cpvt[c].need_hangup =>
                     RestSame(p, q) /\ \A d \in CpvtId : q.cpvt[d].need_hangup = p.cpvt[d].need_hangup
               /\ \A I, N : c \notin N => Kept(p.at_queue, q.at_queue, ok, I, N)
<1>. DEFINE h == HangupQueued(p, c, ok)
            told == IF ~p.cpvt[c].need_hangup THEN p
                    ELSE IF InsertFails(Undialed(p, c), c, at_enque_hangup, ok)
                    THEN h ELSE NeedHangup(h, c, FALSE)
            d == disactivate_call(told, c)
            q == [d EXCEPT !.cpvt[c].channel = FALSE]
<1>1. HungUp(p, c, ok) = q
  BY DEF HungUp
<1>2. c \in CpvtId /\ p \in Pvts /\ c \in p.chans \union {sys_chan} /\ c # sys_chan
  BY SysChanAssumption DEF CallsOK, Pvts
<1>3. /\ CallsOK(h) /\ h \in Pvts /\ h.chans = p.chans /\ h.cpvt = p.cpvt
      /\ h.last_dialed \in {p.last_dialed, NoCpvt}
      /\ p.cpvt[c].state # "INIT" => h.last_dialed = p.last_dialed
      /\ \A I, N : c \notin N => Kept(p.at_queue, h.at_queue, ok, I, N)
  BY <1>2, HangupEffect
<1>4. \/ told = p
      \/ p.cpvt[c].need_hangup /\ (told = h \/ told = NeedHangup(h, c, FALSE))
  OBVIOUS
<1>. HIDE DEF h, told
<1>5. h \in Pvts /\ c \in CpvtId \union {sys_chan}
  BY <1>2, <1>3
<1>6. Marked(h, NeedHangup(h, c, FALSE), c, FALSE) /\ NeedHangup(h, c, FALSE) \in Pvts
  BY ONLY <1>5, NeedHangupEffect
<1>7. /\ told.chans = p.chans /\ told.last_dialed \in {p.last_dialed, NoCpvt}
      /\ \A e \in CpvtId : /\ told.cpvt[e].idx = p.cpvt[e].idx /\ told.cpvt[e].dir = p.cpvt[e].dir
                           /\ told.cpvt[e].called = p.cpvt[e].called
                           /\ told.cpvt[e].state = p.cpvt[e].state
                           /\ e # c => told.cpvt[e] = p.cpvt[e]
      /\ p.cpvt[c].state # "INIT" => told.last_dialed = p.last_dialed
      /\ told \in Pvts
  <2>1. CASE told = p
    BY <1>2, <2>1
  <2>2. CASE told = h
    BY <1>3, <2>2
  <2>3. CASE told = NeedHangup(h, c, FALSE)
    <3>1. Marked(h, told, c, FALSE) /\ told \in Pvts
      BY <1>6, <2>3
    <3>. QED  BY <1>3, <3>1 DEF Marked, RestSame
  <2>. QED  BY <1>4, <2>1, <2>2, <2>3
<1>8. \A I, N : c \notin N => Kept(p.at_queue, told.at_queue, ok, I, N)
  BY <1>3, <1>4, <1>6, KeptTransitive DEF Marked, RestSame
<1>9. Still(told, d) /\ RestSame(told, d) /\ d \in Pvts
  BY <1>2, <1>7, DisactivateEffect
<1>. HIDE DEF d
<1>10. c \in CpvtId /\ d \in Pvts
  BY <1>2, <1>9
<1>14. Parted(d, q, c)
  BY ONLY <1>10, UnchannelledEffect
<1>. HIDE DEF q
<1>11. /\ RestSame(told, q)
       /\ \A e \in CpvtId :
             /\ q.cpvt[e].idx = told.cpvt[e].idx /\ q.cpvt[e].dir = told.cpvt[e].dir
             /\ q.cpvt[e].called = told.cpvt[e].called
             /\ q.cpvt[e].state = told.cpvt[e].state
             /\ q.cpvt[e].need_hangup = told.cpvt[e].need_hangup
             /\ e # c => Alike(q.cpvt[e], told.cpvt[e])
             /\ e = c => ~q.cpvt[e].channel
  BY <1>2, <1>9, <1>14, NoCpvtAssumption DEF Still, Changed, RestSame, Alike, Parted
<1>12. HangsUp(p, q, c)
  <2>1. ASSUME NEW e \in CpvtId
        PROVE  /\ q.cpvt[e].idx = p.cpvt[e].idx /\ q.cpvt[e].dir = p.cpvt[e].dir
               /\ q.cpvt[e].called = p.cpvt[e].called /\ q.cpvt[e].state = p.cpvt[e].state
               /\ e # c => Alike(q.cpvt[e], p.cpvt[e])
               /\ e = c => ~q.cpvt[e].channel
    BY <1>7, <1>11
  <2>2. /\ q.chans = p.chans /\ q.last_dialed \in {p.last_dialed, NoCpvt}
        /\ p.cpvt[c].state # "INIT" => q.last_dialed = p.last_dialed
    BY <1>7, <1>11 DEF RestSame
  <2>. QED  BY <2>1, <2>2 DEF HangsUp
<1>13. ASSUME ~p.cpvt[c].need_hangup
       PROVE  RestSame(p, q) /\ \A e \in CpvtId : q.cpvt[e].need_hangup = p.cpvt[e].need_hangup
  <2>1. told = p
    BY <1>4, <1>13
  <2>2. RestSame(told, q) /\ \A e \in CpvtId : q.cpvt[e].need_hangup = told.cpvt[e].need_hangup
    BY <1>11
  <2>. QED  BY ONLY <2>1, <2>2
<1>. QED  BY <1>1, <1>8, <1>11, <1>12, <1>13 DEF RestSame

\* The contexts but c are the same, and c is in the same state.
Noted(p, q, c) ==
    /\ q.chans = p.chans
    /\ \A d \in CpvtId :
          /\ q.cpvt[d].dir = p.cpvt[d].dir /\ q.cpvt[d].state = p.cpvt[d].state
          /\ q.cpvt[d].channel = p.cpvt[d].channel
          /\ d # c => Alike(q.cpvt[d], p.cpvt[d])

LEMMA CalledEffect ==
    ASSUME NEW p, CallsOK(p), NEW c \in p.chans
    PROVE  LET q == [p EXCEPT !.cpvt[c].called = TRUE]
           IN  /\ CallsOK(q) /\ Noted(p, q, c) /\ RestSame(p, q)
               /\ q.cpvt[c].idx = p.cpvt[c].idx /\ q.cpvt[c].called
               /\ q.cpvt[c].need_hangup = p.cpvt[c].need_hangup
<1>. DEFINE x == [p.cpvt[c] EXCEPT !.called = TRUE]
            f == [p.cpvt EXCEPT ![c] = x]
            q == [p EXCEPT !.cpvt = f]
<1>1. p \in Pvts /\ c \in CpvtId /\ p.cpvt \in [CpvtId -> Cpvts]
  BY DEF CallsOK, Pvts
<1>2. [p EXCEPT !.cpvt[c].called = TRUE] = q
  BY <1>1 DEF Pvts
<1>3. CallsOK(q)
  BY <1>2, CalledKeeps, KeepsOK
<1>4. /\ x.idx = p.cpvt[c].idx /\ x.dir = p.cpvt[c].dir /\ x.state = p.cpvt[c].state
      /\ x.channel = p.cpvt[c].channel /\ x.need_hangup = p.cpvt[c].need_hangup /\ x.called
  BY <1>1 DEF Cpvts
<1>. HIDE DEF x
<1>5. f[c] = x /\ \A d \in CpvtId : d # c => f[d] = p.cpvt[d]
  BY <1>1
<1>. HIDE DEF f
<1>6. q.cpvt = f /\ RestSame(p, q)
  BY <1>1 DEF Pvts, RestSame
<1>. HIDE DEF q
<1>7. Noted(p, q, c)
  BY <1>4, <1>5, <1>6 DEF Noted, RestSame, Alike
<1>. QED  BY <1>1, <1>2, <1>3, <1>4, <1>5, <1>6, <1>7

LEMMA NumberedEffect ==
    ASSUME NEW p, CallsOK(p), NEW c \in p.chans, NEW idx \in 0 .. MaxCallIdx
    PROVE  LET q == [p EXCEPT !.cpvt[c].idx = idx]
           IN  /\ CallsOK(q) /\ Noted(p, q, c) /\ RestSame(p, q)
               /\ q.cpvt[c].idx = idx /\ q.cpvt[c].called = p.cpvt[c].called
               /\ q.cpvt[c].need_hangup = p.cpvt[c].need_hangup
<1>. DEFINE x == [p.cpvt[c] EXCEPT !.idx = idx]
            f == [p.cpvt EXCEPT ![c] = x]
            q == [p EXCEPT !.cpvt = f]
<1>1. p \in Pvts /\ c \in CpvtId /\ p.cpvt \in [CpvtId -> Cpvts]
  BY DEF CallsOK, Pvts
<1>2. [p EXCEPT !.cpvt[c].idx = idx] = q
  BY <1>1 DEF Pvts
<1>3. CallsOK(q)
  BY <1>2, NumberedKeeps, KeepsOK
<1>4. /\ x.idx = idx /\ x.dir = p.cpvt[c].dir /\ x.state = p.cpvt[c].state
      /\ x.channel = p.cpvt[c].channel /\ x.need_hangup = p.cpvt[c].need_hangup
      /\ x.called = p.cpvt[c].called
  BY <1>1 DEF Cpvts
<1>. HIDE DEF x
<1>5. f[c] = x /\ \A d \in CpvtId : d # c => f[d] = p.cpvt[d]
  BY <1>1
<1>. HIDE DEF f
<1>6. q.cpvt = f /\ RestSame(p, q)
  BY <1>1 DEF Pvts, RestSame
<1>. HIDE DEF q
<1>7. Noted(p, q, c)
  BY <1>4, <1>5, <1>6 DEF Noted, RestSame, Alike
<1>. QED  BY <1>1, <1>2, <1>3, <1>4, <1>5, <1>6, <1>7

\* A call is dialed, and marked for a hangup if nothing failed.
DialsFor(p, q, c, ok) ==
    /\ Noted(p, q, c) /\ q.last_dialed = p.last_dialed
    /\ q.cpvt[c].idx = p.cpvt[c].idx /\ q.cpvt[c].called = p.cpvt[c].called
    /\ p.cpvt[c].need_hangup \/ (ok /\ q.at_queue # p.at_queue) => q.cpvt[c].need_hangup
    /\ \A I, N : QueueFor(p.at_queue, I, N) /\ Dials(p.at_queue) = {} /\ c \in I
                    => QueueFor(q.at_queue, I, N)
    /\ ok => HeadStays(p.at_queue, q.at_queue)

LEMMA DialedEffect ==
    ASSUME NEW p, CallsOK(p), NEW c \in p.chans, NEW clir \in BOOLEAN, NEW ok \in BOOLEAN
    PROVE  DialsFor(p, Dialed(p, c, clir, ok), c, ok)
<1>. DEFINE hold == p.chan_count["ACTIVE"] > 0 /\ p.cpvt[c].opts # "none"
            job == at_enque_dial(hold, clir)
            r == Insert(p, c, job, ok)
            n == NeedHangup(r, c, TRUE)
            q == Dialed(p, c, clir, ok)
<1>1. p \in Pvts /\ c \in CpvtId /\ c \in p.chans \union {sys_chan} /\ hold \in BOOLEAN
  BY DEF CallsOK, Pvts
<1>2. q = IF InsertFails(p, c, job, ok) THEN r ELSE n
  BY DEF Dialed
<1>. HIDE DEF hold, q
<1>3. FineJob(job) /\ "CHUP" \notin Codes(job)
  BY <1>1, JobsFine
<1>. HIDE DEF job
<1>4. ASSUME NEW I, NEW N, c \in I
      PROVE  /\ SameCalls(p, r)
             /\ QueueFor(p.at_queue, I, N) /\ Dials(p.at_queue) = {} => QueueFor(r.at_queue, I, N)
             /\ ok => HeadStays(p.at_queue, r.at_queue)
  BY <1>1, <1>3, <1>4, InsertQueue
<1>5. InsertFails(p, c, job, ok) /\ ok => r = p
  BY DEF InsertFails, RunFails, Insert
<1>. HIDE DEF r
<1>6. c \in {c}
  OBVIOUS
<1>7. SameCalls(p, r) /\ (ok => HeadStays(p.at_queue, r.at_queue))
  BY <1>4, <1>6
<1>8. r \in Pvts /\ c \in CpvtId \union {sys_chan}
  BY <1>1, <1>7 DEF SameCalls
<1>9. Marked(r, n, c, TRUE)
  BY ONLY <1>8, NeedHangupEffect
<1>10. q = r \/ q = n
  BY <1>2
<1>11. r.last_dialed = p.last_dialed /\ n.last_dialed = p.last_dialed /\ n.at_queue = r.at_queue
  BY <1>7, <1>9 DEF SameCalls, Marked, RestSame
<1>. HIDE DEF n
<1>12. Noted(p, r, c)
  BY <1>7 DEF SameCalls, Noted, Alike
<1>13. Noted(p, n, c)
  BY <1>7, <1>9 DEF SameCalls, Marked, RestSame, Noted, Alike
<1>14. /\ r.cpvt[c] = p.cpvt[c]
       /\ n.cpvt[c].idx = p.cpvt[c].idx /\ n.cpvt[c].called = p.cpvt[c].called
       /\ n.cpvt[c].need_hangup
  BY <1>1, <1>7, <1>9 DEF SameCalls, Marked
<1>15. ASSUME p.cpvt[c].need_hangup \/ (ok /\ q.at_queue # p.at_queue)
       PROVE  q.cpvt[c].need_hangup
  <2>1. CASE q = n
    BY <1>14, <2>1
  <2>2. CASE q # n
    <3>1. q = r /\ InsertFails(p, c, job, ok)
      BY <1>2, <2>2
    <3>2. ~(ok /\ q.at_queue # p.at_queue)
      BY <1>5, <3>1
    <3>. QED  BY <1>14, <1>15, <3>1, <3>2
  <2>. QED  BY <2>1, <2>2
<1>16. q.at_queue = r.at_queue
  BY <1>10, <1>11
<1>17. /\ Noted(p, q, c) /\ q.last_dialed = p.last_dialed
       /\ q.cpvt[c].idx = p.cpvt[c].idx /\ q.cpvt[c].called = p.cpvt[c].called
  BY <1>10, <1>11, <1>12, <1>13, <1>14
<1>18. DialsFor(p, q, c, ok)
  BY <1>4, <1>7, <1>15, <1>16, <1>17 DEF DialsFor
<1>. QED  BY <1>18 DEF q

\* ^CONN, for a context or for none.
LEMMA ConnectedEffect ==
    ASSUME NEW p, Good(CpvtId, p), NEW c \in p.chans \union {NoCpvt}, NEW ok \in BOOLEAN
    PROVE  LET q == Connected(p, c, ok)
           IN  /\ c = NoCpvt => /\ SameCalls(p, q)
                                /\ \A I, N : sys_chan \notin N => Kept(p.at_queue, q.at_queue, ok, I, N)
               /\ c # NoCpvt => /\ Changed(p, q, c, "ACTIVE")
                                /\ \A I, N : (Group295 /\ p.cpvt[c].dir = "outgoing" => c \notin N)
                                                => Kept(p.at_queue, q.at_queue, ok, I, N)
<1>. DEFINE f == [p EXCEPT !.ring = FALSE, !.dialing = FALSE, !.cwaiting = FALSE]
            a == change_channel_state(f, c, "ACTIVE")
            l == request_clcc(a, ok)
            q == Connected(p, c, ok)
            h == HangupQueued(f, sys_chan, ok)
            g == HangupQueued(a, c, ok)
            j == Insert(l, c, at_enque_conference, ok)
<1>1. /\ c = NoCpvt => q = h
      /\ c # NoCpvt /\ Group295 /\ a.cpvt[c].dir = "outgoing" => q = g
      /\ c # NoCpvt /\ ~(Group295 /\ a.cpvt[c].dir = "outgoing") => q = j \/ q = l
  BY DEF Connected
<1>. HIDE DEF q
<1>2. p.last_dialed \in p.chans \union {NoCpvt} /\ p \in Pvts /\ CallsOK(p)
  BY DEF Good, CallsOK
<1>. DEFINE off == FALSE
<1>3. f = Reflagged(p, off, off, off, p.last_dialed) /\ off \in BOOLEAN
  BY <1>2 DEF Reflagged, Pvts
<1>. HIDE DEF off
<1>4. /\ f.chans = p.chans /\ f.cpvt = p.cpvt /\ f.at_queue = p.at_queue
      /\ f.last_dialed = p.last_dialed
      /\ CallsOK(f) /\ f \in Pvts
  BY <1>2, <1>3, ReflaggedEffect
<1>5. Good(CpvtId, f)
  BY <1>2, <1>3, ReflaggedGood
<1>. HIDE DEF f
<1>6. ASSUME c = NoCpvt
      PROVE  /\ SameCalls(p, q)
             /\ \A I, N : sys_chan \notin N => Kept(p.at_queue, q.at_queue, ok, I, N)
  <2>1. /\ h \in Pvts /\ h.chans = f.chans /\ h.cpvt = f.cpvt /\ h.last_dialed = f.last_dialed
        /\ \A I, N : sys_chan \notin N => Kept(f.at_queue, h.at_queue, ok, I, N)
    BY <1>4, HangupEffect
  <2>. HIDE DEF h
  <2>. QED  BY <1>1, <1>4, <1>6, <2>1 DEF SameCalls
<1>7. ASSUME c # NoCpvt
      PROVE  /\ Changed(p, q, c, "ACTIVE")
             /\ \A I, N : (Group295 /\ p.cpvt[c].dir = "outgoing" => c \notin N)
                             => Kept(p.at_queue, q.at_queue, ok, I, N)
  <2>1. "ACTIVE" \in call_state_t /\ "ACTIVE" # "RELEASED" /\ "ACTIVE" # "INIT"
        /\ c \in f.chans /\ c \in CpvtId
    BY <1>2, <1>4, <1>7 DEF call_state_t, Pvts
  <2>2. Changed(f, a, c, "ACTIVE") /\ RestSame(f, a)
    BY <1>4, <2>1, ChangeEffect
  <2>3. CallsOK(a)
    BY <1>5, <2>1, ChangeGood DEF Good
  <2>. HIDE DEF a
  <2>4. Changed(p, a, c, "ACTIVE") /\ a.at_queue = p.at_queue /\ c \in a.chans
    BY <1>4, <2>1, <2>2 DEF Changed, RestSame
  <2>5. a.cpvt[c].dir = p.cpvt[c].dir /\ a.cpvt[c].state = "ACTIVE"
    BY <2>1, <2>4 DEF Changed, Alike
  <2>6. /\ g \in Pvts /\ g.chans = a.chans /\ g.cpvt = a.cpvt /\ g.last_dialed = a.last_dialed
        /\ \A I, N : c \notin N => Kept(a.at_queue, g.at_queue, ok, I, N)
    BY <2>3, <2>4, <2>5, HangupEffect
  <2>7. SameCalls(a, l) /\ CallsOK(l) /\ \A I, N : Kept(a.at_queue, l.at_queue, ok, I, N)
    BY <2>3, clccQueue DEF Kept
  <2>. HIDE DEF g, l
  <2>8. /\ FineJob(at_enque_conference) /\ "D" \notin Codes(at_enque_conference)
        /\ "CHUP" \notin Codes(at_enque_conference)
    BY JobsFine
  <2>9. c \in l.chans \union {sys_chan}
    BY <2>4, <2>7 DEF SameCalls
  <2>10. SameCalls(l, j) /\ \A I, N : Kept(l.at_queue, j.at_queue, ok, I, N)
    BY <2>7, <2>8, <2>9, InsertQueue DEF Kept
  <2>. HIDE DEF j
  <2>11. Still(a, g) /\ Still(a, l) /\ Still(a, j)
    BY <2>6, <2>7, <2>10, StillTransitive, SameCallsTransitive DEF SameCalls
  <2>12. \A I, N : Kept(a.at_queue, j.at_queue, ok, I, N)
    BY <2>7, <2>10, KeptTransitive
  <2>13. q = g \/ q = l \/ q = j
    BY <1>1, <1>7
  <2>14. Changed(p, q, c, "ACTIVE")
    BY <2>4, <2>11, <2>13, StillTransitive
  <2>15. ASSUME NEW I, NEW N, Group295 /\ p.cpvt[c].dir = "outgoing" => c \notin N
         PROVE  Kept(p.at_queue, q.at_queue, ok, I, N)
    BY <1>1, <1>7, <2>4, <2>5, <2>6, <2>7, <2>12, <2>15
  <2>. QED  BY <2>14, <2>15
<1>. QED  BY <1>6, <1>7 DEF q

\* ^CEND, of a context or of none.
LEMMA EndedEffect ==
    ASSUME NEW p, Good(CpvtId, p), NEW c \in p.chans \union {NoCpvt}, NEW ok \in BOOLEAN,
           c # NoCpvt => p.cpvt[c].state # "RELEASED"
    PROVE  LET q == Ended(p, c, ok)
           IN  /\ c = NoCpvt => SameCalls(p, q)
               /\ c # NoCpvt => Released(p, q, c)
               /\ \A I, N : sys_chan \notin N /\ c \notin I => Kept(p.at_queue, q.at_queue, ok, I, N)
<1>. DEFINE l == request_clcc(p, ok)
            n == NeedHangup(l, c, FALSE)
            r == change_channel_state(n, c, "RELEASED")
            q == Ended(p, c, ok)
<1>1. (c = NoCpvt => q = l) /\ (c # NoCpvt => q = r)
  BY DEF Ended
<1>. HIDE DEF q
<1>2. p \in Pvts /\ CallsOK(p)
  BY DEF Good, CallsOK
<1>3. SameCalls(p, l) /\ \A I, N : Kept(p.at_queue, l.at_queue, ok, I, N)
  BY <1>2, clccQueue DEF Kept
<1>4. Good(CpvtId, l)
  BY clccGood
<1>. HIDE DEF l
<1>5. ASSUME c # NoCpvt
      PROVE  /\ Released(p, q, c)
             /\ \A I, N : sys_chan \notin N /\ c \notin I => Kept(p.at_queue, q.at_queue, ok, I, N)
  <2>1. l \in Pvts /\ c \in CpvtId \union {sys_chan} /\ c \in l.chans /\ c \in CpvtId
    BY <1>2, <1>3, <1>5 DEF SameCalls, Pvts
  <2>2. Marked(l, n, c, FALSE) /\ n \in Pvts
    BY ONLY <2>1, NeedHangupEffect
  <2>. HIDE DEF n
  <2>3. n.chans = l.chans /\ n.at_queue = l.at_queue /\ n.last_dialed = l.last_dialed
    BY <2>2 DEF Marked, RestSame
  <2>4. c \in n.chans /\ n.cpvt[c].state # "RELEASED"
    BY <1>3, <1>5, <2>1, <2>2, <2>3 DEF Marked, SameCalls
  <2>5. Released(n, r, c) /\ r.at_queue = Unlinked(n.at_queue, c)
    BY <2>2, <2>4, ReleaseEffect
  <2>. HIDE DEF r
  <2>6. Released(p, r, c)
    <3>1. r.chans = p.chans \ {c} /\ r.last_dialed = IF p.last_dialed = c THEN NoCpvt ELSE p.last_dialed
      BY <1>3, <2>3, <2>5 DEF Released, SameCalls
    <3>2. ASSUME NEW d \in r.chans
          PROVE  Alike(r.cpvt[d], p.cpvt[d]) /\ r.cpvt[d].state = p.cpvt[d].state
      <4>1. d # c /\ d \in CpvtId
        BY <1>2, <3>1 DEF Pvts
      <4>. QED  BY <1>3, <2>2, <2>5, <4>1 DEF Released, SameCalls, Marked
    <3>. QED  BY <3>1, <3>2 DEF Released
  <2>7. l.at_queue \in Seq(Tasks)
    BY <2>1 DEF Pvts
  <2>8. ASSUME NEW I, NEW N, sys_chan \notin N, c \notin I
        PROVE  Kept(l.at_queue, r.at_queue, ok, I, N)
    <3>1. QueueFor(l.at_queue, I, N) => \A k \in Dials(l.at_queue) : l.at_queue[k].cpvt # c
      BY <2>8 DEF QueueFor, TaskFor, Dials
    <3>2. r.at_queue = Unlinked(l.at_queue, c)
      BY <2>3, <2>5
    <3>3. /\ QueueFor(l.at_queue, I, N) /\ (\A k \in Dials(l.at_queue) : l.at_queue[k].cpvt # c)
               => QueueFor(r.at_queue, I, N)
          /\ Dials(r.at_queue) = Dials(l.at_queue)
          /\ l.at_queue # <<>> => r.at_queue # <<>> /\ HeadCode(r.at_queue) = HeadCode(l.at_queue)
      BY <2>7, <2>8, <3>2, UnlinkedQueue
    <3>. QED  BY <3>1, <3>3 DEF Kept, Longer
  <2>. QED  BY <1>1, <1>3, <1>5, <2>6, <2>8, KeptTransitive
<1>6. c = NoCpvt => SameCalls(p, q) /\ \A I, N : Kept(p.at_queue, q.at_queue, ok, I, N)
  BY <1>1, <1>3
<1>. QED  BY <1>5, <1>6 DEF q

\* Context c is the call idx that the modem dials.
Numbered(p, q, c, idx) ==
    /\ q.chans = p.chans /\ q.last_dialed = NoCpvt
    /\ \A d \in CpvtId :
          /\ q.cpvt[d].dir = p.cpvt[d].dir /\ q.cpvt[d].called = p.cpvt[d].called
          /\ q.cpvt[d].channel = p.cpvt[d].channel
          /\ q.cpvt[d].need_hangup = p.cpvt[d].need_hangup
          /\ q.cpvt[d].idx = IF d = c THEN idx ELSE p.cpvt[d].idx
          /\ q.cpvt[d].state = IF d = c THEN "DIALING" ELSE p.cpvt[d].state

\* ^ORIG, with a call dialed last and without.
LEMMA OriginatedEffect ==
    ASSUME NEW p, Good(CpvtId, p), NEW idx \in 0 .. MaxCallIdx, NEW ok \in BOOLEAN
    PROVE  LET q == Originated(p, idx, ok)
               c == p.last_dialed
           IN  /\ c = NoCpvt => SameCalls(p, q)
               /\ c # NoCpvt => c \in p.chans /\ Numbered(p, q, c, idx)
               /\ \A I, N : Kept(p.at_queue, q.at_queue, ok, I, N)
<1>. DEFINE c == p.last_dialed
            f == [p EXCEPT !.last_dialed = NoCpvt]
            n == [f EXCEPT !.cpvt[c].idx = idx]
            d == change_channel_state(n, c, "DIALING")
            r == request_clcc(d, ok)
            q == Originated(p, idx, ok)
<1>1. q = IF c = NoCpvt THEN f ELSE r
  BY DEF Originated
<1>2. c \in p.chans \union {NoCpvt} /\ p \in Pvts /\ CallsOK(p) /\ c \in CpvtId \union {NoCpvt}
  BY DEF Good, CallsOK, Pvts
<1>3. /\ f.chans = p.chans /\ f.cpvt = p.cpvt /\ f.at_queue = p.at_queue
      /\ f.last_dialed = NoCpvt
      /\ CallsOK(f) /\ f \in Pvts /\ Good(CpvtId, f)
  <2>1. f = Reflagged(p, p.dialing, p.ring, p.cwaiting, NoCpvt)
    BY <1>2 DEF Reflagged, Pvts
  <2>2. p.dialing \in BOOLEAN /\ p.ring \in BOOLEAN /\ p.cwaiting \in BOOLEAN
        /\ NoCpvt \in p.chans \union {NoCpvt}
    BY <1>2 DEF Pvts
  <2>. HIDE DEF f
  <2>. QED  BY <1>2, <2>1, <2>2, ReflaggedEffect, ReflaggedGood
<1>. HIDE DEF f, q, c
<1>4. ASSUME c = NoCpvt
      PROVE  SameCalls(p, q) /\ q.at_queue = p.at_queue
  BY <1>1, <1>3, <1>4 DEF SameCalls, c
<1>5. ASSUME c # NoCpvt
      PROVE  /\ c \in p.chans /\ Numbered(p, q, c, idx)
             /\ \A I, N : Kept(p.at_queue, q.at_queue, ok, I, N)
  <2>1. "DIALING" \in call_state_t /\ "DIALING" # "RELEASED" /\ "DIALING" # "INIT"
        /\ c \in f.chans /\ c \in p.chans /\ c \in CpvtId
    BY <1>2, <1>3, <1>5 DEF call_state_t
  <2>2. /\ CallsOK(n) /\ Noted(f, n, c) /\ RestSame(f, n)
        /\ n.cpvt[c].idx = idx /\ n.cpvt[c].called = f.cpvt[c].called
        /\ n.cpvt[c].need_hangup = f.cpvt[c].need_hangup
    BY <1>3, <2>1, NumberedEffect
  <2>3. Good(CpvtId, n)
    BY <1>3, <2>1, NumberedKeeps, KeepsGood
  <2>. HIDE DEF n
  <2>4. n \in Pvts /\ c \in n.chans
    BY <2>1, <2>2 DEF CallsOK, RestSame
  <2>5. Changed(n, d, c, "DIALING") /\ RestSame(n, d)
    BY <2>1, <2>4, ChangeEffect
  <2>6. CallsOK(d)
    BY <2>1, <2>3, <2>4, ChangeGood DEF Good
  <2>. HIDE DEF d
  <2>7. SameCalls(d, r) /\ \A I, N : Kept(d.at_queue, r.at_queue, ok, I, N)
    BY <2>6, clccQueue DEF Kept
  <2>. HIDE DEF r
  <2>8. q = r
    BY <1>1, <1>5
  <2>9. q.chans = p.chans /\ q.last_dialed = NoCpvt /\ d.at_queue = p.at_queue
    BY <1>3, <2>2, <2>5, <2>7, <2>8 DEF SameCalls, RestSame
  <2>10. ASSUME NEW e \in CpvtId
         PROVE  /\ q.cpvt[e].dir = p.cpvt[e].dir /\ q.cpvt[e].called = p.cpvt[e].called
                /\ q.cpvt[e].channel = p.cpvt[e].channel
                /\ q.cpvt[e].need_hangup = p.cpvt[e].need_hangup
                /\ q.cpvt[e].idx = IF e = c THEN idx ELSE p.cpvt[e].idx
                /\ q.cpvt[e].state = IF e = c THEN "DIALING" ELSE p.cpvt[e].state
    <3>1. q.cpvt[e] = d.cpvt[e] /\ Alike(d.cpvt[e], n.cpvt[e])
          /\ d.cpvt[e].state = IF e = c THEN "DIALING" ELSE n.cpvt[e].state
      BY <2>5, <2>7, <2>8 DEF SameCalls, Changed
    <3>2. /\ n.cpvt[e].dir = p.cpvt[e].dir /\ n.cpvt[e].state = p.cpvt[e].state
          /\ n.cpvt[e].channel = p.cpvt[e].channel
          /\ e # c => Alike(n.cpvt[e], p.cpvt[e])
      BY <1>3, <2>2 DEF Noted
    <3>. QED  BY <1>3, <2>2, <3>1, <3>2 DEF Alike
  <2>. QED  BY <2>1, <2>7, <2>8, <2>9, <2>10 DEF Numbered
<1>6. \A I, N : Kept(p.at_queue, q.at_queue, ok, I, N)
  BY <1>4, <1>5, <1>2, KeptTransitive
<1>. QED  BY <1>4, <1>5, <1>6 DEF q, c

\* A call comes in that line l is about, and gets a context.
Comes(p, q, l) ==
    /\ l.dir = "incoming" /\ WithIdx(p, l.idx) = {}
    /\ \E c \in CpvtId \ p.chans :
          /\ q.chans = p.chans \union {c} /\ q.last_dialed = p.last_dialed
          /\ q.at_queue = p.at_queue
          /\ q.cpvt[c].idx = l.idx /\ q.cpvt[c].dir = "incoming" /\ q.cpvt[c].state = l.state
          /\ q.cpvt[c].need_hangup
          /\ \A d \in CpvtId : d # c => q.cpvt[d] = p.cpvt[d]

\* A line of +CLCC.
LEMMA ListedEffect ==
    ASSUME NEW p, CallsOK(p), NEW l \in Line, NEW ok \in BOOLEAN, NEW q \in Listed(p, l, ok)
    PROVE  \/ /\ SameCalls(p, q)
              /\ \A I, N : sys_chan \notin N => Kept(p.at_queue, q.at_queue, ok, I, N)
           \/ \E c \in WithIdx(p, l.idx) :
                 /\ p.cpvt[c].dir = l.dir
                 /\ Changed(p, q, c, l.state) /\ q.at_queue = p.at_queue
           \/ Comes(p, q, l)
<1>1. p \in Pvts
  BY DEF CallsOK
<1>2. SameCalls(p, p) /\ \A I, N : Kept(p.at_queue, p.at_queue, ok, I, N)
  BY <1>1, SameCallsTransitive, KeptTransitive
<1>3. CASE WithIdx(p, l.idx) # {}
  <2>1. PICK c \in WithIdx(p, l.idx) :
               q = IF p.cpvt[c].dir = l.dir THEN change_channel_state(p, c, l.state) ELSE p
    BY <1>3 DEF Listed
  <2>2. c \in CpvtId
    BY <1>1 DEF WithIdx, Pvts
  <2>3. LET r == change_channel_state(p, c, l.state)
        IN  Changed(p, r, c, l.state) /\ RestSame(p, r)
    BY <1>1, <2>2, LineType, ChangeEffect
  <2>. QED  BY <1>2, <2>1, <2>3 DEF RestSame
<1>4. CASE /\ WithIdx(p, l.idx) = {} /\ l.dir = "incoming"
           /\ l.state \in {"INCOMING", "WAITING"}
  <2>. DEFINE new == [NewCpvt(l.idx, "incoming", l.state, "none") EXCEPT !.need_hangup = TRUE]
              h == HangupQueued(p, sys_chan, ok)
  <2>1. \/ q = p \/ q = h
        \/ \E c \in CpvtId \ p.chans : q = cpvt_alloc(p, c, new)
    BY <1>4 DEF Listed, StartPbx
  <2>2. /\ h \in Pvts /\ h.chans = p.chans /\ h.cpvt = p.cpvt /\ h.last_dialed = p.last_dialed
        /\ \A I, N : sys_chan \notin N => Kept(p.at_queue, h.at_queue, ok, I, N)
    BY HangupEffect
  <2>3. SameCalls(p, h)
    BY <2>2 DEF SameCalls
  <2>4. /\ new.idx = l.idx /\ new.dir = "incoming" /\ new.state = l.state /\ new.need_hangup
    BY DEF NewCpvt
  <2>. HIDE DEF new, h
  <2>5. ASSUME NEW c \in CpvtId \ p.chans, q = cpvt_alloc(p, c, new)
        PROVE  Comes(p, q, l)
    BY <1>1, <1>4, <2>4, <2>5, AllocEffect DEF Comes
  <2>. QED  BY <1>2, <2>1, <2>2, <2>3, <2>5
<1>5. CASE /\ WithIdx(p, l.idx) = {}
           /\ ~(l.dir = "incoming" /\ l.state \in {"INCOMING", "WAITING"})
  BY <1>2, <1>5 DEF Listed
<1>. QED  BY <1>3, <1>4, <1>5

-----------------------------------------------------------------------------
(* A step of the modem goes on with the story                              *)

LEMMA StoryGoesOn ==
    ASSUME ModemOK,
           \/ Chatted \/ Answered(OK) \/ Answered(ERROR) \/ DialTaken
           \/ \E x \in CallIdx : CallBegun(x) \/ CallOver(x) \/ CallComes(x),
           "silent" \notin Faults
    PROVE  /\ GoesOn(events, mcall, events', mcall')
           /\ "incoming" \notin Features => GoesOnAlone(events, mcall, events', mcall')
<1>. DEFINE Done == GoesOnAlone(events, mcall, events', mcall')
<1>1. /\ events \in Seq(Results) /\ OK \in Results /\ ERROR \in Results
      /\ OK.res = "OK" /\ ERROR.res = "ERROR"
      /\ \A i \in CallIdx : Event("ORIG", i) \in Results /\ Event("CEND", i) \in Results
  BY EventType DEF ModemOK, Event, OK, ERROR
<1>2. ASSUME NEW ev \in Seq(Results), NEW e, Chats(e, mcall)
      PROVE  Append(ev, e) \in Seq(Results) /\ GoesOnAlone(ev, mcall, Append(ev, e), mcall)
  <2>1. e \in Results /\ e.res \notin {"ORIG", "CEND"}
        /\ \A i \in CallIdx : Tells(e, i) => There(mcall, i)
    BY <1>2 DEF Chats
  <2>. QED  BY <2>1, SaidQuietly, AppendedAt
<1>3. ASSUME NEW ev \in Seq(Results), NEW a \in {OK, ERROR}
      PROVE  Append(ev, a) \in Seq(Results) /\ GoesOnAlone(ev, mcall, Append(ev, a), mcall)
  <2>1. a \in Results /\ a.res \notin {"ORIG", "CEND"} /\ \A i : ~Tells(a, i)
    BY <1>1 DEF Tells
  <2>. QED  BY <2>1, SaidQuietly, AppendedAt
<1>4. SameOnes(mcall, mcall') => GoesOnAlone(events', mcall, events', mcall')
  BY SameThere DEF SameOnes
<1>5. GoesOnAlone(events, mcall, events, mcall)
  BY SameThere
<1>6. ASSUME Chatted PROVE Done
  <2>1. GoesOnAlone(events, mcall, events', mcall)
    <3>1. CASE events' = events
      BY <1>5, <3>1
    <3>2. CASE \E e : Chats(e, mcall) /\ events' = Append(events, e)
      BY <1>1, <1>2, <3>2
    <3>. QED  BY <1>6, <3>1, <3>2 DEF Chatted
  <2>2. GoesOnAlone(events', mcall, events', mcall')
    BY <1>4, <1>6 DEF Chatted
  <2>. QED  BY <2>1, <2>2, GoesOnTransitive
<1>7. ASSUME NEW a \in {OK, ERROR}, Answered(a) PROVE Done
  <2>1. SameOnes(mcall, mcall') /\ (events' = Append(events, a) \/ \E e : SaysWith(e, a))
    BY <1>7 DEF Answered
  <2>2. CASE events' = Append(events, a)
    BY <1>1, <1>3, <1>4, <2>1, <2>2, GoesOnTransitive
  <2>3. CASE \E e : SaysWith(e, a)
    <3>1. PICK e : SaysWith(e, a)
      BY <2>3
    <3>2. GoesOnAlone(events, mcall, events', mcall)
      <4>1. CASE events' = Append(Append(events, e), a)
        <5>. DEFINE ev == Append(events, e)
        <5>1. ev \in Seq(Results) /\ GoesOnAlone(events, mcall, ev, mcall)
          BY <1>1, <1>2, <3>1 DEF SaysWith
        <5>. HIDE DEF ev
        <5>2. GoesOnAlone(ev, mcall, Append(ev, a), mcall)
          BY <1>3, <5>1
        <5>. QED  BY <4>1, <5>1, <5>2, GoesOnTransitive DEF ev
      <4>2. CASE events' = Append(Append(events, a), e)
        <5>. DEFINE ev == Append(events, a)
        <5>1. ev \in Seq(Results) /\ GoesOnAlone(events, mcall, ev, mcall)
          BY <1>1, <1>3
        <5>. HIDE DEF ev
        <5>2. GoesOnAlone(ev, mcall, Append(ev, e), mcall)
          BY <1>2, <3>1, <5>1 DEF SaysWith
        <5>. QED  BY <4>2, <5>1, <5>2, GoesOnTransitive DEF ev
      <4>. QED  BY <3>1, <4>1, <4>2 DEF SaysWith
    <3>. QED  BY <1>4, <2>1, <3>2, GoesOnTransitive
  <2>. QED  BY <2>1, <2>2, <2>3
<1>8. ASSUME DialTaken PROVE Done
  BY <1>1, <1>3, <1>8 DEF DialTaken
<1>9. ASSUME NEW x \in CallIdx, CallBegun(x) PROVE Done
  <2>1. /\ ~There(mcall, x) /\ There(mcall', x)
        /\ \A i \in CallIdx : i # x => There(mcall', i) = There(mcall, i)
    BY <1>9 DEF CallBegun, There
  <2>2. /\ events' = Append(events, Event("ORIG", x)) /\ Event("ORIG", x) \in Results
        /\ Event("ORIG", x).res = "ORIG" /\ Event("ORIG", x).idx = x
    BY <1>1, <1>9 DEF CallBegun, Event
  <2>. QED  BY <1>1, <2>1, <2>2, SaidBegins
<1>10. ASSUME NEW x \in CallIdx, CallOver(x) PROVE Done
  <2>1. /\ There(mcall, x) /\ ~There(mcall', x)
        /\ \A i \in CallIdx : i # x => There(mcall', i) = There(mcall, i)
    BY <1>10 DEF CallOver, There, NoCall
  <2>2. /\ events' = Append(events, Event("CEND", x)) /\ Event("CEND", x) \in Results
        /\ Event("CEND", x).res = "CEND" /\ Event("CEND", x).idx = x
    BY <1>1, <1>10 DEF CallOver, Event
  <2>. QED  BY <1>1, <2>1, <2>2, SaidEnds
<1>11. ASSUME NEW x \in CallIdx, CallComes(x)
       PROVE  "incoming" \in Features /\ GoesOn(events, mcall, events', mcall')
  <2>1. \A i \in CallIdx : There(mcall, i) => There(mcall', i)
    BY <1>11 DEF CallComes, There
  <2>2. GoesOnAlone(events, mcall, events', mcall)
    BY <1>1, <1>2, <1>11 DEF CallComes
  <2>3. GoesOn(events', mcall, events', mcall')
    BY <2>1, MoreThere
  <2>. QED  BY <1>11, <2>2, <2>3, GoesOnTransitive DEF CallComes, GoesOnAlone
<1>12. Done => GoesOn(events, mcall, events', mcall')
  BY DEF GoesOnAlone
<1>. HIDE DEF Done
<1>13. Done \/ ("incoming" \in Features /\ GoesOn(events, mcall, events', mcall'))
  BY <1>6, <1>7, <1>8, <1>9, <1>10, <1>11
<1>. QED  BY <1>12, <1>13 DEF Done

\* All calls are of one direction, and what is said is said of such calls:
\* lines of +CLCC are of the call they name, and ^ORIG is of a call that is
\* placed.
SaysOf(e, way) ==
    /\ \A i \in DOMAIN e.lines : e.lines[i].idx = i /\ e.lines[i].dir = way
    /\ e.res = "CEND" => e = Event("CEND", e.idx)
    /\ e.res = "ORIG" => way = "outgoing"

AllSay(ev, way) == \A k \in 1 .. Len(ev) : SaysOf(ev[k], way)

OneWay(ev, m, way) ==
    /\ \A i \in CallIdx : There(m, i) => m[i].dir = way
    /\ AllSay(ev, way)

LEMMA AppendSays ==
    ASSUME NEW way, NEW ev \in Seq(Results), AllSay(ev, way), NEW e \in Results, SaysOf(e, way)
    PROVE  AllSay(Append(ev, e), way) /\ Append(ev, e) \in Seq(Results)
<1>. DEFINE fv == Append(ev, e)
<1>1. /\ Len(fv) = Len(ev) + 1 /\ Len(ev) \in Nat /\ fv \in Seq(Results)
      /\ \A k \in 1 .. Len(ev) : fv[k] = ev[k]
      /\ fv[Len(ev) + 1] = e
  BY AppendedAt
<1>. HIDE DEF fv
<1>2. \A k \in 1 .. Len(fv) : k \in 1 .. Len(ev) \/ k = Len(ev) + 1
  BY <1>1
<1>3. AllSay(fv, way)
  BY <1>1, <1>2 DEF AllSay
<1>. QED  BY <1>1, <1>3 DEF fv

LEMMA TailSays ==
    ASSUME NEW way, NEW ev \in Seq(Results), ev # <<>>, AllSay(ev, way)
    PROVE  AllSay(Tail(ev), way) /\ SaysOf(ev[1], way)
<1>1. /\ Len(ev) \in Nat \ {0} /\ Len(Tail(ev)) = Len(ev) - 1
      /\ \A k \in 1 .. Len(ev) - 1 : Tail(ev)[k] = ev[k + 1]
  BY ReadAt
<1>2. 1 \in 1 .. Len(ev) /\ \A k \in 1 .. Len(ev) - 1 : k + 1 \in 1 .. Len(ev)
  BY <1>1
<1>. QED  BY <1>1, <1>2 DEF AllSay

LEMMA OneWayModem ==
    ASSUME ModemOK, NEW way, OneWay(events, mcall, way),
           \/ Chatted \/ Answered(OK) \/ Answered(ERROR) \/ DialTaken
           \/ \E x \in CallIdx : \/ CallOver(x)
                                 \/ way = "outgoing" /\ CallBegun(x)
                                 \/ way = "incoming" /\ CallComes(x)
    PROVE  OneWay(events', mcall', way)
<1>1. /\ events \in Seq(Results) /\ AllSay(events, way)
      /\ \A i \in CallIdx : There(mcall, i) => mcall[i].dir = way
  BY DEF ModemOK, OneWay
<1>2. /\ OK \in Results /\ ERROR \in Results /\ SaysOf(OK, way) /\ SaysOf(ERROR, way)
      /\ \A i \in CallIdx : /\ Event("CEND", i) \in Results /\ SaysOf(Event("CEND", i), way)
                            /\ Event("ORIG", i) \in Results
                            /\ way = "outgoing" => SaysOf(Event("ORIG", i), way)
  <2>1. \A res, i : DOMAIN Event(res, i).lines = {} /\ Event(res, i).res = res /\ Event(res, i).idx = i
    BY DEF Event
  <2>. QED  BY <2>1, EventType DEF SaysOf, OK, ERROR
<1>3. ASSUME NEW e, Chats(e, mcall)
      PROVE  e \in Results /\ SaysOf(e, way)
  <2>1. e \in Results /\ e.res \notin {"CEND", "ORIG"}
        /\ \A i \in DOMAIN e.lines : e.lines[i].idx = i /\ There(mcall, i) /\ e.lines[i].dir = mcall[i].dir
    BY <1>3 DEF Chats
  <2>2. DOMAIN e.lines \subseteq CallIdx
    BY <2>1 DEF Results
  <2>. QED  BY <1>1, <2>1, <2>2 DEF SaysOf
<1>4. SameOnes(mcall, mcall') => \A i \in CallIdx : There(mcall', i) => mcall'[i].dir = way
  BY <1>1 DEF SameOnes
<1>5. ASSUME Chatted PROVE OneWay(events', mcall', way)
  BY <1>1, <1>3, <1>4, <1>5, AppendSays DEF Chatted, OneWay
<1>6. ASSUME NEW a \in {OK, ERROR}, Answered(a) PROVE OneWay(events', mcall', way)
  <2>1. SameOnes(mcall, mcall') /\ (events' = Append(events, a) \/ \E e : SaysWith(e, a))
    BY <1>6 DEF Answered
  <2>2. AllSay(Append(events, a), way) /\ Append(events, a) \in Seq(Results)
        /\ a \in Results /\ SaysOf(a, way)
    BY <1>1, <1>2, <1>6, AppendSays
  <2>3. ASSUME NEW e, SaysWith(e, a) PROVE AllSay(events', way)
    <3>1. e \in Results /\ SaysOf(e, way)
      BY <1>3, <2>3 DEF SaysWith
    <3>2. AllSay(Append(events, e), way) /\ Append(events, e) \in Seq(Results)
      BY <1>1, <3>1, AppendSays
    <3>3. AllSay(Append(Append(events, e), a), way) /\ AllSay(Append(Append(events, a), e), way)
      BY <2>2, <3>1, <3>2, AppendSays
    <3>. QED  BY <2>3, <3>3 DEF SaysWith
  <2>. QED  BY <1>4, <2>1, <2>2, <2>3 DEF OneWay
<1>7. ASSUME DialTaken PROVE OneWay(events', mcall', way)
  BY <1>1, <1>2, <1>7, AppendSays DEF DialTaken, OneWay
<1>8. ASSUME NEW x \in CallIdx, CallOver(x) PROVE OneWay(events', mcall', way)
  <2>1. \A i \in CallIdx : There(mcall', i) => mcall'[i].dir = way
    BY <1>1, <1>8 DEF CallOver, There, NoCall
  <2>2. AllSay(events', way)
    BY <1>1, <1>2, <1>8, AppendSays DEF CallOver
  <2>. QED  BY <2>1, <2>2 DEF OneWay
<1>9. ASSUME NEW x \in CallIdx, way = "outgoing", CallBegun(x) PROVE OneWay(events', mcall', way)
  <2>1. \A i \in CallIdx : There(mcall', i) => mcall'[i].dir = way
    BY <1>1, <1>9 DEF CallBegun, There
  <2>2. AllSay(events', way)
    BY <1>1, <1>2, <1>9, AppendSays DEF CallBegun
  <2>. QED  BY <2>1, <2>2 DEF OneWay
<1>10. ASSUME NEW x \in CallIdx, way = "incoming", CallComes(x) PROVE OneWay(events', mcall', way)
  <2>1. \A i \in CallIdx : There(mcall', i) => mcall'[i].dir = way
    BY <1>1, <1>10 DEF CallComes, There
  <2>2. AllSay(events', way)
    BY <1>1, <1>3, <1>10, AppendSays DEF CallComes
  <2>. QED  BY <2>1, <2>2 DEF OneWay
<1>. QED  BY <1>5, <1>6, <1>7, <1>8, <1>9, <1>10

\* at_queue_run after a handler that left the device as p.
LEMMA HandledEffect ==
    ASSUME NEW p, CallsOK(p), NEW ok \in BOOLEAN, NEW fatal \in BOOLEAN, Handled(p, ok, fatal)
    PROVE  /\ SameCalls(p, pvt') /\ UNCHANGED <<threads, modem>>
           /\ \A I, N : QueueFor(p.at_queue, I, N) => QueueFor(pvt'.at_queue, I, N)
           /\ \/ conn' = "up" /\ events' = Tail(events)
              \/ conn' = "lost" /\ events' = <<>>
           /\ ok /\ ~fatal => /\ conn' = "up"
                              /\ \A I, N : Longer(p.at_queue, pvt'.at_queue, I, N)
<1>. DEFINE r == at_queue_run(p, ok)
<1>1. SameCalls(p, r) /\ \A I, N : /\ QueueFor(p.at_queue, I, N) => QueueFor(r.at_queue, I, N)
                                   /\ ok => Longer(p.at_queue, r.at_queue, I, N)
  BY RunQueue
<1>. HIDE DEF r
<1>2. SameCalls(p, p)
  BY SameCallsTransitive
<1>3. /\ pvt' = IF fatal THEN p ELSE r
      /\ conn' = IF fatal \/ RunFails(p, ok) THEN "lost" ELSE "up"
      /\ events' = IF fatal \/ RunFails(p, ok) THEN <<>> ELSE Tail(events)
      /\ UNCHANGED <<threads, modem>>
  BY DEF Handled, r
<1>4. ok => ~RunFails(p, ok)
  BY DEF RunFails
<1>. QED  BY <1>1, <1>2, <1>3, <1>4

-----------------------------------------------------------------------------
(* Calls that come in                                                      *)

Linked(p) == {c \in p.chans : p.cpvt[c].channel}

\* Every context is of a call that comes in, has its number for itself, and
\* will be hung up with its channel: no hangup of a call with a channel is
\* queued, and nothing is dialed.
InCalls(p) ==
    /\ \A c \in p.chans : /\ p.cpvt[c].dir = "incoming"
                          /\ p.cpvt[c].state \notin {"INIT", "RELEASED"}
                          /\ p.cpvt[c].idx \in CallIdx
                          /\ p.cpvt[c].channel => p.cpvt[c].need_hangup
    /\ \A b, c \in p.chans : p.cpvt[b].idx = p.cpvt[c].idx => b = c
    /\ QueueFor(p.at_queue, {}, Linked(p))

\* What keeps it, when no call comes in.
Meek(p, q) ==
    /\ q.chans \subseteq p.chans
    /\ \A c \in q.chans :
          /\ q.cpvt[c].idx = p.cpvt[c].idx /\ q.cpvt[c].dir = p.cpvt[c].dir
          /\ q.cpvt[c].state \in {"INIT", "RELEASED"} => q.cpvt[c].state = p.cpvt[c].state
          /\ q.cpvt[c].channel => p.cpvt[c].channel
          /\ q.cpvt[c].channel /\ p.cpvt[c].need_hangup => q.cpvt[c].need_hangup
    /\ QueueFor(p.at_queue, {}, Linked(p)) => QueueFor(q.at_queue, {}, Linked(q))

LEMMA MeekKeeps ==
    ASSUME NEW p, NEW q, NEW r
    PROVE  /\ Meek(p, p)
           /\ Meek(p, q) /\ InCalls(p) => InCalls(q)
           /\ Meek(p, q) /\ Meek(q, r) => Meek(p, r)
<1>1. Meek(p, p)
  BY DEF Meek
<1>2. Meek(p, q) /\ InCalls(p) => InCalls(q)
  BY DEF Meek, InCalls
<1>3. Meek(p, q) /\ Meek(q, r) => Meek(p, r)
  BY DEF Meek
<1>. QED  BY <1>1, <1>2, <1>3

\* Only the queue changed, or the state of one context.
LEMMA MeekSame ==
    ASSUME NEW p, p \in Pvts, NEW q, NEW c, NEW new, new \notin {"INIT", "RELEASED"},
           SameCalls(p, q) \/ Still(p, q) \/ Changed(p, q, c, new),
           QueueFor(p.at_queue, {}, Linked(p)) => QueueFor(q.at_queue, {}, Linked(p))
    PROVE  Meek(p, q)
<1>1. q.chans = p.chans /\ p.chans \subseteq CpvtId
  BY DEF SameCalls, Still, Changed, Pvts
<1>2. ASSUME NEW d \in CpvtId
      PROVE  Alike(q.cpvt[d], p.cpvt[d]) /\ q.cpvt[d].state \in {p.cpvt[d].state, new}
  BY NoCpvtAssumption DEF SameCalls, Still, Changed, Alike
<1>3. Linked(q) = Linked(p)
  BY <1>1, <1>2 DEF Linked, Alike
<1>4. \A d \in q.chans :
          /\ q.cpvt[d].idx = p.cpvt[d].idx /\ q.cpvt[d].dir = p.cpvt[d].dir
          /\ q.cpvt[d].state \in {"INIT", "RELEASED"} => q.cpvt[d].state = p.cpvt[d].state
          /\ q.cpvt[d].channel => p.cpvt[d].channel
          /\ q.cpvt[d].channel /\ p.cpvt[d].need_hangup => q.cpvt[d].need_hangup
  BY <1>1, <1>2 DEF Alike
<1>. QED  BY <1>1, <1>3, <1>4 DEF Meek

\* What of sys_chan's commands.
LEMMA LinkedCalls ==
    ASSUME NEW p, p \in Pvts
    PROVE  sys_chan \notin Linked(p) /\ Linked(p) \subseteq CpvtId
BY SysChanAssumption DEF Linked, Pvts

\* A job of a call, or of none, that neither dials nor hangs up.
LEMMA MeekInsert ==
    ASSUME NEW p, CallsOK(p), NEW c \in p.chans \union {sys_chan}, NEW job, FineJob(job),
           {"D", "CHUP"} \intersect Codes(job) = {}, NEW ok \in BOOLEAN
    PROVE  Meek(p, Insert(p, c, job, ok)) /\ CallsOK(Insert(p, c, job, ok))
<1>. DEFINE q == Insert(p, c, job, ok)
<1>1. "D" \notin Codes(job) /\ "CHUP" \notin Codes(job) /\ p \in Pvts
  BY DEF CallsOK
<1>2. /\ SameCalls(p, q) /\ CallsOK(q)
      /\ QueueFor(p.at_queue, {}, Linked(p)) => QueueFor(q.at_queue, {}, Linked(p))
  BY <1>1, InsertQueue
<1>. HIDE DEF q
<1>3. "ACTIVE" \notin {"INIT", "RELEASED"}
  OBVIOUS
<1>4. Meek(p, q)
  BY <1>1, <1>2, <1>3, MeekSame
<1>. QED  BY <1>2, <1>4 DEF q

LEMMA MeekHungUp ==
    ASSUME NEW p, CallsOK(p), NEW c \in p.chans, NEW ok \in BOOLEAN
    PROVE  Meek(p, HungUp(p, c, ok))
<1>. DEFINE q == HungUp(p, c, ok)
            N == Linked(p) \ {c}
<1>1. HangsUp(p, q, c) /\ (c \notin N => Kept(p.at_queue, q.at_queue, ok, {}, N)) /\ p \in Pvts
  BY HungUpEffect DEF CallsOK
<1>. HIDE DEF q
<1>2. p.chans \subseteq CpvtId /\ q.chans = p.chans
  BY <1>1 DEF Pvts, HangsUp
<1>3. Linked(q) = N
  BY <1>1, <1>2 DEF Linked, HangsUp, Alike
<1>4. QueueFor(p.at_queue, {}, Linked(p)) => QueueFor(p.at_queue, {}, N)
  BY QueueForOthers
<1>5. QueueFor(p.at_queue, {}, Linked(p)) => QueueFor(q.at_queue, {}, Linked(q))
  BY <1>1, <1>3, <1>4 DEF Kept
<1>6. ASSUME NEW d \in q.chans
      PROVE  /\ q.cpvt[d].idx = p.cpvt[d].idx /\ q.cpvt[d].dir = p.cpvt[d].dir
             /\ q.cpvt[d].state \in {"INIT", "RELEASED"} => q.cpvt[d].state = p.cpvt[d].state
             /\ q.cpvt[d].channel => p.cpvt[d].channel
             /\ q.cpvt[d].channel /\ p.cpvt[d].need_hangup => q.cpvt[d].need_hangup
  <2>1. /\ d \in CpvtId
        /\ q.cpvt[d].idx = p.cpvt[d].idx /\ q.cpvt[d].dir = p.cpvt[d].dir
        /\ q.cpvt[d].state = p.cpvt[d].state
        /\ d # c => Alike(q.cpvt[d], p.cpvt[d])
        /\ d = c => ~q.cpvt[d].channel
    BY <1>1, <1>2 DEF HangsUp
  <2>. QED  BY <2>1 DEF Alike
<1>7. Meek(p, q)
  BY <1>2, <1>5, <1>6 DEF Meek
<1>. QED  BY <1>7 DEF q

\* The head task has its head command left, and what it hangs up for has no
\* channel.
LEMMA HeadFacts ==
    ASSUME NEW p, CallsOK(p), ~QueueEmpty(p), NEW I, NEW N, QueueFor(p.at_queue, I, N)
    PROVE  /\ at_queue_head_task(p) = p.at_queue[1]
           /\ p.at_queue[1].cpvt \in p.chans \union {sys_chan}
           /\ at_queue_head_cmd(p).cmd = HeadCode(p.at_queue)
           /\ 1 \in 1 .. Len(p.at_queue)
           /\ HeadCode(p.at_queue) = "D" => 1 \in Dials(p.at_queue) /\ p.at_queue[1].cpvt \in I
           /\ HeadCode(p.at_queue) = "CHUP" => p.at_queue[1].cpvt \notin N
<1>. DEFINE q == p.at_queue
            t == q[1]
<1>1. /\ at_queue_head_task(p) = t /\ t.cpvt \in p.chans \union {sys_chan}
      /\ t.cindex \in Nat /\ t.cmds \in Seq(Commands)
  BY HeadTask
<1>2. q \in Seq(Tasks) /\ q # <<>>
  BY DEF CallsOK, Pvts, QueueEmpty
<1>3. 1 \in 1 .. Len(q)
  BY <1>2
<1>4. TaskFor(t, I, N)
  BY <1>3 DEF QueueFor
<1>5. t.cindex + 1 \in t.cindex + 1 .. Len(t.cmds)
  BY <1>1, <1>4 DEF TaskFor, Fine
<1>6. Pends(t, HeadCode(q))
  BY <1>5 DEF Pends, HeadCode
<1>7. at_queue_head_cmd(p).cmd = HeadCode(q)
  BY <1>1 DEF at_queue_head_cmd, at_queue_task_cmd, HeadCode
<1>. QED  BY <1>1, <1>3, <1>4, <1>6, <1>7 DEF TaskFor, Dials

LEMMA MeekRemoved ==
    ASSUME NEW p, CallsOK(p), NEW res
    PROVE  Meek(p, at_queue_remove_cmd(p, res)) /\ CallsOK(at_queue_remove_cmd(p, res))
<1>. DEFINE q == at_queue_remove_cmd(p, res)
<1>1. /\ SameCalls(p, q)
      /\ QueueFor(p.at_queue, {}, Linked(p)) => QueueFor(q.at_queue, {}, Linked(p))
  BY RemoveCmdQueue
<1>2. CallsOK(q) /\ p \in Pvts
  BY RemoveCmdKeeps, KeepsOK DEF CallsOK
<1>. HIDE DEF q
<1>3. "ACTIVE" \notin {"INIT", "RELEASED"}
  OBVIOUS
<1>4. Meek(p, q)
  BY <1>1, <1>2, <1>3, MeekSame
<1>. QED  BY <1>2, <1>4 DEF q

LEMMA MeekAcknowledged ==
    ASSUME NEW p, CallsOK(p), InCalls(p), ~QueueEmpty(p)
    PROVE  LET q == Acknowledged(p, at_queue_head_task(p).cpvt) IN Meek(p, q) /\ CallsOK(q)
<1>. DEFINE c == at_queue_head_task(p).cpvt
            q == Acknowledged(p, c)
            code == HeadCode(p.at_queue)
<1>1. c \in p.chans \union {sys_chan} /\ (code = "CHUP" => c \notin Linked(p))
  BY HeadFacts DEF InCalls
<1>. HIDE DEF c
<1>2. CallsOK(q) /\ Acks(p, q, c, code)
  BY <1>1, AcknowledgedEffect
<1>. HIDE DEF q, code
<1>3. q.chans = p.chans /\ q.at_queue = p.at_queue /\ p.chans \subseteq CpvtId
  BY <1>2 DEF Acks, CallsOK, Pvts
<1>4. ASSUME NEW d \in q.chans
      PROVE  /\ q.cpvt[d].idx = p.cpvt[d].idx /\ q.cpvt[d].dir = p.cpvt[d].dir
             /\ q.cpvt[d].state \in {"INIT", "RELEASED"} => q.cpvt[d].state = p.cpvt[d].state
             /\ q.cpvt[d].channel => p.cpvt[d].channel
             /\ q.cpvt[d].channel /\ p.cpvt[d].need_hangup => q.cpvt[d].need_hangup
  <2>1. /\ q.cpvt[d].idx = p.cpvt[d].idx /\ q.cpvt[d].dir = p.cpvt[d].dir
        /\ q.cpvt[d].state = p.cpvt[d].state
        /\ q.cpvt[d].channel = p.cpvt[d].channel
        /\ (d # c \/ code # "CHUP") /\ p.cpvt[d].need_hangup => q.cpvt[d].need_hangup
    BY <1>2, <1>3 DEF Acks
  <2>2. p.cpvt[d].channel => d # c \/ code # "CHUP"
    BY <1>1, <1>3 DEF Linked
  <2>. QED  BY <2>1, <2>2
<1>5. \A d \in p.chans : q.cpvt[d].channel = p.cpvt[d].channel
  BY <1>2, <1>3 DEF Acks
<1>6. Linked(q) = Linked(p)
  BY <1>3, <1>5 DEF Linked
<1>7. Meek(p, q)
  BY <1>3, <1>4, <1>6 DEF Meek
<1>. QED  BY <1>2, <1>7 DEF q, c

LEMMA MeekEnded ==
    ASSUME NEW p, Good(CpvtId, p), InCalls(p), NEW c \in p.chans \union {NoCpvt}, NEW ok \in BOOLEAN
    PROVE  LET q == Ended(p, c, ok)
           IN  Meek(p, q) /\ c \notin q.chans
<1>. DEFINE q == Ended(p, c, ok)
            N == Linked(p)
<1>1. c # NoCpvt => p.cpvt[c].state # "RELEASED"
  BY DEF InCalls
<1>2. p \in Pvts /\ NoCpvt \notin p.chans
  BY NoCpvtAssumption DEF Good, CallsOK, Pvts
<1>3. sys_chan \notin N /\ c \notin {}
  BY <1>2, LinkedCalls
<1>4. /\ c = NoCpvt => SameCalls(p, q)
      /\ c # NoCpvt => Released(p, q, c)
      /\ Kept(p.at_queue, q.at_queue, ok, {}, N)
  BY <1>1, <1>3, EndedEffect
<1>. HIDE DEF q
<1>5. QueueFor(p.at_queue, {}, N) => QueueFor(q.at_queue, {}, N)
  BY <1>4 DEF Kept
<1>6. ASSUME c = NoCpvt PROVE Meek(p, q) /\ c \notin q.chans
  <2>1. "ACTIVE" \notin {"INIT", "RELEASED"}
    OBVIOUS
  <2>. QED  BY <1>2, <1>4, <1>5, <1>6, <2>1, MeekSame DEF SameCalls
<1>7. ASSUME c # NoCpvt PROVE Meek(p, q) /\ c \notin q.chans
  <2>1. Released(p, q, c)
    BY <1>4, <1>7
  <2>2. q.chans = p.chans \ {c}
    BY <2>1 DEF Released
  <2>3. \A d \in q.chans : Alike(q.cpvt[d], p.cpvt[d]) /\ q.cpvt[d].state = p.cpvt[d].state
    BY <2>1 DEF Released
  <2>4. Linked(q) \subseteq N
    BY <2>2, <2>3 DEF Linked, Alike
  <2>5. QueueFor(q.at_queue, {}, N) => QueueFor(q.at_queue, {}, Linked(q))
    BY <2>4, QueueForOthers
  <2>6. \A d \in q.chans :
          /\ q.cpvt[d].idx = p.cpvt[d].idx /\ q.cpvt[d].dir = p.cpvt[d].dir
          /\ q.cpvt[d].state \in {"INIT", "RELEASED"} => q.cpvt[d].state = p.cpvt[d].state
          /\ q.cpvt[d].channel => p.cpvt[d].channel
          /\ q.cpvt[d].channel /\ p.cpvt[d].need_hangup => q.cpvt[d].need_hangup
    BY <2>3 DEF Alike
  <2>. QED  BY <1>5, <2>2, <2>5, <2>6 DEF Meek
<1>. QED  BY <1>6, <1>7 DEF q

LEMMA MeekConnected ==
    ASSUME NEW p, Good(CpvtId, p), InCalls(p), NEW c \in p.chans \union {NoCpvt}, NEW ok \in BOOLEAN
    PROVE  Meek(p, Connected(p, c, ok))
<1>. DEFINE q == Connected(p, c, ok)
            N == Linked(p)
<1>1. p \in Pvts /\ sys_chan \notin N
  BY LinkedCalls DEF Good, CallsOK
<1>2. c # NoCpvt => p.cpvt[c].dir # "outgoing"
  BY DEF InCalls
<1>3. /\ c = NoCpvt => SameCalls(p, q)
      /\ c # NoCpvt => Changed(p, q, c, "ACTIVE")
      /\ Kept(p.at_queue, q.at_queue, ok, {}, N)
  BY <1>1, <1>2, ConnectedEffect
<1>. HIDE DEF q
<1>4. "ACTIVE" \notin {"INIT", "RELEASED"}
  OBVIOUS
<1>5. Meek(p, q)
  BY <1>1, <1>3, <1>4, MeekSame DEF Kept
<1>. QED  BY <1>5 DEF q

\* RING and +CCWA.
LEMMA MeekRings ==
    ASSUME NEW p, CallsOK(p), NEW ring \in BOOLEAN, NEW dialing \in BOOLEAN, NEW cwaiting \in BOOLEAN,
           NEW ok \in BOOLEAN
    PROVE  LET q == request_clcc(Reflagged(p, dialing, ring, cwaiting, p.last_dialed), ok)
           IN  /\ SameCalls(p, q) /\ Meek(p, q) /\ CallsOK(q)
               /\ \A I, N : Kept(p.at_queue, q.at_queue, ok, I, N)
<1>. DEFINE f == Reflagged(p, dialing, ring, cwaiting, p.last_dialed)
            q == request_clcc(f, ok)
<1>1. p \in Pvts /\ p.last_dialed \in p.chans \union {NoCpvt}
  BY DEF CallsOK
<1>2. SameCalls(p, f) /\ CallsOK(f) /\ f.at_queue = p.at_queue
  BY <1>1, ReflaggedEffect DEF SameCalls
<1>. HIDE DEF f
<1>3. SameCalls(f, q) /\ CallsOK(q) /\ \A I, N : Kept(f.at_queue, q.at_queue, ok, I, N)
  BY <1>2, clccQueue DEF Kept
<1>. HIDE DEF q
<1>4. SameCalls(p, q)
  BY <1>2, <1>3, SameCallsTransitive
<1>5. "ACTIVE" \notin {"INIT", "RELEASED"}
  OBVIOUS
<1>6. Meek(p, q)
  BY <1>1, <1>2, <1>3, <1>4, <1>5, MeekSame DEF Kept
<1>. QED  BY <1>2, <1>3, <1>4, <1>6 DEF q, f

\* No call is placed, and none was selected for.
Incoming ==
    /\ \A d \in Dialer : request[d] = NoRequest
    /\ ~mdial
    /\ InCalls(pvt)
    /\ OneWay(events, mcall, "incoming")
    /\ conn # "up" => events = <<>>
    /\ conn = "off" => pvt.chans = {}

\* The story of the modem's calls is true, and every context is of one that is
\* open.
Heard(ev, m, p) ==
    Told(ev, m) /\ \A c \in p.chans : Open(ev, m, 0, p.cpvt[c].idx)

HeardUp == conn = "up" => Heard(events, mcall, pvt)

LEMMA IncomingThread ==
    ASSUME DialOpts = {}, IInv, Incoming, ThreadNext
    PROVE  Meek(pvt, pvt') /\ UNCHANGED <<request, conn, events, mcall, mdial>>
<1>1. /\ CallsOK(pvt) /\ pvt \in Pvts /\ pvt.chans \subseteq CpvtId /\ WriteOutcomes \subseteq BOOLEAN
      /\ InCalls(pvt)
  BY IInvParts, WriteOutcomesType, QueueType DEF Good, Incoming
<1>2. Meek(pvt, pvt)
  BY MeekKeeps
<1>3. ASSUME NEW d \in Dialer, \/ NumberRead(d) \/ channel_request(d)
                               \/ \E opts \in DialOpts : SelectDevice(d, opts)
      PROVE  FALSE
  BY <1>3 DEF Incoming, NumberRead, channel_request
<1>4. ASSUME NEW c \in CpvtId, channel_call(c)
      PROVE  FALSE
  BY <1>1, <1>4 DEF channel_call, HasChannel, InCalls
<1>5. ASSUME NEW c \in CpvtId, channel_answer(c)
      PROVE  Meek(pvt, pvt') /\ UNCHANGED <<request, conn, events, mcall, mdial>>
  <2>. DEFINE p == [pvt EXCEPT !.cpvt[c].called = TRUE]
              job == at_enque_answer(pvt.cpvt[c].state)
  <2>1. c \in pvt.chans
    BY <1>5 DEF channel_answer, HasChannel
  <2>2. PICK ok \in WriteOutcomes : pvt' = Insert(p, c, job, ok)
    BY <1>5 DEF channel_answer
  <2>3. /\ CallsOK(p) /\ Noted(pvt, p, c) /\ RestSame(pvt, p)
        /\ p.cpvt[c].idx = pvt.cpvt[c].idx /\ p.cpvt[c].need_hangup = pvt.cpvt[c].need_hangup
    BY <1>1, <2>1, CalledEffect
  <2>. HIDE DEF p
  <2>4. FineJob(job) /\ {"D", "CHUP"} \intersect Codes(job) = {}
    BY JobsFine
  <2>. HIDE DEF job
  <2>5. c \in p.chans \union {sys_chan} /\ ok \in BOOLEAN
    BY <1>1, <2>1, <2>3 DEF RestSame
  <2>6. Meek(p, pvt')
    BY <2>2, <2>3, <2>4, <2>5, MeekInsert
  <2>7. Meek(pvt, p)
    <3>1. p.chans = pvt.chans /\ p.at_queue = pvt.at_queue
      BY <2>3 DEF RestSame
    <3>2. ASSUME NEW d \in CpvtId
          PROVE  /\ p.cpvt[d].idx = pvt.cpvt[d].idx /\ p.cpvt[d].dir = pvt.cpvt[d].dir
                 /\ p.cpvt[d].state = pvt.cpvt[d].state /\ p.cpvt[d].channel = pvt.cpvt[d].channel
                 /\ p.cpvt[d].need_hangup = pvt.cpvt[d].need_hangup
      BY <2>3 DEF Noted, Alike
    <3>3. Linked(p) = Linked(pvt)
      BY <1>1, <3>1, <3>2 DEF Linked
    <3>. QED  BY <1>1, <3>1, <3>2, <3>3 DEF Meek
  <2>8. UNCHANGED <<request, conn, events, mcall, mdial>>
    BY <1>5 DEF channel_answer, threads, modem
  <2>. QED  BY <2>6, <2>7, <2>8, MeekKeeps
<1>6. ASSUME NEW c \in CpvtId, channel_func_write(c)
      PROVE  Meek(pvt, pvt') /\ UNCHANGED <<request, conn, events, mcall, mdial>>
  <2>1. c \in pvt.chans \union {sys_chan}
    BY <1>6 DEF channel_func_write, HasChannel
  <2>2. PICK ok \in BOOLEAN : pvt' = Insert(pvt, c, at_enque_activate, ok)
    BY <1>1, <1>6 DEF channel_func_write
  <2>3. FineJob(at_enque_activate) /\ {"D", "CHUP"} \intersect Codes(at_enque_activate) = {}
    BY JobsFine
  <2>4. Meek(pvt, pvt')
    BY <1>1, <2>1, <2>2, <2>3, MeekInsert
  <2>. QED  BY <1>6, <2>4 DEF channel_func_write, threads, modem
<1>7. ASSUME OtherJob
      PROVE  Meek(pvt, pvt') /\ UNCHANGED <<request, conn, events, mcall, mdial>>
  <2>1. sys_chan \in pvt.chans \union {sys_chan}
    OBVIOUS
  <2>2. PICK ok \in BOOLEAN : pvt' = Insert(pvt, sys_chan, at_enque_ping, ok)
    BY <1>1, <1>7 DEF OtherJob
  <2>3. FineJob(at_enque_ping) /\ {"D", "CHUP"} \intersect Codes(at_enque_ping) = {}
    BY JobsFine
  <2>4. Meek(pvt, pvt')
    BY <1>1, <2>1, <2>2, <2>3, MeekInsert
  <2>. QED  BY <1>7, <2>4 DEF OtherJob, threads, modem
<1>8. ASSUME NEW c \in CpvtId, channel_hangup(c)
      PROVE  Meek(pvt, pvt') /\ UNCHANGED <<request, conn, events, mcall, mdial>>
  <2>1. c \in pvt.chans
    BY <1>8 DEF channel_hangup, HasChannel
  <2>2. PICK ok \in BOOLEAN : pvt' = HungUp(pvt, c, ok)
    BY <1>1, <1>8 DEF channel_hangup
  <2>3. Meek(pvt, pvt')
    BY <1>1, <2>1, <2>2, MeekHungUp
  <2>. QED  BY <1>8, <2>3 DEF channel_hangup, modem
<1>9. ASSUME FindDeviceExt \/ \E c \in CpvtId : channel_hangup_enters(c)
      PROVE  Meek(pvt, pvt') /\ UNCHANGED <<request, conn, events, mcall, mdial>>
  BY <1>2, <1>9 DEF FindDeviceExt, channel_hangup_enters, modem
<1>. QED  BY <1>3, <1>4, <1>5, <1>6, <1>7, <1>8, <1>9 DEF ThreadNext

\* A handler left the device as p.
LEMMA IncomingHandled ==
    ASSUME Incoming, IInv, events # <<>>, NEW p, CallsOK(p), InCalls(p), NEW ok \in BOOLEAN,
           NEW fatal \in BOOLEAN, Handled(p, ok, fatal)
    PROVE  Incoming' /\ (Heard(Tail(events), mcall, p) => HeardUp')
<1>1. /\ SameCalls(p, pvt') /\ UNCHANGED <<threads, modem>>
      /\ QueueFor(p.at_queue, {}, Linked(p)) => QueueFor(pvt'.at_queue, {}, Linked(p))
      /\ \/ conn' = "up" /\ events' = Tail(events)
         \/ conn' = "lost" /\ events' = <<>>
  BY HandledEffect
<1>2. Meek(p, pvt')
  <2>1. "ACTIVE" \notin {"INIT", "RELEASED"} /\ p \in Pvts
    BY DEF CallsOK
  <2>. QED  BY <1>1, <2>1, MeekSame
<1>3. InCalls(pvt')
  BY <1>2, MeekKeeps
<1>4. OneWay(events', mcall', "incoming")
  <2>1. OneWay(events, mcall, "incoming") /\ events \in Seq(Results)
    BY IInvParts DEF Incoming, ModemOK
  <2>2. AllSay(Tail(events), "incoming")
    BY <2>1, TailSays DEF OneWay
  <2>3. AllSay(<<>>, "incoming")
    BY DEF AllSay
  <2>4. mcall' = mcall
    BY <1>1 DEF modem
  <2>. QED  BY <1>1, <2>1, <2>2, <2>3, <2>4 DEF OneWay
<1>5. Incoming'
  BY <1>1, <1>3, <1>4 DEF Incoming, threads, modem
<1>6. Heard(Tail(events), mcall, p) => HeardUp'
  BY <1>1 DEF Heard, HeardUp, SameCalls, modem
<1>. QED  BY <1>5, <1>6

LEMMA StillHeard ==
    ASSUME Incoming, IInv, events # <<>>, Heard(events, mcall, pvt), NEW p, Meek(pvt, p),
           \A c \in p.chans : ~Ends(events[1], p.cpvt[c].idx)
    PROVE  Heard(Tail(events), mcall, p)
<1>1. events \in Seq(Results) /\ SaysOf(events[1], "incoming") /\ InCalls(pvt)
  BY IInvParts, TailSays DEF Incoming, ModemOK, OneWay
<1>2. Told(Tail(events), mcall)
  BY <1>1, ReadOn DEF Heard
<1>3. ASSUME NEW c \in p.chans PROVE Open(Tail(events), mcall, 0, p.cpvt[c].idx)
  <2>1. /\ p.cpvt[c].idx = pvt.cpvt[c].idx /\ c \in pvt.chans /\ p.cpvt[c].idx \in CallIdx
    BY <1>1 DEF Meek, InCalls
  <2>2. ~Begins(events[1], p.cpvt[c].idx) /\ ~Ends(events[1], p.cpvt[c].idx)
    BY <1>1 DEF SaysOf, Begins
  <2>3. Open(events, mcall, 0, p.cpvt[c].idx)
    BY <2>1 DEF Heard
  <2>. QED  BY <1>1, <2>1, <2>2, <2>3, ReadFirst
<1>. QED  BY <1>2, <1>3 DEF Heard

\* Every result but +CLCC.
LEMMA IncomingRead ==
    ASSUME Incoming, IInv, MonitorReads, ~at_response_clcc
    PROVE  Incoming' /\ (HeardUp => HeardUp')
<1>1. /\ Good(CpvtId, pvt) /\ CallsOK(pvt) /\ pvt \in Pvts /\ WriteOutcomes \subseteq BOOLEAN
      /\ InCalls(pvt) /\ events \in Seq(Results) /\ OneWay(events, mcall, "incoming")
  BY IInvParts, WriteOutcomesType DEF Good, CallsOK, Incoming, ModemOK
<1>2. events # <<>> /\ conn = "up" /\ Head(events) = events[1]
  <2>1. \E res : Reads(res)
    <3>1. \/ Reads("OK") \/ Reads("ERROR") \/ Reads("ORIG") \/ Reads("CEND")
          \/ Reads("CONN") \/ Reads("RING") \/ Reads("CCWA") \/ Reads("CLCC")
      BY DEF MonitorReads, at_response_ok, at_response_error, at_response_orig, at_response_cend,
             at_response_conn, at_response_ring, at_response_ccwa, at_response_clcc
    <3>. QED  BY <3>1
  <2>2. events # <<>> /\ conn = "up"
    BY <2>1 DEF Reads
  <2>. QED  BY <1>1, <2>2, ReadAt
<1>3. ASSUME NEW p, CallsOK(p), Meek(pvt, p), NEW ok \in BOOLEAN, NEW fatal \in BOOLEAN,
             Handled(p, ok, fatal), \A c \in p.chans : ~Ends(events[1], p.cpvt[c].idx)
      PROVE  Incoming' /\ (HeardUp => HeardUp')
  <2>1. InCalls(p)
    BY <1>1, <1>3, MeekKeeps
  <2>2. Incoming' /\ (Heard(Tail(events), mcall, p) => HeardUp')
    BY <1>2, <1>3, <2>1, IncomingHandled
  <2>3. Heard(events, mcall, pvt) => Heard(Tail(events), mcall, p)
    BY <1>2, <1>3, StillHeard
  <2>. QED  BY <1>2, <2>2, <2>3 DEF HeardUp
<1>4. events[1].res # "CEND" => \A i : ~Ends(events[1], i)
  BY DEF Ends
<1>5. TRUE \in BOOLEAN /\ FALSE \in BOOLEAN
  OBVIOUS
<1>6. ASSUME at_response_ok PROVE Incoming' /\ (HeardUp => HeardUp')
  <2>. DEFINE a == Acknowledged(pvt, at_queue_head_task(pvt).cpvt)
              p == IF QueueEmpty(pvt) THEN pvt ELSE at_queue_remove_cmd(a, "OK")
  <2>1. PICK ok \in BOOLEAN : Handled(p, ok, FALSE)
    BY <1>1, <1>6 DEF at_response_ok
  <2>2. ~QueueEmpty(pvt) => Meek(pvt, a) /\ CallsOK(a)
    BY <1>1, MeekAcknowledged
  <2>. HIDE DEF a
  <2>3. ~QueueEmpty(pvt) => Meek(a, at_queue_remove_cmd(a, "OK")) /\ CallsOK(at_queue_remove_cmd(a, "OK"))
    BY <2>2, MeekRemoved
  <2>4. Meek(pvt, p) /\ CallsOK(p)
    BY <1>1, <2>2, <2>3, MeekKeeps
  <2>5. events[1].res = "OK"
    BY <1>2, <1>6 DEF at_response_ok, Reads
  <2>. HIDE DEF p
  <2>. QED  BY <1>3, <1>4, <1>5, <2>1, <2>4, <2>5
<1>7. ASSUME at_response_error PROVE Incoming' /\ (HeardUp => HeardUp')
  <2>1. events[1].res = "ERROR"
    BY <1>2, <1>7 DEF at_response_error, Reads
  <2>2. CASE QueueEmpty(pvt)
    <3>1. PICK ok \in BOOLEAN : Handled(pvt, ok, FALSE)
      BY <1>1, <1>7, <2>2 DEF at_response_error
    <3>2. Meek(pvt, pvt)
      BY MeekKeeps
    <3>. QED  BY <1>1, <1>3, <1>4, <1>5, <2>1, <3>1, <3>2
  <2>3. CASE ~QueueEmpty(pvt)
    <3>. DEFINE c == at_queue_head_task(pvt).cpvt
                i(ok) == IF DialFailed(pvt) THEN Insert(pvt, c, at_enque_cmd_proc, ok) ELSE pvt
                fatal == at_queue_head_cmd(pvt).cmd \in CriticalCmds
    <3>1. PICK ok \in BOOLEAN : Handled(at_queue_remove_cmd(i(ok), "ERROR"), ok, fatal)
      BY <1>1, <1>7, <2>3 DEF at_response_error
    <3>2. c \in pvt.chans \union {sys_chan}
      BY <1>1, <2>3, HeadTask
    <3>3. FineJob(at_enque_cmd_proc) /\ {"D", "CHUP"} \intersect Codes(at_enque_cmd_proc) = {}
      BY JobsFine
    <3>. HIDE DEF c
    <3>4. /\ Meek(pvt, Insert(pvt, c, at_enque_cmd_proc, ok)) /\ Meek(pvt, pvt)
          /\ CallsOK(Insert(pvt, c, at_enque_cmd_proc, ok))
      BY <1>1, <3>2, <3>3, MeekInsert, MeekKeeps
    <3>5. Meek(pvt, i(ok)) /\ CallsOK(i(ok))
      BY <1>1, <3>4
    <3>6. fatal \in BOOLEAN
      OBVIOUS
    <3>. HIDE DEF i, fatal
    <3>. DEFINE p == at_queue_remove_cmd(i(ok), "ERROR")
    <3>7. Meek(i(ok), p) /\ CallsOK(p)
      BY <3>5, MeekRemoved
    <3>. HIDE DEF p
    <3>8. Meek(pvt, p)
      BY <3>5, <3>7, MeekKeeps
    <3>9. Handled(p, ok, fatal)
      BY <3>1 DEF p
    <3>. QED  BY <1>3, <1>4, <2>1, <3>6, <3>7, <3>8, <3>9
  <2>. QED  BY <2>2, <2>3
<1>8. ASSUME at_response_orig PROVE FALSE
  <2>1. events[1].res = "ORIG" /\ SaysOf(events[1], "incoming")
    BY <1>1, <1>2, <1>8, TailSays DEF at_response_orig, Reads, OneWay
  <2>. QED  BY <2>1 DEF SaysOf
<1>9. ASSUME at_response_cend PROVE Incoming' /\ (HeardUp => HeardUp')
  <2>1. PICK ok \in BOOLEAN, c \in pvt_find_cpvt(pvt, events[1].idx) : Handled(Ended(pvt, c, ok), ok, FALSE)
    BY <1>1, <1>2, <1>9 DEF at_response_cend
  <2>2. c \in pvt.chans \union {NoCpvt}
    BY Found
  <2>. DEFINE p == Ended(pvt, c, ok)
  <2>3. Meek(pvt, p) /\ c \notin p.chans
    BY <1>1, <2>2, MeekEnded
  <2>4. CallsOK(p)
    BY <1>1, <2>2, EndedGood DEF Good
  <2>. HIDE DEF p
  <2>5. ASSUME NEW d \in p.chans, p.cpvt[d].idx = events[1].idx
        PROVE  FALSE
    <3>1. d \in pvt.chans /\ pvt.cpvt[d].idx = events[1].idx
      BY <2>3, <2>5 DEF Meek
    <3>2. d \in WithIdx(pvt, events[1].idx) /\ c \in WithIdx(pvt, events[1].idx)
      BY <3>1 DEF WithIdx, pvt_find_cpvt
    <3>3. c = d
      BY <1>1, <3>2 DEF InCalls, WithIdx
    <3>. QED  BY <2>3, <3>3
  <2>6. \A d \in p.chans : ~Ends(events[1], p.cpvt[d].idx)
    BY <2>5 DEF Ends
  <2>7. Handled(p, ok, FALSE)
    BY <2>1 DEF p
  <2>. QED  BY <1>3, <1>5, <2>3, <2>4, <2>6, <2>7
<1>10. ASSUME at_response_conn PROVE Incoming' /\ (HeardUp => HeardUp')
  <2>1. PICK ok \in BOOLEAN, c \in pvt_find_cpvt(pvt, events[1].idx) :
               Handled(Connected(pvt, c, ok), ok, FALSE)
    BY <1>1, <1>2, <1>10 DEF at_response_conn
  <2>2. c \in pvt.chans \union {NoCpvt} /\ events[1].res = "CONN"
    BY <1>2, <1>10, Found DEF at_response_conn, Reads
  <2>. DEFINE p == Connected(pvt, c, ok)
  <2>3. Meek(pvt, p)
    BY <1>1, <2>2, MeekConnected
  <2>4. CallsOK(p)
    BY <1>1, <2>2, ConnectedGood DEF Good
  <2>. HIDE DEF p
  <2>5. Handled(p, ok, FALSE)
    BY <2>1 DEF p
  <2>. QED  BY <1>3, <1>4, <1>5, <2>2, <2>3, <2>4, <2>5
<1>11. ASSUME at_response_ring \/ at_response_ccwa PROVE Incoming' /\ (HeardUp => HeardUp')
  <2>1. pvt.ring \in BOOLEAN /\ pvt.dialing \in BOOLEAN
    BY <1>1 DEF Pvts
  <2>2. PICK ok \in BOOLEAN, dialing \in BOOLEAN, ring \in BOOLEAN, cwaiting \in BOOLEAN :
               Handled(request_clcc(Reflagged(pvt, dialing, ring, cwaiting, pvt.last_dialed), ok), ok, FALSE)
    <3>1. CASE at_response_ring
      <4>1. Reflagged(pvt, FALSE, TRUE, FALSE, pvt.last_dialed)
              = [pvt EXCEPT !.ring = TRUE, !.dialing = FALSE, !.cwaiting = FALSE]
        BY <1>1 DEF Reflagged, Pvts
      <4>2. PICK ok \in BOOLEAN :
               Handled(request_clcc([pvt EXCEPT !.ring = TRUE, !.dialing = FALSE,
                                                !.cwaiting = FALSE], ok), ok, FALSE)
        BY <1>1, <3>1 DEF at_response_ring
      <4>. QED  BY <1>5, <4>1, <4>2
    <3>2. CASE at_response_ccwa
      <4>1. Reflagged(pvt, pvt.dialing, pvt.ring, TRUE, pvt.last_dialed) = [pvt EXCEPT !.cwaiting = TRUE]
        BY <1>1 DEF Reflagged, Pvts
      <4>2. PICK ok \in BOOLEAN : Handled(request_clcc([pvt EXCEPT !.cwaiting = TRUE], ok), ok, FALSE)
        BY <1>1, <3>2 DEF at_response_ccwa
      <4>. QED  BY <1>5, <2>1, <4>1, <4>2
    <3>. QED  BY <1>11, <3>1, <3>2
  <2>. DEFINE p == request_clcc(Reflagged(pvt, dialing, ring, cwaiting, pvt.last_dialed), ok)
  <2>3. Meek(pvt, p) /\ CallsOK(p)
    BY <1>1, MeekRings
  <2>. HIDE DEF p
  <2>4. Handled(p, ok, FALSE)
    BY <2>2 DEF p
  <2>5. events[1].res # "CEND"
    BY <1>2, <1>11 DEF at_response_ring, at_response_ccwa, Reads
  <2>. QED  BY <1>3, <1>4, <1>5, <2>3, <2>4, <2>5
<1>. QED  BY <1>6, <1>7, <1>8, <1>9, <1>10, <1>11 DEF MonitorReads


\* What handling a line of +CLCC is.
LEMMA LineHandled ==
    ASSUME ModemOK, RestOK, at_response_clcc
    PROVE  /\ events # <<>> /\ conn = "up" /\ events[1].res = "CLCC"
           /\ \E n \in CallIdx, ok \in WriteOutcomes :
                 /\ n \in DOMAIN events[1].lines /\ n > events[1].idx
                 /\ events[1].lines[n] \in Line
                 /\ \E q \in Listed(pvt, events[1].lines[n], ok) :
                       \/ Handled(FlagsListed(q, events[1].lines[n].state), ok, FALSE)
                       \/ /\ pvt' = FlagsListed(q, events[1].lines[n].state)
                          /\ events' = LineOff(events, n)
                          /\ UNCHANGED <<threads, conn, modem>>
<1>. DEFINE h == Head(events)
            rest == {i \in DOMAIN h.lines : i > h.idx}
            n == CHOOSE i \in rest : \A j \in rest : i <= j
            line == h.lines[n]
<1>1. events \in Seq(Results) /\ events # <<>> /\ h \in Results /\ h.res = "CLCC" /\ conn = "up"
  BY DEF at_response_clcc, Reads, ModemOK
<1>2. h = events[1]
  BY <1>1, ReadAt
<1>3. /\ rest # {} /\ rest \subseteq CallIdx /\ rest \subseteq DOMAIN h.lines
      /\ \A i \in rest : h.lines[i] \in Line
  <2>1. PICK listed \in SUBSET CallIdx : h.lines \in [listed -> Line]
    BY <1>1 DEF Results
  <2>2. \E i \in DOMAIN h.lines : i > h.idx
    BY <1>1 DEF Results
  <2>. QED  BY <2>1, <2>2
<1>4. \E ok \in WriteOutcomes : \E q \in Listed(pvt, line, ok) :
         \/ Handled(FlagsListed(q, line.state), ok, FALSE)
         \/ /\ pvt' = FlagsListed(q, line.state)
            /\ events' = LineOff(events, n)
            /\ UNCHANGED <<threads, conn, modem>>
  BY DEF at_response_clcc, LineOff
<1>. HIDE DEF h, rest
<1>5. n \in rest
  <2>1. \E i \in rest : \A j \in rest : i <= j
    BY <1>3, LeastOfNat DEF CallIdx
  <2>. QED  BY <2>1
<1>. HIDE DEF n
<1>6. n \in CallIdx /\ n \in DOMAIN h.lines /\ n > h.idx /\ h.lines[n] \in Line
  BY <1>3, <1>5 DEF rest
<1>. QED  BY <1>1, <1>2, <1>4, <1>6

\* The line of an incoming call: its context is made, or put in another state.
LEMMA IncomingLine ==
    ASSUME NEW p, CallsOK(p), InCalls(p), NEW l \in Line, l.dir = "incoming", l.idx \in CallIdx,
           NEW ok \in BOOLEAN, NEW q \in Listed(p, l, ok), q \in Pvts
    PROVE  /\ InCalls(q)
           /\ \A c \in q.chans : \/ q.cpvt[c].idx = l.idx
                                 \/ c \in p.chans /\ q.cpvt[c].idx = p.cpvt[c].idx
<1>1. p \in Pvts /\ p.chans \subseteq CpvtId /\ sys_chan \notin Linked(p) /\ sys_chan \notin CpvtId
  BY LinkedCalls, NoCpvtAssumption, SysChanAssumption DEF CallsOK, Pvts
<1>2. l.state \notin {"INIT", "RELEASED"}
  BY LineType
<1>3. \/ /\ SameCalls(p, q)
         /\ \A I, N : sys_chan \notin N => Kept(p.at_queue, q.at_queue, ok, I, N)
      \/ \E c \in WithIdx(p, l.idx) :
            /\ p.cpvt[c].dir = l.dir
            /\ Changed(p, q, c, l.state) /\ q.at_queue = p.at_queue
      \/ Comes(p, q, l)
  BY ListedEffect
<1>4. ASSUME ~Comes(p, q, l) PROVE Meek(p, q)
  <2>1. QueueFor(p.at_queue, {}, Linked(p)) => QueueFor(q.at_queue, {}, Linked(p))
    BY <1>1, <1>3, <1>4 DEF Kept
  <2>2. SameCalls(p, q) \/ \E c : Changed(p, q, c, l.state)
    BY <1>3, <1>4
  <2>. QED  BY <1>1, <1>2, <2>1, <2>2, MeekSame
<1>5. CASE ~Comes(p, q, l)
  BY <1>4, <1>5, MeekKeeps DEF Meek
<1>6. CASE Comes(p, q, l)
  <2>1. PICK c \in CpvtId \ p.chans :
          /\ q.chans = p.chans \union {c}
          /\ q.at_queue = p.at_queue
          /\ q.cpvt[c].idx = l.idx /\ q.cpvt[c].dir = "incoming" /\ q.cpvt[c].state = l.state
          /\ q.cpvt[c].need_hangup
          /\ \A d \in CpvtId : d # c => q.cpvt[d] = p.cpvt[d]
    BY <1>6 DEF Comes
  <2>2. \A d \in p.chans : q.cpvt[d] = p.cpvt[d] /\ p.cpvt[d].idx # l.idx
    BY <1>1, <1>6, <2>1 DEF Comes, WithIdx
  <2>3. Linked(q) \subseteq Linked(p) \union {c}
    BY <2>1, <2>2 DEF Linked
  <2>4. \A k \in 1 .. Len(p.at_queue) : p.at_queue[k].cpvt # c
    <3>1. \A k \in 1 .. Len(p.at_queue) : p.at_queue[k] \in TasksFor(p.chans)
      BY DEF CallsOK
    <3>. QED  BY <1>1, <2>1, <3>1 DEF TasksFor
  <2>5. QueueFor(q.at_queue, {}, Linked(q))
    <3>1. QueueFor(p.at_queue, {}, Linked(p))
      BY DEF InCalls
    <3>. QED  BY <2>1, <2>3, <2>4, <3>1, QueueForOthers
  <2>6. /\ \A d \in q.chans : /\ q.cpvt[d].dir = "incoming"
                              /\ q.cpvt[d].state \notin {"INIT", "RELEASED"}
                              /\ q.cpvt[d].idx \in CallIdx
                              /\ q.cpvt[d].channel => q.cpvt[d].need_hangup
        /\ \A b, d \in q.chans : q.cpvt[b].idx = q.cpvt[d].idx => b = d
    BY <1>2, <2>1, <2>2 DEF InCalls
  <2>. QED  BY <2>1, <2>2, <2>5, <2>6 DEF InCalls
<1>. QED  BY <1>5, <1>6

LEMMA IncomingListed ==
    ASSUME Incoming, IInv, at_response_clcc
    PROVE  Incoming' /\ (HeardUp => HeardUp')
<1>1. /\ ModemOK /\ RestOK /\ Good(CpvtId, pvt) /\ CallsOK(pvt) /\ WriteOutcomes \subseteq BOOLEAN
      /\ InCalls(pvt) /\ events \in Seq(Results) /\ OneWay(events, mcall, "incoming")
  BY IInvParts, WriteOutcomesType DEF Good, Incoming, ModemOK
<1>. DEFINE h == events[1]
<1>2. events # <<>> /\ conn = "up" /\ h.res = "CLCC"
  BY <1>1, LineHandled
<1>3. PICK n \in CallIdx, ok \in BOOLEAN :
         /\ n \in DOMAIN h.lines /\ n > h.idx
         /\ h.lines[n] \in Line
         /\ \E q \in Listed(pvt, h.lines[n], ok) :
               \/ Handled(FlagsListed(q, h.lines[n].state), ok, FALSE)
               \/ /\ pvt' = FlagsListed(q, h.lines[n].state)
                  /\ events' = LineOff(events, n)
                  /\ UNCHANGED <<threads, conn, modem>>
  BY <1>1, LineHandled
<1>. DEFINE l == h.lines[n]
<1>4. PICK q \in Listed(pvt, l, ok) :
         \/ Handled(FlagsListed(q, l.state), ok, FALSE)
         \/ /\ pvt' = FlagsListed(q, l.state)
            /\ events' = LineOff(events, n)
            /\ UNCHANGED <<threads, conn, modem>>
  BY <1>3
<1>5. l \in Line /\ l.idx = n /\ l.dir = "incoming" /\ h.lines = events[1].lines /\ SaysOf(h, "incoming")
  <2>1. AllSay(events, "incoming")
    BY <1>1 DEF OneWay
  <2>2. SaysOf(h, "incoming")
    BY <1>1, <1>2, <2>1, TailSays
  <2>3. h.lines[n].idx = n /\ h.lines[n].dir = "incoming"
    BY <1>3, <2>2 DEF SaysOf
  <2>. QED  BY <1>3, <2>2, <2>3
<1>6. Tells(h, n) /\ \A i : ~Begins(h, i) /\ ~Ends(h, i)
  BY <1>2, <1>3 DEF Tells, Begins, Ends
<1>. HIDE DEF l
<1>7. CallsOK(q) /\ q \in Pvts
  BY <1>1, <1>5, ListedGood DEF Good, CallsOK
<1>8. /\ InCalls(q)
      /\ \A c \in q.chans : \/ q.cpvt[c].idx = n
                            \/ c \in pvt.chans /\ q.cpvt[c].idx = pvt.cpvt[c].idx
  BY <1>1, <1>5, <1>7, IncomingLine
<1>. DEFINE p == FlagsListed(q, l.state)
<1>9. SameCalls(q, p) /\ CallsOK(p) /\ p.at_queue = q.at_queue
  BY <1>7, FlagsListedEffect
<1>10. Handled(p, ok, FALSE) \/ /\ pvt' = p /\ events' = LineOff(events, n)
                                /\ UNCHANGED <<threads, conn, modem>>
  BY <1>4
<1>. HIDE DEF p
<1>11. InCalls(p)
  <2>1. "ACTIVE" \notin {"INIT", "RELEASED"}
    OBVIOUS
  <2>2. Meek(q, p)
    BY <1>7, <1>9, <2>1, MeekSame
  <2>. QED  BY <1>8, <2>2, MeekKeeps
<1>12. p.chans = q.chans /\ \A c \in p.chans : /\ p.cpvt[c].idx = q.cpvt[c].idx
                                               /\ p.cpvt[c].idx \in CallIdx
  BY <1>9, <1>11 DEF SameCalls, InCalls
<1>13. ASSUME Heard(events, mcall, pvt), NEW c \in p.chans
       PROVE  Open(events, mcall, 0, p.cpvt[c].idx) /\ Open(Tail(events), mcall, 0, p.cpvt[c].idx)
  <2>1. Open(Tail(events), mcall, 0, p.cpvt[c].idx) <=> Open(events, mcall, 0, p.cpvt[c].idx)
    BY <1>1, <1>2, <1>6, <1>12, ReadFirst
  <2>2. CASE p.cpvt[c].idx = n
    BY <1>1, <1>2, <1>6, <1>13, <2>1, <2>2, ReadFirst DEF Heard
  <2>3. CASE c \in pvt.chans /\ q.cpvt[c].idx = pvt.cpvt[c].idx
    BY <1>12, <1>13, <2>1, <2>3 DEF Heard
  <2>. QED  BY <1>8, <1>12, <2>2, <2>3
<1>14. CASE Handled(p, ok, FALSE)
  <2>1. Heard(events, mcall, pvt) => Heard(Tail(events), mcall, p)
    BY <1>1, <1>2, <1>13, ReadOn DEF Heard
  <2>2. FALSE \in BOOLEAN
    OBVIOUS
  <2>3. Incoming' /\ (Heard(Tail(events), mcall, p) => HeardUp')
    BY <1>2, <1>9, <1>11, <1>14, <2>2, IncomingHandled
  <2>. QED  BY <1>2, <2>1, <2>3 DEF HeardUp
<1>15. CASE /\ pvt' = p /\ events' = LineOff(events, n)
            /\ UNCHANGED <<threads, conn, modem>>
  <2>1. /\ Len(events') = Len(events) /\ events'[1].res = "CLCC" /\ events'[1].lines = h.lines
        /\ \A k \in 1 .. Len(events) : k # 1 => events'[k] = events[k]
        /\ \A k, i : Open(events', mcall, k, i) <=> Open(events, mcall, k, i)
        /\ Told(events, mcall) => Told(events', mcall)
    BY <1>1, <1>2, <1>3, <1>15, LineRead
  <2>4. SaysOf(events'[1], "incoming")
    BY <1>5, <2>1 DEF SaysOf
  <2>5. \A k \in 1 .. Len(events') : SaysOf(events'[k], "incoming")
    BY <1>1, <2>1, <2>4 DEF OneWay, AllSay
  <2>6. OneWay(events', mcall', "incoming")
    BY <1>1, <1>15, <2>5 DEF OneWay, AllSay, modem
  <2>7. Incoming'
    BY <1>2, <1>11, <1>15, <2>6 DEF Incoming, threads, modem
  <2>8. Heard(events, mcall, pvt) => Heard(events', mcall', p)
    BY <1>13, <1>15, <2>1 DEF Heard, modem
  <2>. QED  BY <1>15, <2>7, <2>8 DEF HeardUp
<1>. QED  BY <1>10, <1>14, <1>15


\* disconnect_dongle releases a context.
LEMMA MeekReleased ==
    ASSUME NEW p, CallsOK(p), InCalls(p), NEW c \in p.chans
    PROVE  Meek(p, change_channel_state(NeedHangup(p, c, FALSE), c, "RELEASED"))
<1>. DEFINE off == FALSE
            f == NeedHangup(p, c, off)
            q == change_channel_state(f, c, "RELEASED")
            N == Linked(p)
<1>1. p \in Pvts /\ c \in CpvtId /\ p.chans \subseteq CpvtId /\ off \in BOOLEAN /\ sys_chan \notin N
  BY LinkedCalls DEF CallsOK, Pvts
<1>. HIDE DEF off
<1>2. Marked(p, f, c, off) /\ f \in Pvts
  BY ONLY <1>1, NeedHangupEffect
<1>. HIDE DEF f
<1>3. f.cpvt[c].state # "RELEASED" /\ f.chans = p.chans /\ f.at_queue = p.at_queue
  BY <1>1, <1>2 DEF Marked, RestSame, InCalls
<1>4. Released(f, q, c) /\ q.at_queue = Unlinked(f.at_queue, c)
  BY <1>2, <1>3, ReleaseEffect
<1>. HIDE DEF q
<1>5. q.chans = p.chans \ {c}
  BY <1>3, <1>4 DEF Released
<1>6. \A d \in q.chans : /\ q.cpvt[d].idx = p.cpvt[d].idx /\ q.cpvt[d].dir = p.cpvt[d].dir
                         /\ q.cpvt[d].state = p.cpvt[d].state
                         /\ q.cpvt[d].channel = p.cpvt[d].channel
                         /\ q.cpvt[d].need_hangup = p.cpvt[d].need_hangup
  BY <1>1, <1>2, <1>4, <1>5 DEF Released, Alike, Marked
<1>7. Linked(q) \subseteq N
  BY <1>5, <1>6 DEF Linked
<1>8. QueueFor(p.at_queue, {}, N) => QueueFor(q.at_queue, {}, Linked(q))
  <2>. SUFFICES ASSUME QueueFor(p.at_queue, {}, N) PROVE QueueFor(q.at_queue, {}, Linked(q))
    OBVIOUS
  <2>1. p.at_queue \in Seq(Tasks)
    BY <1>1 DEF Pvts
  <2>2. \A k \in Dials(p.at_queue) : p.at_queue[k].cpvt # c
    BY DEF QueueFor, TaskFor, Dials
  <2>3. QueueFor(q.at_queue, {}, N)
    BY <1>1, <1>3, <1>4, <2>1, <2>2, UnlinkedQueue
  <2>. QED  BY <1>7, <2>3, QueueForOthers
<1>9. Meek(p, q)
  BY <1>5, <1>6, <1>8 DEF Meek
<1>. QED  BY <1>9 DEF q, f, off

\* The device is lost and found.
LEMMA IncomingLost ==
    ASSUME Incoming, IInv,
           \/ MonitorCleanup \/ DisconnectEnds \/ Reconnect
           \/ \E c \in CpvtId : DisconnectReleases(c)
    PROVE  Incoming' /\ (HeardUp => HeardUp')
<1>1. CallsOK(pvt) /\ pvt \in Pvts /\ InCalls(pvt) /\ OneWay(events, mcall, "incoming")
  BY IInvParts DEF Good, CallsOK, Incoming
<1>2. AllSay(<<>>, "incoming")
  BY DEF AllSay
<1>3. CASE MonitorCleanup
  <2>1. OneWay(events', mcall', "incoming")
    BY <1>1, <1>2, <1>3 DEF MonitorCleanup, OneWay, modem
  <2>. QED  BY <1>3, <2>1 DEF MonitorCleanup, Incoming, HeardUp, threads, modem
<1>4. CASE \E c \in CpvtId : DisconnectReleases(c)
  <2>1. Meek(pvt, pvt')
    BY <1>1, <1>4, MeekReleased DEF DisconnectReleases
  <2>2. InCalls(pvt')
    BY <1>1, <2>1, MeekKeeps
  <2>3. conn = "lost" /\ UNCHANGED <<request, conn, events, mcall, mdial>>
    BY <1>4 DEF DisconnectReleases, threads, modem
  <2>. QED  BY <2>2, <2>3 DEF Incoming, HeardUp
<1>5. CASE DisconnectEnds
  <2>1. pvt'.chans = {} /\ pvt'.at_queue = <<>>
    BY <1>1, <1>5 DEF DisconnectEnds, at_queue_flush, Pvts
  <2>2. InCalls(pvt')
    BY <2>1 DEF InCalls, QueueFor, Dials
  <2>. QED  BY <1>5, <2>1, <2>2 DEF DisconnectEnds, Incoming, HeardUp, modem
<1>6. CASE Reconnect
  <2>1. events' = <<>> /\ pvt' = pvt /\ pvt.chans = {} /\ request' = request /\ ~mdial' /\ conn' = "up"
    BY <1>6 DEF Reconnect, Incoming
  <2>2. \A i \in CallIdx : mcall'[i] \in {mcall[i], NoCall}
    BY <1>6 DEF Reconnect
  <2>3. \A i \in CallIdx : There(mcall', i) => mcall'[i] = mcall[i]
    BY <2>2 DEF There, NoCall
  <2>4. OneWay(events', mcall', "incoming")
    BY <1>1, <1>2, <2>1, <2>3 DEF OneWay, There
  <2>5. Incoming'
    BY <1>1, <2>1, <2>4 DEF Incoming
  <2>6. HeardUp'
    BY <2>1 DEF HeardUp, Heard, Told
  <2>. QED  BY <2>5, <2>6
<1>. QED  BY <1>3, <1>4, <1>5, <1>6

\* The modem goes on with its calls.
LEMMA IncomingModem ==
    ASSUME Incoming, IInv, ModemNext
    PROVE  Incoming' /\ ("silent" \notin Faults /\ HeardUp => HeardUp')
<1>1. CallsOK(pvt) /\ ModemOK /\ InCalls(pvt) /\ OneWay(events, mcall, "incoming") /\ ~mdial
  BY IInvParts DEF Good, Incoming
<1>2. CASE ModemResets
  <2>1. events' = <<>> /\ pvt' = pvt /\ request' = request /\ ~mdial' /\ conn' = "lost"
    BY <1>2 DEF ModemResets, threads
  <2>2. OneWay(events', mcall', "incoming")
    BY <1>2, <2>1 DEF ModemResets, OneWay, AllSay, There, NoCall
  <2>. QED  BY <1>1, <2>1, <2>2 DEF Incoming, HeardUp
<1>3. CASE /\ UNCHANGED <<pvt, threads, conn>> /\ conn = "up"
           /\ \/ Chatted \/ Answered(OK) \/ Answered(ERROR) \/ DialTaken
              \/ \E x \in CallIdx : CallBegun(x) \/ CallOver(x) \/ CallComes(x)
  <2>1. ~DialTaken
    <3>. SUFFICES ASSUME DialTaken PROVE FALSE
      OBVIOUS
    <3>1. ~QueueEmpty(pvt) /\ at_queue_head_cmd(pvt).cmd = "D"
      BY DEF DialTaken, Working, HeadWritten
    <3>2. QueueFor(pvt.at_queue, {}, Linked(pvt))
      BY <1>1 DEF InCalls
    <3>3. HeadCode(pvt.at_queue) = "D" => pvt.at_queue[1].cpvt \in {}
      BY <1>1, <3>1, <3>2, HeadFacts
    <3>4. at_queue_head_cmd(pvt).cmd = HeadCode(pvt.at_queue)
      BY <1>1, <3>1, <3>2, HeadFacts
    <3>. QED  BY <3>1, <3>3, <3>4
  <2>2. \A x \in CallIdx : ~CallBegun(x)
    BY <1>1 DEF CallBegun
  <2>3. ~mdial'
    BY <1>1, <1>3, <2>1, <2>2 DEF Chatted, Answered, CallOver, CallComes
  <2>4. OneWay(events', mcall', "incoming")
    BY <1>1, <1>3, <2>1, <2>2, OneWayModem
  <2>5. Incoming'
    BY <1>1, <1>3, <2>3, <2>4 DEF Incoming, threads
  <2>6. ASSUME "silent" \notin Faults, HeardUp PROVE HeardUp'
    <3>1. GoesOn(events, mcall, events', mcall')
      BY <1>1, <1>3, <2>6, StoryGoesOn
    <3>2. \A c \in pvt.chans : pvt.cpvt[c].idx \in CallIdx
      BY <1>1 DEF InCalls
    <3>. QED  BY <1>3, <2>6, <3>1, <3>2 DEF HeardUp, Heard, GoesOn
  <2>. QED  BY <2>5, <2>6
<1>. QED  BY <1>1, <1>2, <1>3, ModemKinds

LEMMA IncomingStep ==
    ASSUME DialOpts = {}, IInv, Incoming, [Next]_vars
    PROVE  Incoming' /\ ("silent" \notin Faults /\ HeardUp => HeardUp')
<1>1. CASE UNCHANGED vars
  BY <1>1 DEF vars, threads, modem, Incoming, HeardUp
<1>2. CASE ThreadNext
  <2>1. Meek(pvt, pvt') /\ UNCHANGED <<request, conn, events, mcall, mdial>>
    BY <1>2, IncomingThread
  <2>2. InCalls(pvt')
    BY <2>1, MeekKeeps DEF Incoming
  <2>3. Incoming'
    BY <2>1, <2>2 DEF Incoming, Meek
  <2>4. Heard(events, mcall, pvt) => Heard(events, mcall, pvt')
    BY <2>1 DEF Heard, Meek
  <2>. QED  BY <2>1, <2>3, <2>4 DEF HeardUp
<1>3. CASE MonitorNext
  <2>1. CASE MonitorReads /\ ~at_response_clcc
    BY <2>1, IncomingRead
  <2>2. CASE at_response_clcc
    BY <2>2, IncomingListed
  <2>3. CASE \/ MonitorCleanup \/ DisconnectEnds \/ Reconnect
             \/ \E c \in CpvtId : DisconnectReleases(c)
    BY <2>3, IncomingLost
  <2>. QED  BY <1>3, <2>1, <2>2, <2>3 DEF MonitorNext, MonitorReads
<1>4. CASE ModemNext
  BY <1>4, IncomingModem
<1>. QED  BY <1>1, <1>2, <1>3, <1>4 DEF Next


LEMMA IncomingInit == Init => Incoming /\ HeardUp
<1>. SUFFICES ASSUME Init PROVE Incoming /\ HeardUp
  OBVIOUS
<1>1. pvt.chans = {} /\ pvt.at_queue = <<>> /\ events = <<>> /\ ~mdial /\ conn = "up"
  BY DEF Init, NoCalls
<1>2. InCalls(pvt)
  BY <1>1 DEF InCalls, QueueFor, Dials
<1>3. OneWay(events, mcall, "incoming")
  BY <1>1 DEF Init, OneWay, AllSay, There, NoCall
<1>4. \A d \in Dialer : request[d] = NoRequest
  BY DEF Init
<1>. QED  BY <1>1, <1>2, <1>3, <1>4 DEF Incoming, HeardUp, Heard, Told

LEMMA IncomingAlways == ASSUME DialOpts = {} PROVE Spec => []Incoming
<1>1. Init => Incoming
  BY IncomingInit
<1>2. IInv /\ Incoming /\ [Next]_vars => Incoming'
  BY IncomingStep
<1>. QED  BY <1>1, <1>2, CallsKept, PTL DEF Spec

\* While only calls of others come in, a search for a call index (^CEND, ^CONN
\* and the lines of +CLCC are all looked up by it) finds one context, whatever
\* fails or is lost.
THEOREM IncomingIdxUnique == ASSUME DialOpts = {} PROVE Spec => []CallIdxUnique
<1>1. Incoming => CallIdxUnique
  BY DEF Incoming, InCalls, CallIdxUnique
<1>. QED  BY <1>1, IncomingAlways, PTL

\* The call of an incoming channel will be hung up with the channel, whatever
\* fails or is lost: no AT+CHUP that may still be queued takes the mark of a
\* call back that has a channel.
THEOREM IncomingWillEnd == ASSUME DialOpts = {} PROVE Spec => []HangupWillEndCall
<1>1. Incoming => HangupWillEndCall
  BY DEF Incoming, InCalls, HangupWillEndCall
<1>. QED  BY <1>1, IncomingAlways, PTL

\* While only calls of others come in, and the modem tells their end, a context
\* stands for a call of the modem or one whose end was not read yet: late lines
\* of +CLCC bring no call back, and no ^CEND finds another call.
THEOREM IncomingBacked ==
    ASSUME DialOpts = {}, "silent" \notin Faults
    PROVE  Spec => []NoZombies
<1>1. Init => HeardUp
  BY IncomingInit
<1>2. IInv /\ Incoming /\ HeardUp /\ [Next]_vars => HeardUp'
  BY IncomingStep
<1>3. ASSUME IInv, Incoming, HeardUp PROVE NoZombies
  <2>. SUFFICES ASSUME conn = "up", NEW c \in pvt.chans PROVE Backed(c)
    BY DEF NoZombies
  <2>. DEFINE i == pvt.cpvt[c].idx
  <2>1. i \in CallIdx /\ pvt.cpvt[c].dir = "incoming" /\ OneWay(events, mcall, "incoming")
    BY <1>3 DEF Incoming, InCalls
  <2>2. Open(events, mcall, 0, i) /\ DOMAIN events = 1 .. Len(events)
    BY <1>3, IInvParts DEF HeardUp, Heard, ModemOK
  <2>3. CASE There(mcall, i)
    BY <2>1, <2>3 DEF Backed, There, OneWay
  <2>4. CASE \E l \in 0 + 1 .. Len(events) : Ends(events[l], i)
    <3>1. PICK l \in 1 .. Len(events) : Ends(events[l], i)
      BY <2>4
    <3>2. SaysOf(events[l], "incoming")
      BY <2>1 DEF OneWay, AllSay
    <3>3. events[l] = Event("CEND", i)
      BY <3>1, <3>2 DEF SaysOf, Ends
    <3>. QED  BY <2>2, <3>3 DEF Backed
  <2>. QED  BY <2>2, <2>3, <2>4 DEF Open
<1>4. IInv /\ Incoming /\ HeardUp => NoZombies
  BY <1>3
<1>. QED  BY <1>1, <1>2, <1>4, CallsKept, IncomingAlways, PTL DEF Spec


-----------------------------------------------------------------------------
(* Calls that are placed                                                   *)

Final(e) == e.res \in {"OK", "ERROR"}

\* The modem took an ATD, and ^ORIG of its call was not read.
Pending(ev, md) == md \/ \E k \in 1 .. Len(ev) : ev[k].res = "ORIG"

\* Who is not hung up for, but when it has no channel.
Spared(p) == IF Group295 THEN {} ELSE Linked(p)

OutCalls(p) ==
    /\ \A c \in p.chans : /\ p.cpvt[c].dir = "outgoing"
                          /\ p.cpvt[c].state # "RELEASED"
                          /\ p.cpvt[c].state # "INIT" => p.cpvt[c].called /\ p.cpvt[c].idx \in CallIdx
    /\ \A b, c \in p.chans : p.cpvt[b].idx = p.cpvt[c].idx => b = c

\* Call i is open, and no context that has begun is of it.
Stray(ev, m, p, i) ==
    /\ i \in CallIdx /\ Open(ev, m, 0, i)
    /\ \A c \in p.chans : p.cpvt[c].state # "INIT" => p.cpvt[c].idx # i

\* A call is being set up.
Underway(ev, m, md, p) ==
    \/ \E i : Stray(ev, m, p, i)
    \/ Pending(ev, md) \/ p.last_dialed # NoCpvt \/ Dials(p.at_queue) # {}

\* A context that has begun is of an open call.  A call that lost its context
\* is the only one that is set up, and as long as one is, the context it was
\* dialed for is there or another that was called.
Held(ev, m, md, p) ==
    /\ OutCalls(p)
    /\ \A c \in p.chans : p.cpvt[c].state # "INIT" => Open(ev, m, 0, p.cpvt[c].idx)
    /\ \A i : Stray(ev, m, p, i) =>
          /\ ~Pending(ev, md) /\ p.last_dialed = NoCpvt /\ Dials(p.at_queue) = {}
          /\ \A j : Stray(ev, m, p, j) => j = i
    /\ p.last_dialed # NoCpvt => p.last_dialed \in InState(p, "INIT")
    /\ QueueFor(p.at_queue, InState(p, "INIT"), Spared(p))
    /\ Underway(ev, m, md, p) => \E c \in InState(p, "INIT") : p.cpvt[c].called
    /\ ~Group295 =>
          \A c \in p.chans :
             /\ p.cpvt[c].channel
             /\ p.cpvt[c].state # "INIT" \/ Underway(ev, m, md, p)
             => p.cpvt[c].need_hangup

\* No call begins or ends in q, and none is set up that was not in p.
Follows(p, q) ==
    /\ q.chans = p.chans
    /\ \A c \in p.chans :
          /\ q.cpvt[c].idx = p.cpvt[c].idx /\ q.cpvt[c].dir = p.cpvt[c].dir
          /\ q.cpvt[c].called = p.cpvt[c].called
          /\ \A s \in {"INIT", "RELEASED"} : q.cpvt[c].state = s <=> p.cpvt[c].state = s
          /\ q.cpvt[c].channel => p.cpvt[c].channel
          /\ ~Group295 /\ q.cpvt[c].channel /\ p.cpvt[c].need_hangup => q.cpvt[c].need_hangup
    /\ \/ q.last_dialed \in {p.last_dialed, NoCpvt}
       \/ Dials(p.at_queue) # {} /\ q.last_dialed \in InState(p, "INIT")
    /\ Dials(p.at_queue) = {} => Dials(q.at_queue) = {}
    /\ QueueFor(p.at_queue, InState(p, "INIT"), Spared(p))
       => QueueFor(q.at_queue, InState(q, "INIT"), Spared(q))

LEMMA FollowsTransitive ==
    ASSUME NEW p, NEW q, NEW r
    PROVE  Follows(p, p) /\ (Follows(p, q) /\ Follows(q, r) => Follows(p, r))
<1>1. Follows(p, p)
  BY DEF Follows
<1>2. ASSUME Follows(p, q), Follows(q, r) PROVE Follows(p, r)
  <2>1. InState(q, "INIT") = InState(p, "INIT")
    BY <1>2 DEF Follows, InState
  <2>2. \/ r.last_dialed \in {p.last_dialed, NoCpvt}
        \/ Dials(p.at_queue) # {} /\ r.last_dialed \in InState(p, "INIT")
    BY <1>2, <2>1 DEF Follows
  <2>. QED  BY <1>2, <2>2 DEF Follows
<1>. QED  BY <1>1, <1>2

LEMMA HeldOn ==
    ASSUME NEW ev, NEW m, NEW md, NEW p, NEW fv, NEW n, NEW nd, NEW q,
           Held(ev, m, md, p), Follows(p, q),
           \A i \in CallIdx : Open(fv, n, 0, i) => Open(ev, m, 0, i),
           \A c \in p.chans : p.cpvt[c].state # "INIT" => Open(fv, n, 0, p.cpvt[c].idx),
           Pending(fv, nd) => Pending(ev, md)
    PROVE  Held(fv, n, nd, q)
<1>1. InState(q, "INIT") = InState(p, "INIT") /\ q.chans = p.chans
  BY DEF Follows, InState
<1>2. OutCalls(q)
  BY <1>1 DEF Held, OutCalls, Follows
<1>3. \A c \in q.chans : q.cpvt[c].state # "INIT" => Open(fv, n, 0, q.cpvt[c].idx)
  BY <1>1 DEF Follows
<1>4. \A i : Stray(fv, n, q, i) => Stray(ev, m, p, i)
  BY <1>1 DEF Stray, Follows
<1>5. q.last_dialed # NoCpvt =>
         /\ q.last_dialed \in InState(p, "INIT")
         /\ p.last_dialed # NoCpvt \/ Dials(p.at_queue) # {}
  BY DEF Follows, Held
<1>6. Dials(q.at_queue) # {} => Dials(p.at_queue) # {}
  BY DEF Follows
<1>7. Underway(fv, n, nd, q) => Underway(ev, m, md, p)
  BY <1>4, <1>5, <1>6 DEF Underway
<1>8. \A i : Stray(fv, n, q, i) =>
          /\ ~Pending(fv, nd) /\ q.last_dialed = NoCpvt /\ Dials(q.at_queue) = {}
          /\ \A j : Stray(fv, n, q, j) => j = i
  BY <1>4, <1>5, <1>6 DEF Held
<1>9. QueueFor(q.at_queue, InState(q, "INIT"), Spared(q))
  BY DEF Held, Follows
<1>10. Underway(fv, n, nd, q) => \E c \in InState(q, "INIT") : q.cpvt[c].called
  <2>1. \A c \in InState(p, "INIT") : q.cpvt[c].called = p.cpvt[c].called
    BY DEF InState, Follows
  <2>. QED  BY <1>1, <1>7, <2>1 DEF Held
<1>11. ASSUME ~Group295, NEW c \in q.chans, q.cpvt[c].channel,
              q.cpvt[c].state # "INIT" \/ Underway(fv, n, nd, q)
       PROVE  q.cpvt[c].need_hangup
  <2>1. /\ c \in p.chans /\ (q.cpvt[c].state = "INIT" <=> p.cpvt[c].state = "INIT") /\ p.cpvt[c].channel
        /\ p.cpvt[c].need_hangup => q.cpvt[c].need_hangup
    BY <1>1, <1>11 DEF Follows
  <2>2. p.cpvt[c].need_hangup
    BY <1>7, <1>11, <2>1 DEF Held
  <2>. QED  BY <2>1, <2>2
<1>. QED  BY <1>1, <1>2, <1>3, <1>5, <1>8, <1>9, <1>10, <1>11 DEF Held

\* What is said of placed calls, and of the commands of the queue q: the head
\* command is answered once, and an ATD before ^ORIG is told.
Spoken(ev, m, md, q) ==
    /\ Told(ev, m) /\ Over(ev, m) /\ OneWay(ev, m, "outgoing")
    /\ \A j, k \in 1 .. Len(ev) : Final(ev[j]) /\ Final(ev[k]) => j = k
    /\ \A k \in 1 .. Len(ev) :
          /\ Final(ev[k]) => q # <<>>
          /\ ev[k].res = "ERROR" => HeadCode(q) \notin CriticalCmds
          /\ ev[k].res = "ORIG" => ~md /\ \A j \in 1 .. Len(ev) : ev[j].res = "ORIG" => j = k
    /\ Pending(ev, md) /\ Dials(q) # {} =>
          /\ HeadCode(q) = "D" /\ Dials(q) \subseteq {1}
          /\ \E k \in 1 .. Len(ev) : ev[k].res = "OK" /\ \A j \in 1 .. k : ev[j].res # "ORIG"

LEMMA NoDials == Dials(<<>>) = {}
BY DEF Dials

LEMMA SpokenLonger ==
    ASSUME NEW ev, NEW m, NEW md, NEW q, NEW r, NEW I, NEW N, Spoken(ev, m, md, q), Longer(q, r, I, N)
    PROVE  Spoken(ev, m, md, r)
<1>1. Dials(r) # {} => Dials(q) # {} /\ q # <<>>
  BY NoDials DEF Longer
<1>2. q # <<>> => r # <<>> /\ HeadCode(r) = HeadCode(q)
  BY DEF Longer
<1>3. \A k \in 1 .. Len(ev) :
          /\ Final(ev[k]) => r # <<>>
          /\ ev[k].res = "ERROR" => HeadCode(r) \notin CriticalCmds
  <2>. SUFFICES ASSUME NEW k \in 1 .. Len(ev), Final(ev[k])
                PROVE  r # <<>> /\ (ev[k].res = "ERROR" => HeadCode(r) \notin CriticalCmds)
    BY DEF Final
  <2>. QED  BY <1>2 DEF Spoken
<1>4. Pending(ev, md) /\ Dials(r) # {} =>
          /\ HeadCode(r) = "D" /\ Dials(r) \subseteq {1}
          /\ \E k \in 1 .. Len(ev) : ev[k].res = "OK" /\ \A j \in 1 .. k : ev[j].res # "ORIG"
  BY <1>1, <1>2 DEF Spoken, Longer
<1>. QED  BY <1>3, <1>4 DEF Spoken

\* After the first result, which the queue goes with if it is an answer.
LEMMA SpokenTail ==
    ASSUME NEW ev \in Seq(Results), ev # <<>>, NEW m, NEW md, NEW q, Spoken(ev, m, md, q)
    PROVE  /\ Pending(Tail(ev), md) => Pending(ev, md)
           /\ ~Final(ev[1]) => Spoken(Tail(ev), m, md, q)
           /\ Final(ev[1]) => \A r : (Pending(ev, md) => Dials(r) = {}) => Spoken(Tail(ev), m, md, r)
           /\ ev[1].res = "ORIG" => Dials(q) = {} /\ ~Pending(Tail(ev), md)
<1>. DEFINE fv == Tail(ev)
            z == Len(ev)
<1>1. /\ z \in Nat \ {0} /\ Len(fv) = z - 1 /\ fv \in Seq(Results)
      /\ \A k \in 1 .. z - 1 : fv[k] = ev[k + 1]
  BY ReadAt
<1>2. Told(fv, m) /\ Over(fv, m)
  BY ReadOn DEF Spoken
<1>3. OneWay(fv, m, "outgoing")
  <2>1. AllSay(ev, "outgoing")
    BY DEF Spoken, OneWay
  <2>2. AllSay(fv, "outgoing")
    BY <2>1, TailSays
  <2>. QED  BY <2>2 DEF Spoken, OneWay
<1>. HIDE DEF fv
<1>4. /\ \A k \in 1 .. z - 1 : k + 1 \in 1 .. z /\ k + 1 # 1 /\ fv[k] = ev[k + 1]
      /\ \A k \in 1 .. z : k # 1 => k - 1 \in 1 .. z - 1 /\ fv[k - 1] = ev[k]
      /\ \A k \in 1 .. z : \A j \in 1 .. k - 1 : j \in 1 .. z - 1 /\ j + 1 \in 1 .. k /\ fv[j] = ev[j + 1]
      /\ \A k \in 1 .. z : 1 \in 1 .. k
      /\ 1 \in 1 .. z
      /\ \A j, k \in 1 .. z - 1 : j + 1 = k + 1 => j = k
  BY <1>1
<1>. HIDE DEF z
<1>5. Pending(fv, md) => Pending(ev, md)
  BY <1>1, <1>4 DEF Pending, z
<1>6. /\ \A j, k \in 1 .. z : Final(ev[j]) /\ Final(ev[k]) => j = k
      /\ \A k \in 1 .. z :
            /\ Final(ev[k]) => q # <<>>
            /\ ev[k].res = "ERROR" => HeadCode(q) \notin CriticalCmds
            /\ ev[k].res = "ORIG" => ~md /\ \A j \in 1 .. z : ev[j].res = "ORIG" => j = k
      /\ Pending(ev, md) /\ Dials(q) # {} =>
            /\ HeadCode(q) = "D" /\ Dials(q) \subseteq {1}
            /\ \E k \in 1 .. z : ev[k].res = "OK" /\ \A j \in 1 .. k : ev[j].res # "ORIG"
  BY DEF Spoken, z
<1>7. /\ \A j, k \in 1 .. z - 1 : Final(fv[j]) /\ Final(fv[k]) => j = k
      /\ \A k \in 1 .. z - 1 :
            fv[k].res = "ORIG" => ~md /\ \A j \in 1 .. z - 1 : fv[j].res = "ORIG" => j = k
  <2>1. \A j, k \in 1 .. z - 1 : Final(fv[j]) /\ Final(fv[k]) => j = k
    BY <1>4, <1>6
  <2>2. ASSUME NEW j \in 1 .. z - 1, NEW k \in 1 .. z - 1, fv[j].res = "ORIG", fv[k].res = "ORIG"
        PROVE  ~md /\ j = k
    <3>1. j + 1 \in 1 .. z /\ k + 1 \in 1 .. z /\ fv[j] = ev[j + 1] /\ fv[k] = ev[k + 1]
      BY <1>4
    <3>2. ~md /\ j + 1 = k + 1
      BY <1>6, <2>2, <3>1
    <3>. QED  BY <1>4, <3>2
  <2>. QED  BY <2>1, <2>2
<1>8. ASSUME ~Final(ev[1]) PROVE Spoken(fv, m, md, q)
  <2>1. \A k \in 1 .. z - 1 : /\ Final(fv[k]) => q # <<>>
                              /\ fv[k].res = "ERROR" => HeadCode(q) \notin CriticalCmds
    BY <1>4, <1>6
  <2>2. ASSUME Pending(fv, md), Dials(q) # {}
        PROVE  /\ HeadCode(q) = "D" /\ Dials(q) \subseteq {1}
               /\ \E k \in 1 .. z - 1 : fv[k].res = "OK" /\ \A j \in 1 .. k : fv[j].res # "ORIG"
    <3>1. PICK k \in 1 .. z : ev[k].res = "OK" /\ \A j \in 1 .. k : ev[j].res # "ORIG"
      BY <1>5, <1>6, <2>2
    <3>2. k # 1
      BY <1>8, <3>1 DEF Final
    <3>3. k - 1 \in 1 .. z - 1 /\ fv[k - 1].res = "OK" /\ \A j \in 1 .. k - 1 : fv[j].res # "ORIG"
      BY <1>4, <3>1, <3>2
    <3>. QED  BY <1>5, <1>6, <2>2, <3>3
  <2>. QED  BY <1>1, <1>2, <1>3, <1>7, <2>1, <2>2 DEF Spoken, z
<1>9. ASSUME Final(ev[1]), NEW r, Pending(ev, md) => Dials(r) = {} PROVE Spoken(fv, m, md, r)
  <2>1. \A k \in 1 .. z - 1 : ~Final(fv[k])
    BY <1>4, <1>6, <1>9
  <2>2. \A k \in 1 .. z - 1 : fv[k].res # "ERROR"
    BY <2>1 DEF Final
  <2>. QED  BY <1>1, <1>2, <1>3, <1>5, <1>7, <1>9, <2>1, <2>2 DEF Spoken, z
<1>10. ASSUME ev[1].res = "ORIG" PROVE Dials(q) = {} /\ ~Pending(fv, md)
  <2>1. Pending(ev, md) /\ ~md
    BY <1>4, <1>6, <1>10 DEF Pending, z
  <2>2. Dials(q) = {}
    BY <1>4, <1>6, <1>10, <2>1
  <2>3. \A k \in 1 .. z - 1 : fv[k].res # "ORIG"
    BY <1>4, <1>6, <1>10
  <2>. QED  BY <1>1, <2>1, <2>2, <2>3 DEF Pending, z
<1>. QED  BY <1>5, <1>8, <1>9, <1>10 DEF fv


\* Nothing happens to the contexts.
LEMMA FollowsSame ==
    ASSUME NEW p, NEW q, SameCalls(p, q),
           Dials(p.at_queue) = {} => Dials(q.at_queue) = {},
           QueueFor(p.at_queue, InState(p, "INIT"), Spared(p))
           => QueueFor(q.at_queue, InState(p, "INIT"), Spared(p))
    PROVE  Follows(p, q)
<1>1. InState(q, "INIT") = InState(p, "INIT") /\ Spared(q) = Spared(p)
  BY DEF SameCalls, InState, Spared, Linked
<1>. QED  BY <1>1 DEF SameCalls, Follows

LEMMA FollowsKept ==
    ASSUME NEW p, NEW q, SameCalls(p, q),
           Longer(p.at_queue, q.at_queue, InState(p, "INIT"), Spared(p))
    PROVE  Follows(p, q)
BY FollowsSame DEF Longer

\* A result is read that no call begins or ends with.
LEMMA TailHeld ==
    ASSUME NEW ev \in Seq(Results), ev # <<>>, ev[1].res \notin {"ORIG", "CEND"}, NEW m, NEW md,
           NEW p, Held(ev, m, md, p), NEW q, Follows(p, q)
    PROVE  Held(Tail(ev), m, md, q)
<1>1. \A i \in CallIdx : Open(Tail(ev), m, 0, i) <=> Open(ev, m, 0, i)
  BY ReadFirst DEF Begins, Ends
<1>2. \A c \in p.chans : p.cpvt[c].state # "INIT" => Open(Tail(ev), m, 0, p.cpvt[c].idx)
  BY <1>1 DEF Held, OutCalls
<1>3. Pending(Tail(ev), md) => Pending(ev, md)
  BY ReadAt DEF Pending
<1>. QED  BY <1>1, <1>2, <1>3, HeldOn

\* A context that was not begun is found for an open call: the call had lost
\* its own.
LEMMA FoundStray ==
    ASSUME NEW ev, NEW m, NEW md, NEW p, Held(ev, m, md, p), NEW c \in p.chans,
           NEW i \in CallIdx, p.cpvt[c].idx = i, p.cpvt[c].state = "INIT", Open(ev, m, 0, i)
    PROVE  /\ ~Pending(ev, md) /\ p.last_dialed = NoCpvt /\ Dials(p.at_queue) = {}
           /\ \A j : Stray(ev, m, p, j) => j = i
           /\ Underway(ev, m, md, p)
<1>1. \A d \in p.chans : p.cpvt[d].state # "INIT" => p.cpvt[d].idx # i
  BY DEF Held, OutCalls
<1>2. Stray(ev, m, p, i)
  BY <1>1 DEF Stray
<1>3. Underway(ev, m, md, p)
  BY <1>2 DEF Underway
<1>. QED  BY <1>2, <1>3 DEF Held

\* Nothing to dial: nobody is waited for.
LEMMA NobodyDials ==
    ASSUME NEW q, NEW I, NEW N, NEW J, NEW M, QueueFor(q, I, N), Dials(q) = {}, M \subseteq N
    PROVE  QueueFor(q, J, M)
BY QueueForOthers

\* A context of an open call gets another state.
LEMMA HeldStated ==
    ASSUME NEW ev, NEW m, NEW md, NEW p, p \in Pvts, Held(ev, m, md, p),
           \A a, b \in InState(p, "INIT") : a = b,
           NEW c \in p.chans, p.cpvt[c].idx \in CallIdx, Open(ev, m, 0, p.cpvt[c].idx),
           NEW new, new \notin {"INIT", "RELEASED"}, NEW q, Changed(p, q, c, new),
           \A I : Longer(p.at_queue, q.at_queue, I, Spared(p))
    PROVE  Held(ev, m, md, q)
<1>. DEFINE i == p.cpvt[c].idx
<1>1. /\ q.chans = p.chans /\ q.last_dialed = p.last_dialed /\ p.chans \subseteq CpvtId
      /\ Dials(p.at_queue) = {} => Dials(q.at_queue) = {}
      /\ \A I : QueueFor(p.at_queue, I, Spared(p)) => QueueFor(q.at_queue, I, Spared(p))
  BY DEF Changed, Pvts, Longer
<1>2. ASSUME NEW d \in p.chans
      PROVE  /\ q.cpvt[d].idx = p.cpvt[d].idx /\ q.cpvt[d].dir = p.cpvt[d].dir
             /\ q.cpvt[d].called = p.cpvt[d].called /\ q.cpvt[d].channel = p.cpvt[d].channel
             /\ q.cpvt[d].need_hangup = p.cpvt[d].need_hangup
             /\ q.cpvt[d].state = IF d = c THEN new ELSE p.cpvt[d].state
  BY <1>1, <1>2 DEF Changed, Alike
<1>3. Spared(q) = Spared(p)
  BY <1>1, <1>2 DEF Spared, Linked
<1>4. p.cpvt[c].state # "RELEASED" /\ QueueFor(p.at_queue, InState(p, "INIT"), Spared(p))
  BY DEF Held, OutCalls
<1>5. CASE p.cpvt[c].state # "INIT"
  <2>1. InState(q, "INIT") = InState(p, "INIT")
    BY <1>1, <1>2, <1>5 DEF InState
  <2>2. \A d \in p.chans : \A s \in {"INIT", "RELEASED"} : q.cpvt[d].state = s <=> p.cpvt[d].state = s
    BY <1>2, <1>4, <1>5
  <2>3. Follows(p, q)
    BY <1>1, <1>2, <1>3, <2>1, <2>2 DEF Follows
  <2>4. \A d \in p.chans : p.cpvt[d].state # "INIT" => Open(ev, m, 0, p.cpvt[d].idx)
    BY DEF Held
  <2>. QED  BY <2>3, <2>4, HeldOn
<1>6. CASE p.cpvt[c].state = "INIT"
  <2>1. /\ ~Pending(ev, md) /\ p.last_dialed = NoCpvt /\ Dials(p.at_queue) = {}
        /\ \A j : Stray(ev, m, p, j) => j = i
        /\ Underway(ev, m, md, p)
    <3>. HIDE DEF i
    <3>1. i \in CallIdx /\ p.cpvt[c].idx = i /\ Open(ev, m, 0, i) /\ Held(ev, m, md, p)
      BY DEF i
    <3>. QED  BY ONLY <1>6, <3>1, FoundStray
  <2>2. InState(p, "INIT") = {c} /\ InState(q, "INIT") = {}
    BY <1>1, <1>2, <1>6 DEF InState
  <2>3. p.cpvt[c].called
    BY <2>1, <2>2 DEF Held
  <2>4. OutCalls(q)
    <3>1. ASSUME NEW d \in q.chans
          PROVE  /\ q.cpvt[d].dir = "outgoing" /\ q.cpvt[d].state # "RELEASED"
                 /\ q.cpvt[d].state # "INIT" => q.cpvt[d].called /\ q.cpvt[d].idx \in CallIdx
      BY <1>1, <1>2, <2>3 DEF Held, OutCalls
    <3>2. \A b, d \in q.chans : q.cpvt[b].idx = q.cpvt[d].idx => b = d
      BY <1>1, <1>2 DEF Held, OutCalls
    <3>. QED  BY <3>1, <3>2 DEF OutCalls
  <2>5. \A d \in q.chans : Open(ev, m, 0, q.cpvt[d].idx)
    <3>. SUFFICES ASSUME NEW d \in q.chans PROVE Open(ev, m, 0, q.cpvt[d].idx)
      OBVIOUS
    <3>1. CASE d = c
      BY <1>2, <3>1
    <3>2. CASE d # c
      <4>1. d \notin InState(p, "INIT")
        BY <2>2, <3>2
      <4>. QED  BY <1>1, <1>2, <4>1 DEF Held, InState
    <3>. QED  BY <3>1, <3>2
  <2>6. \A j : ~Stray(ev, m, q, j)
    <3>. SUFFICES ASSUME NEW j, Stray(ev, m, q, j) PROVE FALSE
      OBVIOUS
    <3>1. Stray(ev, m, p, j)
      BY <1>1, <1>2, <1>6 DEF Stray
    <3>2. j = i /\ q.cpvt[c].idx = i /\ q.cpvt[c].state # "INIT" /\ c \in q.chans
      BY <1>1, <1>2, <2>1, <3>1
    <3>. QED  BY <3>2 DEF Stray
  <2>7. q.last_dialed = NoCpvt /\ Dials(q.at_queue) = {} /\ ~Underway(ev, m, md, q)
    BY <1>1, <2>1, <2>6 DEF Underway
  <2>8. QueueFor(q.at_queue, InState(q, "INIT"), Spared(q))
    BY <1>1, <1>3, <1>4, <2>7, NobodyDials
  <2>9. \A d \in q.chans : ~Group295 /\ q.cpvt[d].channel => q.cpvt[d].need_hangup
    BY <1>1, <1>2, <2>1 DEF Held
  <2>. QED  BY <2>4, <2>5, <2>6, <2>7, <2>8, <2>9 DEF Held
<1>. QED  BY <1>5, <1>6

\* ^CEND is read, and its context released.
LEMMA HeldEnded ==
    ASSUME NEW ev \in Seq(Results), ev # <<>>, ev[1].res = "CEND", ev[1].idx \in CallIdx,
           NEW m, Over(ev, m), NEW md, NEW p, p \in Pvts, Held(ev, m, md, p),
           \A a, b \in InState(p, "INIT") : a = b,
           NEW c \in WithIdx(p, ev[1].idx), NEW q, Released(p, q, c),
           \A I, N : sys_chan \notin N /\ c \notin I => Longer(p.at_queue, q.at_queue, I, N)
    PROVE  Held(Tail(ev), m, md, q)
<1>. DEFINE i == ev[1].idx
            fv == Tail(ev)
<1>1. /\ q.chans = p.chans \ {c} /\ c \in p.chans /\ p.chans \subseteq CpvtId /\ p.cpvt[c].idx = i
      /\ p.at_queue \in Seq(Tasks) /\ sys_chan \notin Spared(p) /\ c # NoCpvt
  BY LinkedCalls, NoCpvtAssumption DEF Released, Pvts, WithIdx, Spared
<1>2. ASSUME NEW d \in q.chans
      PROVE  /\ d \in p.chans /\ d # c
             /\ q.cpvt[d].idx = p.cpvt[d].idx /\ q.cpvt[d].dir = p.cpvt[d].dir
             /\ q.cpvt[d].called = p.cpvt[d].called /\ q.cpvt[d].channel = p.cpvt[d].channel
             /\ q.cpvt[d].need_hangup = p.cpvt[d].need_hangup
             /\ q.cpvt[d].state = p.cpvt[d].state
             /\ p.cpvt[d].idx # i
  <2>1. d \in p.chans /\ d # c
    BY <1>1, <1>2
  <2>2. p.cpvt[d].idx # i
    BY <1>1, <2>1 DEF Held, OutCalls
  <2>. QED  BY <1>2, <2>1, <2>2 DEF Released, Alike
<1>3. /\ ~Open(fv, m, 0, i)
      /\ \A j \in CallIdx : j # i => (Open(fv, m, 0, j) <=> Open(ev, m, 0, j))
      /\ Open(ev, m, 0, i)
  <2>1. \A j : ~Begins(ev[1], j) /\ (Ends(ev[1], j) <=> j = i)
    BY DEF Begins, Ends
  <2>2. Len(ev) \in Nat \ {0}
    BY ReadAt
  <2>3. 1 \in 0 + 1 .. Len(ev) /\ \A j \in 0 + 1 .. 1 - 1 : FALSE
    BY <2>2
  <2>4. Open(ev, m, 0, i)
    BY <2>1, <2>3 DEF Open
  <2>. QED  BY <2>1, <2>4, ReadFirst
<1>4. Pending(fv, md) => Pending(ev, md)
  BY ReadAt DEF Pending
<1>. HIDE DEF fv
<1>5. Spared(q) \subseteq Spared(p) /\ InState(q, "INIT") = InState(p, "INIT") \ {c}
  BY <1>1, <1>2 DEF Spared, Linked, InState
<1>6. OutCalls(q)
  <2>1. ASSUME NEW d \in q.chans
        PROVE  /\ q.cpvt[d].dir = "outgoing" /\ q.cpvt[d].state # "RELEASED"
               /\ q.cpvt[d].state # "INIT" => q.cpvt[d].called /\ q.cpvt[d].idx \in CallIdx
    BY <1>2 DEF Held, OutCalls
  <2>2. \A b, d \in q.chans : q.cpvt[b].idx = q.cpvt[d].idx => b = d
    BY <1>2 DEF Held, OutCalls
  <2>. QED  BY <2>1, <2>2 DEF OutCalls
<1>7. \A d \in q.chans : q.cpvt[d].state # "INIT" => Open(fv, m, 0, q.cpvt[d].idx)
  BY <1>2, <1>3 DEF Held, OutCalls
<1>8. ASSUME NEW j, Stray(fv, m, q, j) PROVE Stray(ev, m, p, j) /\ j # i
  <2>1. j \in CallIdx /\ j # i /\ Open(ev, m, 0, j)
    BY <1>3, <1>8 DEF Stray
  <2>2. ASSUME NEW d \in p.chans, p.cpvt[d].state # "INIT", p.cpvt[d].idx = j PROVE FALSE
    <3>1. d # c
      BY <1>1, <2>1, <2>2
    <3>2. d \in q.chans
      BY <1>1, <3>1
    <3>. QED  BY <1>2, <1>8, <2>2, <3>2 DEF Stray
  <2>. QED  BY <2>1, <2>2 DEF Stray
<1>9. CASE p.cpvt[c].state # "INIT"
  <2>1. c \notin InState(p, "INIT")
    BY <1>9 DEF InState
  <2>2. q.last_dialed = p.last_dialed /\ InState(q, "INIT") = InState(p, "INIT")
    <3>1. p.last_dialed # c
      BY <1>1, <2>1 DEF Held
    <3>2. InState(p, "INIT") \ {c} = InState(p, "INIT")
      BY <2>1
    <3>. QED  BY <1>5, <3>1, <3>2 DEF Released
  <2>3. Longer(p.at_queue, q.at_queue, InState(p, "INIT"), Spared(p))
    BY <1>1, <2>1
  <2>4. QueueFor(q.at_queue, InState(q, "INIT"), Spared(q))
    <3>1. QueueFor(q.at_queue, InState(p, "INIT"), Spared(p))
      BY <2>3 DEF Held, Longer
    <3>. QED  BY <1>5, <2>2, <3>1, QueueForOthers
  <2>5. Dials(p.at_queue) = {} => Dials(q.at_queue) = {}
    BY <2>3 DEF Longer
  <2>6. Underway(fv, m, md, q) => Underway(ev, m, md, p)
    BY <1>4, <1>8, <2>2, <2>5 DEF Underway
  <2>7. \A j : Stray(fv, m, q, j) =>
          /\ ~Pending(fv, md) /\ q.last_dialed = NoCpvt /\ Dials(q.at_queue) = {}
          /\ \A k : Stray(fv, m, q, k) => k = j
    BY <1>4, <1>8, <2>2, <2>5 DEF Held
  <2>8. Underway(fv, m, md, q) => \E d \in InState(q, "INIT") : q.cpvt[d].called
    <3>1. \A d \in InState(q, "INIT") : q.cpvt[d].called = p.cpvt[d].called
      BY <1>2 DEF InState
    <3>. QED  BY <2>2, <2>6, <3>1 DEF Held
  <2>9. ASSUME ~Group295, NEW d \in q.chans, q.cpvt[d].channel,
               q.cpvt[d].state # "INIT" \/ Underway(fv, m, md, q)
        PROVE  q.cpvt[d].need_hangup
    BY <1>2, <2>6, <2>9 DEF Held
  <2>10. q.last_dialed # NoCpvt => q.last_dialed \in InState(q, "INIT")
    BY <2>2 DEF Held
  <2>. QED  BY <1>6, <1>7, <2>4, <2>7, <2>8, <2>9, <2>10 DEF Held, fv
<1>10. CASE p.cpvt[c].state = "INIT"
  <2>1. /\ ~Pending(ev, md) /\ p.last_dialed = NoCpvt /\ Dials(p.at_queue) = {}
        /\ \A j : Stray(ev, m, p, j) => j = i
        /\ Underway(ev, m, md, p)
    <3>1. c \in p.chans /\ p.cpvt[c].idx = i /\ i \in CallIdx /\ Open(ev, m, 0, i)
      BY <1>1, <1>3
    <3>2. Held(ev, m, md, p)
      OBVIOUS
    <3>. QED  BY <1>10, <3>1, <3>2, FoundStray
  <2>2. \A j : ~Stray(fv, m, q, j)
    BY <1>8, <2>1
  <2>3. QueueFor(p.at_queue, {}, Spared(p))
    BY <2>1, NobodyDials DEF Held
  <2>4. Longer(p.at_queue, q.at_queue, {}, Spared(p))
    BY <1>1
  <2>5. Dials(q.at_queue) = {} /\ QueueFor(q.at_queue, {}, Spared(p))
    BY <2>1, <2>3, <2>4 DEF Longer
  <2>6. QueueFor(q.at_queue, InState(q, "INIT"), Spared(q))
    BY <1>5, <2>5, NobodyDials
  <2>7. q.last_dialed = NoCpvt
    BY <2>1 DEF Released
  <2>8. ~Underway(fv, m, md, q)
    BY <1>4, <2>1, <2>2, <2>5, <2>7 DEF Underway
  <2>9. ASSUME ~Group295, NEW d \in q.chans, q.cpvt[d].channel PROVE q.cpvt[d].need_hangup
    BY <1>2, <2>1, <2>9 DEF Held
  <2>. QED  BY <1>6, <1>7, <2>2, <2>6, <2>7, <2>8, <2>9 DEF Held, fv
<1>. QED  BY <1>9, <1>10


\* ^ORIG is read, and the call dialed last has its number.
LEMMA HeldNumbered ==
    ASSUME NEW ev \in Seq(Results), ev # <<>>, ev[1].res = "ORIG", ev[1].idx \in CallIdx,
           NEW m, NEW md, NEW p, p \in Pvts, Held(ev, m, md, p), Spoken(ev, m, md, p.at_queue),
           \A a, b \in InState(p, "INIT") : a = b,
           p.last_dialed # NoCpvt, NEW q, Numbered(p, q, p.last_dialed, ev[1].idx),
           \A I, N : Longer(p.at_queue, q.at_queue, I, N)
    PROVE  Held(Tail(ev), m, md, q)
<1>. DEFINE i == ev[1].idx
            c == p.last_dialed
            fv == Tail(ev)
<1>1. /\ c \in p.chans /\ c \in InState(p, "INIT") /\ p.chans \subseteq CpvtId /\ q.chans = p.chans
      /\ q.last_dialed = NoCpvt
  BY DEF Held, InState, Pvts, Numbered
<1>2. ASSUME NEW d \in p.chans
      PROVE  /\ q.cpvt[d].dir = p.cpvt[d].dir /\ q.cpvt[d].called = p.cpvt[d].called
             /\ q.cpvt[d].channel = p.cpvt[d].channel
             /\ q.cpvt[d].need_hangup = p.cpvt[d].need_hangup
             /\ q.cpvt[d].idx = IF d = c THEN i ELSE p.cpvt[d].idx
             /\ q.cpvt[d].state = IF d = c THEN "DIALING" ELSE p.cpvt[d].state
             /\ d # c => p.cpvt[d].state # "INIT"
  <2>1. p.cpvt[d].state = "INIT" => d = c
    BY <1>1 DEF InState
  <2>. QED  BY <1>1, <2>1 DEF Numbered
<1>3. Dials(p.at_queue) = {} /\ ~Pending(fv, md)
  BY SpokenTail
<1>4. Pending(ev, md)
  <2>1. 1 \in 1 .. Len(ev)
    BY ReadAt
  <2>. QED  BY <2>1 DEF Pending
<1>5. /\ ~Open(ev, m, 0, i) /\ Open(fv, m, 0, i)
      /\ \A j \in CallIdx : j # i => (Open(fv, m, 0, j) <=> Open(ev, m, 0, j))
  <2>1. \A j : ~Ends(ev[1], j) /\ (Begins(ev[1], j) <=> j = i)
    BY DEF Begins, Ends
  <2>2. Told(ev, m)
    BY DEF Spoken
  <2>. QED  BY <2>1, <2>2, ReadFirst
<1>. HIDE DEF fv
<1>6. Underway(ev, m, md, p) /\ \A j : ~Stray(ev, m, p, j)
  BY <1>4 DEF Underway, Held
<1>7. p.cpvt[c].called
  BY <1>1, <1>6 DEF Held
<1>8. \A d \in p.chans : d # c => /\ p.cpvt[d].idx # i /\ p.cpvt[d].idx \in CallIdx
                                  /\ Open(fv, m, 0, p.cpvt[d].idx)
  BY <1>2, <1>5 DEF Held, OutCalls
<1>9. OutCalls(q)
  <2>1. ASSUME NEW d \in q.chans
        PROVE  /\ q.cpvt[d].dir = "outgoing" /\ q.cpvt[d].state # "RELEASED"
               /\ q.cpvt[d].state # "INIT" => q.cpvt[d].called /\ q.cpvt[d].idx \in CallIdx
    BY <1>1, <1>2, <1>7 DEF Held, OutCalls
  <2>2. ASSUME NEW b \in q.chans, NEW d \in q.chans, q.cpvt[b].idx = q.cpvt[d].idx PROVE b = d
    BY <1>1, <1>2, <1>8, <2>2 DEF Held, OutCalls
  <2>. QED  BY <2>1, <2>2 DEF OutCalls
<1>10. \A d \in q.chans : Open(fv, m, 0, q.cpvt[d].idx)
  BY <1>1, <1>2, <1>5, <1>8
<1>11. ASSUME NEW j, Stray(fv, m, q, j) PROVE FALSE
  <2>1. j \in CallIdx /\ Open(fv, m, 0, j) /\ j # i
    BY <1>1, <1>2, <1>11 DEF Stray
  <2>2. \A d \in p.chans : p.cpvt[d].state # "INIT" => p.cpvt[d].idx # j
    <3>. SUFFICES ASSUME NEW d \in p.chans, p.cpvt[d].state # "INIT", p.cpvt[d].idx = j PROVE FALSE
      OBVIOUS
    <3>1. d # c
      BY <1>1 DEF InState
    <3>. QED  BY <1>1, <1>2, <1>11, <3>1 DEF Stray
  <2>3. Stray(ev, m, p, j)
    BY <1>5, <2>1, <2>2 DEF Stray
  <2>. QED  BY <1>6, <2>3
<1>12. InState(q, "INIT") = {} /\ Spared(q) = Spared(p)
  <2>1. \A d \in q.chans : q.cpvt[d].state # "INIT"
    BY <1>1, <1>2
  <2>2. Linked(q) = Linked(p)
    BY <1>1, <1>2 DEF Linked
  <2>. QED  BY <2>1, <2>2 DEF InState, Spared
<1>13. Dials(q.at_queue) = {} /\ QueueFor(q.at_queue, InState(q, "INIT"), Spared(q))
  <2>1. QueueFor(p.at_queue, {}, Spared(p))
    BY <1>3, NobodyDials DEF Held
  <2>2. Longer(p.at_queue, q.at_queue, {}, Spared(p))
    OBVIOUS
  <2>. QED  BY <1>3, <1>12, <2>1, <2>2 DEF Longer
<1>14. ~Underway(fv, m, md, q)
  BY <1>1, <1>3, <1>11, <1>13 DEF Underway
<1>15. ASSUME ~Group295, NEW d \in q.chans, q.cpvt[d].channel PROVE q.cpvt[d].need_hangup
  BY <1>1, <1>2, <1>6, <1>15 DEF Held
<1>. QED  BY <1>1, <1>9, <1>10, <1>11, <1>13, <1>14, <1>15 DEF Held, fv

\* ^ORIG is read, and the call dialed last was hung up: the new call has lost
\* its context.
LEMMA HeldLost ==
    ASSUME NEW ev \in Seq(Results), ev # <<>>, ev[1].res = "ORIG", ev[1].idx \in CallIdx,
           NEW m, NEW md, NEW p, Held(ev, m, md, p), Spoken(ev, m, md, p.at_queue),
           p.last_dialed = NoCpvt, NEW q, SameCalls(p, q),
           \A I, N : Longer(p.at_queue, q.at_queue, I, N)
    PROVE  Held(Tail(ev), m, md, q)
<1>. DEFINE i == ev[1].idx
            fv == Tail(ev)
<1>1. /\ q.chans = p.chans /\ q.cpvt = p.cpvt /\ q.last_dialed = NoCpvt
      /\ InState(q, "INIT") = InState(p, "INIT") /\ Spared(q) = Spared(p)
  BY DEF SameCalls, InState, Spared, Linked
<1>2. Dials(p.at_queue) = {} /\ ~Pending(fv, md)
  BY SpokenTail
<1>3. Pending(ev, md)
  <2>1. 1 \in 1 .. Len(ev)
    BY ReadAt
  <2>. QED  BY <2>1 DEF Pending
<1>4. /\ ~Open(ev, m, 0, i)
      /\ \A j \in CallIdx : j # i => (Open(fv, m, 0, j) <=> Open(ev, m, 0, j))
  <2>1. \A j : ~Ends(ev[1], j) /\ (Begins(ev[1], j) <=> j = i)
    BY DEF Begins, Ends
  <2>. QED  BY <2>1, ReadFirst
<1>. HIDE DEF fv
<1>5. Underway(ev, m, md, p) /\ \A j : ~Stray(ev, m, p, j)
  BY <1>3 DEF Underway, Held
<1>6. \A d \in p.chans : p.cpvt[d].state # "INIT" => Open(fv, m, 0, p.cpvt[d].idx)
  BY <1>4 DEF Held, OutCalls
<1>7. \A j : Stray(fv, m, q, j) => j = i
  BY <1>1, <1>4, <1>5 DEF Stray
<1>8. Dials(q.at_queue) = {} /\ QueueFor(q.at_queue, InState(q, "INIT"), Spared(q))
  <2>1. Longer(p.at_queue, q.at_queue, InState(p, "INIT"), Spared(p))
    OBVIOUS
  <2>. QED  BY <1>1, <1>2, <2>1 DEF Longer, Held
<1>. QED  BY <1>1, <1>2, <1>5, <1>6, <1>7, <1>8 DEF Held, OutCalls, fv

\* When no context is to be begun, nothing is under way.
LEMMA NothingUnderway ==
    ASSUME NEW ev, NEW m, NEW md, NEW p, Held(ev, m, md, p),
           \A c \in InState(p, "INIT") : ~p.cpvt[c].called
    PROVE  /\ \A j : ~Stray(ev, m, p, j)
           /\ ~Pending(ev, md) /\ p.last_dialed = NoCpvt /\ Dials(p.at_queue) = {}
<1>1. ~Underway(ev, m, md, p)
  BY DEF Held
<1>. QED  BY <1>1 DEF Underway

\* A context is made for a call.
LEMMA HeldMade ==
    ASSUME NEW ev, NEW m, NEW md, NEW p, CallsOK(p), Held(ev, m, md, p), InState(p, "INIT") = {},
           NEW c \in CpvtId \ p.chans, NEW new, new.dir = "outgoing", new.state = "INIT",
           new.channel, \A d \in p.chans : p.cpvt[d].idx # new.idx
    PROVE  Held(ev, m, md, cpvt_alloc(p, c, new))
<1>. DEFINE q == cpvt_alloc(p, c, new)
<1>1. p \in Pvts /\ p.chans \subseteq CpvtId
  BY DEF CallsOK, Pvts
<1>2. /\ q.chans = p.chans \union {c} /\ q.cpvt[c] = new
      /\ \A d \in p.chans : q.cpvt[d] = p.cpvt[d] /\ d # c
      /\ q.at_queue = p.at_queue /\ q.last_dialed = p.last_dialed
  BY <1>1, AllocEffect
<1>. HIDE DEF q
<1>3. /\ \A j : ~Stray(ev, m, p, j)
      /\ ~Pending(ev, md) /\ p.last_dialed = NoCpvt /\ Dials(p.at_queue) = {}
  BY NothingUnderway
<1>4. \A j : ~Stray(ev, m, q, j)
  BY <1>2, <1>3 DEF Stray
<1>5. ~Underway(ev, m, md, q)
  BY <1>2, <1>3, <1>4 DEF Underway
<1>6. OutCalls(q)
  BY <1>2 DEF Held, OutCalls
<1>7. QueueFor(q.at_queue, InState(q, "INIT"), Spared(q))
  <2>1. \A k \in 1 .. Len(p.at_queue) : p.at_queue[k].cpvt # c
    <3>1. \A k \in 1 .. Len(p.at_queue) : p.at_queue[k] \in TasksFor(p.chans)
      BY DEF CallsOK
    <3>. QED  BY <3>1, SysChanAssumption DEF TasksFor
  <2>2. Spared(q) \subseteq Spared(p) \union {c}
    BY <1>2 DEF Spared, Linked
  <2>3. QueueFor(p.at_queue, InState(p, "INIT"), Spared(p))
    BY DEF Held
  <2>. QED  BY <1>2, <1>3, <2>1, <2>2, <2>3, QueueForOthers
<1>8. ASSUME ~Group295, NEW d \in q.chans, q.cpvt[d].channel, q.cpvt[d].state # "INIT"
      PROVE  q.cpvt[d].need_hangup
  BY <1>2, <1>8 DEF Held
<1>9. \A d \in q.chans : q.cpvt[d].state # "INIT" => Open(ev, m, 0, q.cpvt[d].idx)
  BY <1>2 DEF Held
<1>10. Held(ev, m, md, q)
  BY <1>2, <1>3, <1>4, <1>5, <1>6, <1>7, <1>8, <1>9 DEF Held
<1>. QED  BY <1>10 DEF q

\* The call of a context that was not called is dialed.
LEMMA HeldDials ==
    ASSUME NEW ev, NEW m, NEW md, NEW p, p \in Pvts, Held(ev, m, md, p),
           \A a, b \in InState(p, "INIT") : a = b,
           NEW c \in InState(p, "INIT"), ~p.cpvt[c].called, NEW f, NEW q, NEW ok, ok = TRUE,
           Noted(p, f, c), RestSame(p, f), f.cpvt[c].called, f.cpvt[c].idx = p.cpvt[c].idx,
           DialsFor(f, q, c, ok)
    PROVE  Held(ev, m, md, q) /\ ~Pending(ev, md)
<1>1. /\ q.chans = p.chans /\ q.last_dialed = p.last_dialed /\ p.chans \subseteq CpvtId
      /\ c \in p.chans /\ f.at_queue = p.at_queue
  BY DEF Noted, RestSame, DialsFor, Pvts, InState
<1>2. ASSUME NEW d \in p.chans
      PROVE  /\ q.cpvt[d].idx = p.cpvt[d].idx /\ q.cpvt[d].dir = p.cpvt[d].dir
             /\ q.cpvt[d].state = p.cpvt[d].state /\ q.cpvt[d].channel = p.cpvt[d].channel
             /\ d # c => /\ q.cpvt[d].called = p.cpvt[d].called
                         /\ q.cpvt[d].need_hangup = p.cpvt[d].need_hangup
             /\ d = c => q.cpvt[d].called
  <2>1. d \in CpvtId /\ c \in CpvtId
    BY <1>1, <1>2
  <2>2. /\ f.cpvt[d].dir = p.cpvt[d].dir /\ f.cpvt[d].state = p.cpvt[d].state
        /\ f.cpvt[d].channel = p.cpvt[d].channel
        /\ d # c => Alike(f.cpvt[d], p.cpvt[d])
    BY <2>1 DEF Noted
  <2>3. /\ q.cpvt[d].dir = f.cpvt[d].dir /\ q.cpvt[d].state = f.cpvt[d].state
        /\ q.cpvt[d].channel = f.cpvt[d].channel
        /\ d # c => Alike(q.cpvt[d], f.cpvt[d])
        /\ q.cpvt[c].idx = f.cpvt[c].idx /\ q.cpvt[c].called = f.cpvt[c].called
    BY <2>1 DEF DialsFor, Noted
  <2>4. f.cpvt[c].called /\ f.cpvt[c].idx = p.cpvt[c].idx
    OBVIOUS
  <2>. QED  BY ONLY <2>2, <2>3, <2>4 DEF Alike
<1>3. /\ \A j : ~Stray(ev, m, p, j)
      /\ ~Pending(ev, md) /\ p.last_dialed = NoCpvt /\ Dials(p.at_queue) = {}
  BY NothingUnderway
<1>4. \A j : ~Stray(ev, m, q, j)
  BY <1>1, <1>2, <1>3 DEF Stray
<1>5. InState(q, "INIT") = InState(p, "INIT") /\ Spared(q) = Spared(p)
  <2>1. q.chans = p.chans /\ \A d \in p.chans : /\ q.cpvt[d].state = p.cpvt[d].state
                                                /\ q.cpvt[d].channel = p.cpvt[d].channel
    BY <1>1, <1>2
  <2>. QED  BY ONLY <2>1 DEF InState, Spared, Linked
<1>6. OutCalls(q)
  <2>1. ASSUME NEW d \in q.chans
        PROVE  /\ q.cpvt[d].dir = "outgoing" /\ q.cpvt[d].state # "RELEASED"
               /\ q.cpvt[d].state # "INIT" => q.cpvt[d].called /\ q.cpvt[d].idx \in CallIdx
    BY <1>1, <1>2 DEF Held, OutCalls
  <2>2. \A b, d \in q.chans : q.cpvt[b].idx = q.cpvt[d].idx => b = d
    BY <1>1, <1>2 DEF Held, OutCalls
  <2>. QED  BY <2>1, <2>2 DEF OutCalls
<1>7. QueueFor(q.at_queue, InState(q, "INIT"), Spared(q))
  <2>1. QueueFor(p.at_queue, InState(p, "INIT"), Spared(p))
    BY DEF Held
  <2>. QED  BY <1>1, <1>3, <1>5, <2>1 DEF DialsFor
<1>8. Underway(ev, m, md, q) => q.at_queue # f.at_queue
  BY <1>1, <1>3, <1>4 DEF Underway
<1>9. ASSUME ~Group295, NEW d \in q.chans, q.cpvt[d].channel,
             q.cpvt[d].state # "INIT" \/ Underway(ev, m, md, q)
      PROVE  q.cpvt[d].need_hangup
  <2>1. CASE d = c
    BY <1>2, <1>8, <1>9, <2>1 DEF DialsFor, InState
  <2>2. CASE d # c
    <3>1. d \notin InState(p, "INIT")
      BY <2>2
    <3>. QED  BY <1>1, <1>2, <1>9, <2>2, <3>1 DEF Held, InState
  <2>. QED  BY <2>1, <2>2
<1>10. \A d \in q.chans : q.cpvt[d].state # "INIT" => Open(ev, m, 0, q.cpvt[d].idx)
  BY <1>1, <1>2 DEF Held
<1>11. q.cpvt[c].called /\ c \in InState(q, "INIT")
  BY <1>1, <1>2, <1>5
<1>. QED  BY <1>1, <1>3, <1>4, <1>6, <1>7, <1>9, <1>10, <1>11 DEF Held

\* Nothing takes the device from its calls but the device, and its modem has the
\* calls it dialed.
Calm == "incoming" \notin Features /\ Faults \subseteq {"memory", "preempted", "query"}

HeldNow ==
    Held(events, mcall, mdial, pvt) /\ Spoken(events, mcall, mdial, pvt.at_queue)

\* A device that is lost was reset by its modem; one that is gone may have a
\* context, of a thread that selected it before.
Resting ==
    /\ conn # "up" => events = <<>> /\ ~mdial /\ \A i \in CallIdx : ~There(mcall, i)
    /\ conn = "off" => /\ pvt.at_queue = <<>> /\ pvt.last_dialed = NoCpvt
                       /\ \A c \in pvt.chans : /\ pvt.cpvt[c].state = "INIT"
                                               /\ ~pvt.cpvt[c].called /\ ~pvt.cpvt[c].need_hangup

Placed == OutCalls(pvt) /\ (conn = "up" => HeldNow) /\ Resting

\* No context has the number a thread has read for the call it is about to set up.
NumberFree ==
    \A d \in Dialer : number[d] # NoNumber =>
        request[d] # NoRequest /\ (number[d] # 0 => WithIdx(pvt, number[d]) = {})

OneInit(p) == \A a, b \in InState(p, "INIT") : a = b

LEMMA SparedCalls ==
    ASSUME NEW p, p \in Pvts
    PROVE  sys_chan \notin Spared(p) /\ Spared(p) \subseteq CpvtId
BY LinkedCalls DEF Spared

\* A handler left the device as p, and nothing failed.
LEMMA HandledPlaced ==
    ASSUME conn = "up", NEW p, CallsOK(p), Held(Tail(events), mcall, mdial, p),
           Spoken(Tail(events), mcall, mdial, p.at_queue), NEW ok, ok = TRUE,
           NEW fatal, fatal = FALSE, Handled(p, ok, fatal)
    PROVE  Placed'
<1>1. ok \in BOOLEAN /\ fatal \in BOOLEAN /\ ok /\ ~fatal
  OBVIOUS
<1>2. /\ SameCalls(p, pvt') /\ mcall' = mcall /\ mdial' = mdial
      /\ \A I, N : Longer(p.at_queue, pvt'.at_queue, I, N)
      /\ conn' = "up" /\ events' = Tail(events)
  <2>1. /\ SameCalls(p, pvt') /\ UNCHANGED <<threads, modem>> /\ conn' = "up"
        /\ \A I, N : Longer(p.at_queue, pvt'.at_queue, I, N)
        /\ \/ conn' = "up" /\ events' = Tail(events)
           \/ conn' = "lost" /\ events' = <<>>
    BY <1>1, HandledEffect
  <2>. QED  BY <2>1 DEF modem
<1>3. Follows(p, pvt')
  BY <1>2, FollowsKept
<1>4. \A c \in p.chans : p.cpvt[c].state # "INIT" => Open(Tail(events), mcall, 0, p.cpvt[c].idx)
  BY DEF Held
<1>5. Held(Tail(events), mcall, mdial, pvt')
  BY <1>3, <1>4, HeldOn
<1>6. Longer(p.at_queue, pvt'.at_queue, {}, {})
  BY <1>2
<1>7. Spoken(Tail(events), mcall, mdial, pvt'.at_queue)
  BY <1>6, SpokenLonger
<1>8. OutCalls(pvt')
  BY <1>5 DEF Held
<1>. QED  BY <1>2, <1>5, <1>7, <1>8 DEF Placed, HeldNow, Resting

\* The result was no answer to the head command.
LEMMA ReadPlaced ==
    ASSUME conn = "up", events \in Seq(Results), events # <<>>, ~Final(events[1]),
           Spoken(events, mcall, mdial, pvt.at_queue), NEW p, CallsOK(p),
           Held(Tail(events), mcall, mdial, p), Longer(pvt.at_queue, p.at_queue, {}, {}),
           NEW ok, ok = TRUE, NEW fatal, fatal = FALSE, Handled(p, ok, fatal)
    PROVE  Placed'
<1>1. Spoken(Tail(events), mcall, mdial, pvt.at_queue)
  BY SpokenTail
<1>2. Spoken(Tail(events), mcall, mdial, p.at_queue)
  BY <1>1, SpokenLonger
<1>. QED  BY <1>2, HandledPlaced

\* What every handler starts from.
LEMMA PlacedReads ==
    ASSUME Calm, IInv, Placed, NEW res, Reads(res)
    PROVE  /\ Good(CpvtId, pvt) /\ CallsOK(pvt) /\ pvt \in Pvts /\ events \in Seq(Results)
           /\ events # <<>> /\ conn = "up" /\ Head(events) = events[1] /\ events[1] \in Results
           /\ events[1].res = res
           /\ Held(events, mcall, mdial, pvt) /\ Spoken(events, mcall, mdial, pvt.at_queue)
           /\ \A ok \in WriteOutcomes : ok = TRUE
           /\ sys_chan \notin Spared(pvt) /\ Spared(pvt) \subseteq CpvtId
<1>1. Good(CpvtId, pvt) /\ CallsOK(pvt) /\ pvt \in Pvts /\ events \in Seq(Results)
  BY IInvParts DEF Good, CallsOK, ModemOK
<1>2. events # <<>> /\ conn = "up" /\ Head(events).res = res
  BY DEF Reads
<1>3. Head(events) = events[1] /\ events[1] \in Results
  BY <1>1, <1>2, ReadAt
<1>4. \A ok \in WriteOutcomes : ok = TRUE
  BY <1>2 DEF WriteOutcomes, Calm
<1>5. Held(events, mcall, mdial, pvt) /\ Spoken(events, mcall, mdial, pvt.at_queue)
  BY <1>2 DEF Placed, HeldNow
<1>. QED  BY <1>1, <1>2, <1>3, <1>4, <1>5, SparedCalls

\* The OK of the head command.
LEMMA PlacedOk == ASSUME Calm, IInv, Placed, at_response_ok PROVE Placed'
<1>. DEFINE c == pvt.at_queue[1].cpvt
            code == HeadCode(pvt.at_queue)
            a == Acknowledged(pvt, at_queue_head_task(pvt).cpvt)
            b == at_queue_remove_cmd(a, "OK")
            I == InState(pvt, "INIT")
            N == Spared(pvt)
<1>1. Reads("OK")
  BY DEF at_response_ok
<1>2. /\ CallsOK(pvt) /\ pvt \in Pvts /\ events \in Seq(Results) /\ events # <<>> /\ conn = "up"
      /\ events[1].res = "OK" /\ Held(events, mcall, mdial, pvt)
      /\ Spoken(events, mcall, mdial, pvt.at_queue)
      /\ \A ok \in WriteOutcomes : ok = TRUE
  BY <1>1, PlacedReads
<1>3. Final(events[1]) /\ 1 \in 1 .. Len(events)
  BY <1>2, ReadAt DEF Final
<1>4. ~QueueEmpty(pvt)
  BY <1>2, <1>3 DEF Spoken, QueueEmpty
<1>5. PICK ok \in WriteOutcomes : Handled(b, ok, FALSE)
  BY <1>4 DEF at_response_ok
<1>6. QueueFor(pvt.at_queue, I, N)
  BY <1>2 DEF Held
<1>7. /\ at_queue_head_task(pvt) = pvt.at_queue[1] /\ c \in pvt.chans \union {sys_chan}
      /\ code = "D" => 1 \in Dials(pvt.at_queue) /\ c \in I
      /\ code = "CHUP" => c \notin N
  BY <1>2, <1>4, <1>6, HeadFacts
<1>8. CallsOK(a) /\ Acks(pvt, a, c, code)
  BY <1>2, <1>4, <1>7, AcknowledgedEffect
<1>. HIDE DEF a
<1>9. Follows(pvt, a)
  <2>1. pvt.chans \subseteq CpvtId /\ a.chans = pvt.chans /\ a.at_queue = pvt.at_queue
    BY <1>2, <1>8 DEF Pvts, Acks
  <2>2. ASSUME NEW d \in pvt.chans
        PROVE  /\ a.cpvt[d].idx = pvt.cpvt[d].idx /\ a.cpvt[d].dir = pvt.cpvt[d].dir
               /\ a.cpvt[d].called = pvt.cpvt[d].called /\ a.cpvt[d].state = pvt.cpvt[d].state
               /\ a.cpvt[d].channel = pvt.cpvt[d].channel
    BY <1>8, <2>1 DEF Acks
  <2>3. ASSUME NEW d \in pvt.chans, ~Group295, a.cpvt[d].channel, pvt.cpvt[d].need_hangup
        PROVE  a.cpvt[d].need_hangup
    <3>1. d \in N
      BY <2>2, <2>3 DEF Spared, Linked
    <3>2. d # c \/ code # "CHUP"
      BY <1>7, <3>1
    <3>. QED  BY <1>8, <2>1, <2>3, <3>2 DEF Acks
  <2>4. InState(a, "INIT") = I /\ Linked(a) = Linked(pvt)
    BY <2>1, <2>2 DEF InState, Linked
  <2>5. \/ a.last_dialed = pvt.last_dialed
        \/ Dials(pvt.at_queue) # {} /\ a.last_dialed \in I
    BY <1>7, <1>8 DEF Acks
  <2>. HIDE DEF I, N
  <2>6. QueueFor(a.at_queue, InState(a, "INIT"), Spared(a))
    BY <1>6, <2>1, <2>4 DEF Spared, N
  <2>. QED  BY <2>1, <2>2, <2>3, <2>5, <2>6 DEF Follows, I
<1>10. /\ SameCalls(a, b)
       /\ \A J, M : QueueFor(a.at_queue, J, M) => QueueFor(b.at_queue, J, M)
       /\ Dials(a.at_queue) = {} => Dials(b.at_queue) = {}
       /\ /\ QueueFor(a.at_queue, I, N) /\ Dials(a.at_queue) \subseteq {1} /\ a.at_queue # <<>>
          /\ HeadCode(a.at_queue) = "D"
          => Dials(b.at_queue) = {}
  BY <1>8, RemoveCmdQueue
<1>11. a.at_queue = pvt.at_queue
  BY <1>8 DEF Acks
<1>12. CallsOK(b)
  BY <1>8, MeekRemoved
<1>. HIDE DEF b
<1>13. Follows(pvt, b)
  <2>1. Follows(a, b)
    BY <1>10, FollowsSame
  <2>. QED  BY <1>9, <2>1, FollowsTransitive
<1>14. Held(Tail(events), mcall, mdial, b)
  BY <1>2, <1>13, TailHeld
<1>15. Pending(events, mdial) => Dials(b.at_queue) = {}
  <2>. SUFFICES ASSUME Pending(events, mdial), Dials(pvt.at_queue) # {} PROVE Dials(b.at_queue) = {}
    BY <1>10, <1>11
  <2>1. code = "D" /\ Dials(pvt.at_queue) \subseteq {1}
    BY <1>2 DEF Spoken
  <2>2. pvt.at_queue # <<>>
    BY <1>4 DEF QueueEmpty
  <2>. QED  BY <1>6, <1>10, <1>11, <2>1, <2>2
<1>16. Spoken(Tail(events), mcall, mdial, b.at_queue)
  BY <1>2, <1>3, <1>15, SpokenTail
<1>17. ok = TRUE
  BY <1>2
<1>. DEFINE fatal == FALSE
<1>18. Handled(b, ok, fatal) /\ fatal = FALSE
  BY <1>5
<1>. HIDE DEF fatal
<1>. QED  BY <1>2, <1>12, <1>14, <1>16, <1>17, <1>18, HandledPlaced

\* The ERROR of the head command.
LEMMA PlacedError == ASSUME Calm, IInv, Placed, at_response_error PROVE Placed'
<1>. DEFINE c == at_queue_head_task(pvt).cpvt
            f(ok) == IF DialFailed(pvt) THEN Insert(pvt, c, at_enque_cmd_proc, ok) ELSE pvt
            fatal == at_queue_head_cmd(pvt).cmd \in CriticalCmds
            I == InState(pvt, "INIT")
            N == Spared(pvt)
<1>1. Reads("ERROR")
  BY DEF at_response_error
<1>2. /\ CallsOK(pvt) /\ pvt \in Pvts /\ events \in Seq(Results) /\ events # <<>> /\ conn = "up"
      /\ events[1].res = "ERROR" /\ Held(events, mcall, mdial, pvt)
      /\ Spoken(events, mcall, mdial, pvt.at_queue)
      /\ \A ok \in WriteOutcomes : ok = TRUE
  BY <1>1, PlacedReads
<1>3. Final(events[1]) /\ 1 \in 1 .. Len(events)
  BY <1>2, ReadAt DEF Final
<1>4. ~QueueEmpty(pvt)
  BY <1>2, <1>3 DEF Spoken, QueueEmpty
<1>5. PICK ok \in WriteOutcomes : Handled(at_queue_remove_cmd(f(ok), "ERROR"), ok, fatal)
  BY <1>4 DEF at_response_error
<1>6. QueueFor(pvt.at_queue, I, N)
  BY <1>2 DEF Held
<1>7. /\ at_queue_head_task(pvt) = pvt.at_queue[1] /\ c \in pvt.chans \union {sys_chan}
      /\ at_queue_head_cmd(pvt).cmd = HeadCode(pvt.at_queue)
  BY <1>2, <1>4, <1>6, HeadFacts
<1>8. fatal = FALSE
  BY <1>2, <1>3, <1>7 DEF Spoken
<1>9. ok = TRUE /\ ok \in BOOLEAN
  BY <1>2
<1>10. FineJob(at_enque_cmd_proc) /\ {"D", "CHUP"} \intersect Codes(at_enque_cmd_proc) = {}
  BY JobsFine
<1>. HIDE DEF c, fatal
<1>11. CallsOK(f(ok)) /\ SameCalls(pvt, f(ok)) /\ Longer(pvt.at_queue, f(ok).at_queue, I, N)
  <2>. DEFINE r == Insert(pvt, c, at_enque_cmd_proc, ok)
  <2>1. "D" \notin Codes(at_enque_cmd_proc) /\ "CHUP" \notin Codes(at_enque_cmd_proc)
    BY <1>10
  <2>2. SameCalls(pvt, r) /\ CallsOK(r) /\ (ok => Longer(pvt.at_queue, r.at_queue, I, N))
    BY <1>2, <1>7, <1>9, <1>10, <2>1, InsertQueue
  <2>3. SameCalls(pvt, pvt) /\ Longer(pvt.at_queue, pvt.at_queue, I, N)
    BY <1>2, SameCallsTransitive, LongerTransitive
  <2>. HIDE DEF r, I, N
  <2>. QED  BY <1>2, <1>9, <2>2, <2>3 DEF r
<1>. DEFINE a == f(ok)
            b == at_queue_remove_cmd(a, "ERROR")
<1>. HIDE DEF f
<1>12. CallsOK(a) /\ SameCalls(pvt, a) /\ Longer(pvt.at_queue, a.at_queue, I, N)
  BY <1>11
<1>13. Handled(b, ok, fatal)
  BY <1>5
<1>. HIDE DEF a
<1>14. /\ SameCalls(a, b)
       /\ \A J, M : QueueFor(a.at_queue, J, M) => QueueFor(b.at_queue, J, M)
       /\ Dials(a.at_queue) = {} => Dials(b.at_queue) = {}
  BY <1>12, RemoveCmdQueue
<1>15. CallsOK(b)
  BY <1>12, MeekRemoved
<1>. HIDE DEF b
<1>16. Follows(pvt, b)
  <2>1. Follows(pvt, a)
    BY <1>12, FollowsKept
  <2>2. Follows(a, b)
    BY <1>14, FollowsSame
  <2>. QED  BY <2>1, <2>2, FollowsTransitive
<1>17. Held(Tail(events), mcall, mdial, b)
  BY <1>2, <1>16, TailHeld
<1>18. Pending(events, mdial) => Dials(b.at_queue) = {}
  <2>. SUFFICES ASSUME Pending(events, mdial), Dials(pvt.at_queue) # {} PROVE FALSE
    BY <1>12, <1>14 DEF Longer
  <2>1. PICK k \in 1 .. Len(events) : events[k].res = "OK"
    BY <1>2 DEF Spoken
  <2>2. k = 1
    BY <1>2, <1>3, <2>1 DEF Spoken, Final
  <2>. QED  BY <1>2, <2>1, <2>2
<1>19. Spoken(Tail(events), mcall, mdial, b.at_queue)
  BY <1>2, <1>3, <1>18, SpokenTail
<1>. QED  BY <1>2, <1>8, <1>9, <1>13, <1>15, <1>17, <1>19, HandledPlaced

\* ^ORIG.
LEMMA PlacedOrig == ASSUME Calm, IInv, Placed, OneInit(pvt), at_response_orig PROVE Placed'
<1>. DEFINE i == events[1].idx
            c == pvt.last_dialed
<1>1. Reads("ORIG")
  BY DEF at_response_orig
<1>2. /\ Good(CpvtId, pvt) /\ pvt \in Pvts /\ events \in Seq(Results) /\ events # <<>> /\ conn = "up"
      /\ Head(events) = events[1] /\ events[1].res = "ORIG" /\ events[1] \in Results
      /\ Held(events, mcall, mdial, pvt) /\ Spoken(events, mcall, mdial, pvt.at_queue)
      /\ \A ok \in WriteOutcomes : ok = TRUE
  BY <1>1, PlacedReads
<1>3. PICK ok \in WriteOutcomes : Handled(Originated(pvt, i, ok), ok, FALSE)
  BY <1>2 DEF at_response_orig
<1>4. ok = TRUE /\ ok \in BOOLEAN /\ i \in CallIdx /\ i \in 0 .. MaxCallIdx /\ ~Final(events[1])
  BY <1>2 DEF Results, Final
<1>. DEFINE q == Originated(pvt, i, ok)
            fatal == FALSE
<1>5. Handled(q, ok, fatal) /\ fatal = FALSE
  BY <1>3
<1>6. /\ c = NoCpvt => SameCalls(pvt, q)
      /\ c # NoCpvt => c \in pvt.chans /\ Numbered(pvt, q, c, i)
      /\ \A I, N : Kept(pvt.at_queue, q.at_queue, ok, I, N)
  BY <1>2, <1>4, OriginatedEffect
<1>7. CallsOK(q)
  BY <1>2, <1>4, OriginatedGood DEF Good
<1>. HIDE DEF q, fatal, c, i
<1>8. \A I, N : Longer(pvt.at_queue, q.at_queue, I, N)
  BY <1>4, <1>6 DEF Kept
<1>9. Held(Tail(events), mcall, mdial, q)
  <2>1. CASE c = NoCpvt
    BY <1>2, <1>4, <1>6, <1>8, <2>1, HeldLost DEF c, i
  <2>2. CASE c # NoCpvt
    BY <1>2, <1>4, <1>6, <1>8, <2>2, HeldNumbered DEF OneInit, c, i
  <2>. QED  BY <2>1, <2>2
<1>10. Longer(pvt.at_queue, q.at_queue, {}, {})
  BY <1>8
<1>. QED  BY <1>2, <1>4, <1>5, <1>7, <1>9, <1>10, ReadPlaced

\* ^CEND.
LEMMA PlacedCend == ASSUME Calm, IInv, Placed, OneInit(pvt), at_response_cend PROVE Placed'
<1>. DEFINE i == events[1].idx
<1>1. Reads("CEND")
  BY DEF at_response_cend
<1>2. /\ Good(CpvtId, pvt) /\ pvt \in Pvts /\ events \in Seq(Results) /\ events # <<>> /\ conn = "up"
      /\ Head(events) = events[1] /\ events[1].res = "CEND" /\ events[1] \in Results
      /\ Held(events, mcall, mdial, pvt) /\ Spoken(events, mcall, mdial, pvt.at_queue)
      /\ \A ok \in WriteOutcomes : ok = TRUE
      /\ sys_chan \notin Spared(pvt)
  BY <1>1, PlacedReads
<1>3. PICK ok \in WriteOutcomes, c \in pvt_find_cpvt(pvt, i) : Handled(Ended(pvt, c, ok), ok, FALSE)
  BY <1>2 DEF at_response_cend
<1>4. ok = TRUE /\ ok \in BOOLEAN /\ i \in CallIdx /\ ~Final(events[1]) /\ Over(events, mcall)
  BY <1>2 DEF Results, Final, Spoken
<1>5. c \in pvt.chans \union {NoCpvt} /\ NoCpvt \notin pvt.chans
  BY <1>2, Found, NoCpvtAssumption DEF Pvts
<1>6. c # NoCpvt => pvt.cpvt[c].state # "RELEASED"
  BY <1>2, <1>5 DEF Held, OutCalls
<1>. DEFINE q == Ended(pvt, c, ok)
            fatal == FALSE
<1>7. Handled(q, ok, fatal) /\ fatal = FALSE
  BY <1>3
<1>8. /\ c = NoCpvt => SameCalls(pvt, q)
      /\ c # NoCpvt => Released(pvt, q, c)
      /\ \A I, N : sys_chan \notin N /\ c \notin I => Kept(pvt.at_queue, q.at_queue, ok, I, N)
  BY <1>2, <1>4, <1>5, <1>6, EndedEffect
<1>9. CallsOK(q)
  BY <1>2, <1>4, <1>5, EndedGood DEF Good
<1>. HIDE DEF q, fatal
<1>10. \A I, N : sys_chan \notin N /\ c \notin I => Longer(pvt.at_queue, q.at_queue, I, N)
  BY <1>4, <1>8 DEF Kept
<1>11. CASE c = NoCpvt
  <2>1. WithIdx(pvt, i) = {}
    BY <1>3, <1>5, <1>11 DEF pvt_find_cpvt, WithIdx
  <2>2. Longer(pvt.at_queue, q.at_queue, InState(pvt, "INIT"), Spared(pvt))
    BY <1>2, <1>5, <1>10, <1>11 DEF InState
  <2>3. Follows(pvt, q)
    BY <1>8, <1>11, <2>2, FollowsKept
  <2>4. Ends(events[1], i) /\ \A j : ~Begins(events[1], j) /\ (j # i => ~Ends(events[1], j))
    BY <1>2 DEF Ends, Begins
  <2>5. ~Open(Tail(events), mcall, 0, i)
    BY <1>2, <1>4, <2>4, ReadFirst
  <2>6. \A j \in CallIdx : j # i => (Open(Tail(events), mcall, 0, j) <=> Open(events, mcall, 0, j))
    BY <1>2, <2>4, ReadFirst
  <2>7. ASSUME NEW d \in pvt.chans, pvt.cpvt[d].state # "INIT"
        PROVE  Open(Tail(events), mcall, 0, pvt.cpvt[d].idx)
    <3>1. pvt.cpvt[d].idx # i
      BY <2>1 DEF WithIdx
    <3>2. pvt.cpvt[d].idx \in CallIdx /\ Open(events, mcall, 0, pvt.cpvt[d].idx)
      BY <1>2, <2>7 DEF Held, OutCalls
    <3>. QED  BY <2>6, <3>1, <3>2
  <2>8. Pending(Tail(events), mdial) => Pending(events, mdial)
    BY <1>2, SpokenTail
  <2>9. \A j \in CallIdx : Open(Tail(events), mcall, 0, j) => Open(events, mcall, 0, j)
    BY <2>5, <2>6
  <2>10. Held(Tail(events), mcall, mdial, q)
    BY <1>2, <2>3, <2>7, <2>8, <2>9, HeldOn
  <2>11. Longer(pvt.at_queue, q.at_queue, {}, {})
    BY <1>10
  <2>. QED  BY <1>2, <1>4, <1>7, <1>9, <2>10, <2>11, ReadPlaced
<1>12. CASE c # NoCpvt
  <2>1. c \in WithIdx(pvt, events[1].idx)
    BY <1>3, <1>12 DEF pvt_find_cpvt
  <2>2. Held(Tail(events), mcall, mdial, q)
    <3>. HIDE DEF i
    <3>. QED  BY <1>2, <1>4, <1>8, <1>10, <1>12, <2>1, HeldEnded DEF OneInit, i
  <2>3. Longer(pvt.at_queue, q.at_queue, {}, {})
    BY <1>10
  <2>. QED  BY <1>2, <1>4, <1>7, <1>9, <2>2, <2>3, ReadPlaced
<1>. QED  BY <1>11, <1>12

\* A result that tells of a call is about one that is open, before and after.
LEMMA ToldOpen ==
    ASSUME events \in Seq(Results), events # <<>>, Told(events, mcall), NEW i \in CallIdx,
           Tells(events[1], i)
    PROVE  Open(events, mcall, 0, i) /\ Open(Tail(events), mcall, 0, i)
<1>1. ~Begins(events[1], i) /\ ~Ends(events[1], i)
  BY DEF Tells, Begins, Ends
<1>2. Open(Tail(events), mcall, 0, i)
  BY ReadFirst
<1>. QED  BY <1>1, <1>2, ReadFirst

\* ^CONN.
LEMMA PlacedConn == ASSUME Calm, IInv, Placed, OneInit(pvt), at_response_conn PROVE Placed'
<1>. DEFINE i == events[1].idx
<1>1. Reads("CONN")
  BY DEF at_response_conn
<1>2. /\ Good(CpvtId, pvt) /\ pvt \in Pvts /\ events \in Seq(Results) /\ events # <<>> /\ conn = "up"
      /\ Head(events) = events[1] /\ events[1].res = "CONN" /\ events[1] \in Results
      /\ Held(events, mcall, mdial, pvt) /\ Spoken(events, mcall, mdial, pvt.at_queue)
      /\ \A ok \in WriteOutcomes : ok = TRUE
      /\ sys_chan \notin Spared(pvt)
  BY <1>1, PlacedReads
<1>3. PICK ok \in WriteOutcomes, c \in pvt_find_cpvt(pvt, i) : Handled(Connected(pvt, c, ok), ok, FALSE)
  BY <1>2 DEF at_response_conn
<1>4. /\ ok = TRUE /\ ok \in BOOLEAN /\ i \in CallIdx /\ ~Final(events[1]) /\ Told(events, mcall)
      /\ events[1].res \notin {"ORIG", "CEND"} /\ Tells(events[1], i)
  BY <1>2 DEF Results, Final, Spoken, Tells
<1>5. c \in pvt.chans \union {NoCpvt} /\ NoCpvt \notin pvt.chans
  BY <1>2, Found, NoCpvtAssumption DEF Pvts
<1>. DEFINE q == Connected(pvt, c, ok)
            fatal == FALSE
<1>6. Handled(q, ok, fatal) /\ fatal = FALSE
  BY <1>3
<1>7. /\ c = NoCpvt => /\ SameCalls(pvt, q)
                       /\ \A I, N : sys_chan \notin N => Kept(pvt.at_queue, q.at_queue, ok, I, N)
      /\ c # NoCpvt => /\ Changed(pvt, q, c, "ACTIVE")
                       /\ \A I, N : (Group295 /\ pvt.cpvt[c].dir = "outgoing" => c \notin N)
                                       => Kept(pvt.at_queue, q.at_queue, ok, I, N)
  BY <1>2, <1>4, <1>5, ConnectedEffect
<1>8. CallsOK(q)
  BY <1>2, <1>4, <1>5, ConnectedGood DEF Good
<1>. HIDE DEF q, fatal
<1>9. \A I : Longer(pvt.at_queue, q.at_queue, I, Spared(pvt))
  <2>1. Group295 => Spared(pvt) = {}
    BY DEF Spared
  <2>2. \A I : Kept(pvt.at_queue, q.at_queue, ok, I, Spared(pvt))
    BY <1>2, <1>7, <2>1
  <2>. QED  BY <1>4, <2>2 DEF Kept
<1>10. Longer(pvt.at_queue, q.at_queue, {}, {})
  <2>1. Kept(pvt.at_queue, q.at_queue, ok, {}, {})
    BY <1>7
  <2>. QED  BY <1>4, <2>1 DEF Kept
<1>11. Held(Tail(events), mcall, mdial, q)
  <2>1. CASE c = NoCpvt
    <3>1. Follows(pvt, q)
      BY <1>7, <1>9, <2>1, FollowsKept
    <3>. QED  BY <1>2, <1>4, <3>1, TailHeld
  <2>2. CASE c # NoCpvt
    <3>1. c \in pvt.chans /\ pvt.cpvt[c].idx = i
      BY <1>3, <1>5, <2>2 DEF pvt_find_cpvt, WithIdx
    <3>2. Open(events, mcall, 0, i)
      BY <1>2, <1>4, ToldOpen
    <3>3. pvt.cpvt[c].idx \in CallIdx /\ Open(events, mcall, 0, pvt.cpvt[c].idx)
      BY <1>4, <3>1, <3>2
    <3>4. "ACTIVE" \notin {"INIT", "RELEASED"}
      OBVIOUS
    <3>. HIDE DEF i
    <3>5. Held(events, mcall, mdial, q)
      BY <1>2, <1>7, <1>9, <2>2, <3>1, <3>3, <3>4, HeldStated DEF OneInit
    <3>6. Follows(q, q)
      BY FollowsTransitive
    <3>. QED  BY <1>2, <1>4, <3>5, <3>6, TailHeld
  <2>. QED  BY <2>1, <2>2
<1>. QED  BY <1>2, <1>4, <1>6, <1>8, <1>10, <1>11, ReadPlaced

\* RING and ^CCWA.
LEMMA RingsReflag ==
    ASSUME pvt \in Pvts, at_response_ring \/ at_response_ccwa
    PROVE  \E ok \in WriteOutcomes, dialing \in BOOLEAN, ring \in BOOLEAN, cwaiting \in BOOLEAN :
              Handled(request_clcc(Reflagged(pvt, dialing, ring, cwaiting, pvt.last_dialed), ok), ok, FALSE)
<1>1. pvt.ring \in BOOLEAN /\ pvt.dialing \in BOOLEAN /\ TRUE \in BOOLEAN /\ FALSE \in BOOLEAN
  BY DEF Pvts
<1>2. CASE at_response_ring
  <2>1. Reflagged(pvt, FALSE, TRUE, FALSE, pvt.last_dialed)
          = [pvt EXCEPT !.ring = TRUE, !.dialing = FALSE, !.cwaiting = FALSE]
    BY DEF Reflagged, Pvts
  <2>2. PICK ok \in WriteOutcomes :
           Handled(request_clcc([pvt EXCEPT !.ring = TRUE, !.dialing = FALSE,
                                            !.cwaiting = FALSE], ok), ok, FALSE)
    BY <1>2 DEF at_response_ring
  <2>. QED  BY <1>1, <2>1, <2>2
<1>3. CASE at_response_ccwa
  <2>1. Reflagged(pvt, pvt.dialing, pvt.ring, TRUE, pvt.last_dialed) = [pvt EXCEPT !.cwaiting = TRUE]
    BY DEF Reflagged, Pvts
  <2>2. PICK ok \in WriteOutcomes : Handled(request_clcc([pvt EXCEPT !.cwaiting = TRUE], ok), ok, FALSE)
    BY <1>3 DEF at_response_ccwa
  <2>. QED  BY <1>1, <2>1, <2>2
<1>. QED  BY <1>2, <1>3

LEMMA PlacedRings ==
    ASSUME Calm, IInv, Placed, at_response_ring \/ at_response_ccwa
    PROVE  Placed'
<1>1. PICK res \in {"RING", "CCWA"} : Reads(res)
  BY DEF at_response_ring, at_response_ccwa
<1>2. /\ CallsOK(pvt) /\ pvt \in Pvts /\ events \in Seq(Results) /\ events # <<>> /\ conn = "up"
      /\ events[1].res = res
      /\ Held(events, mcall, mdial, pvt) /\ Spoken(events, mcall, mdial, pvt.at_queue)
      /\ \A ok \in WriteOutcomes : ok = TRUE
  BY <1>1, PlacedReads
<1>3. events[1].res \notin {"ORIG", "CEND"} /\ ~Final(events[1])
  BY <1>1, <1>2 DEF Final
<1>4. PICK ok \in WriteOutcomes, dialing \in BOOLEAN, ring \in BOOLEAN, cwaiting \in BOOLEAN :
         Handled(request_clcc(Reflagged(pvt, dialing, ring, cwaiting, pvt.last_dialed), ok), ok, FALSE)
  BY <1>2, RingsReflag
<1>5. ok = TRUE /\ ok \in BOOLEAN
  BY <1>2
<1>. DEFINE q == request_clcc(Reflagged(pvt, dialing, ring, cwaiting, pvt.last_dialed), ok)
            fatal == FALSE
<1>6. /\ SameCalls(pvt, q) /\ CallsOK(q)
      /\ \A I, N : Kept(pvt.at_queue, q.at_queue, ok, I, N)
  BY <1>2, <1>5, MeekRings
<1>7. Handled(q, ok, fatal) /\ fatal = FALSE
  BY <1>4
<1>. HIDE DEF q, fatal
<1>8. \A I, N : Longer(pvt.at_queue, q.at_queue, I, N)
  BY <1>5, <1>6 DEF Kept
<1>9. Longer(pvt.at_queue, q.at_queue, {}, {}) /\ Follows(pvt, q)
  BY <1>6, <1>8, FollowsKept
<1>10. Held(Tail(events), mcall, mdial, q)
  BY <1>2, <1>3, <1>9, TailHeld
<1>. QED  BY <1>2, <1>3, <1>5, <1>6, <1>7, <1>9, <1>10, ReadPlaced

\* A line of +CLCC was handled, and others are left: nothing else changed in what
\* the modem says.
LEMMA LineSpoken ==
    ASSUME NEW ev \in Seq(Results), ev # <<>>, ev[1].res = "CLCC", NEW n \in CallIdx, n > ev[1].idx,
           NEW m, NEW md, NEW q, Spoken(ev, m, md, q)
    PROVE  /\ Spoken(LineOff(ev, n), m, md, q)
           /\ \A i : Open(LineOff(ev, n), m, 0, i) <=> Open(ev, m, 0, i)
           /\ Pending(LineOff(ev, n), md) => Pending(ev, md)
<1>. DEFINE fv == LineOff(ev, n)
<1>1. /\ Len(fv) = Len(ev) /\ fv[1].res = "CLCC" /\ fv[1].lines = ev[1].lines
      /\ \A k \in 1 .. Len(ev) : k # 1 => fv[k] = ev[k]
      /\ \A k, i : Open(fv, m, k, i) <=> Open(ev, m, k, i)
      /\ Told(ev, m) => Told(fv, m)
      /\ Over(ev, m) => Over(fv, m)
  BY LineRead
<1>. HIDE DEF fv
<1>2. \A k \in 1 .. Len(ev) : fv[k].res = ev[k].res
  BY <1>1
<1>3. Told(fv, m) /\ Over(fv, m)
  BY <1>1 DEF Spoken
<1>4. OneWay(fv, m, "outgoing")
  <2>1. OneWay(ev, m, "outgoing")
    BY DEF Spoken
  <2>2. SaysOf(ev[1], "outgoing")
    BY <2>1, TailSays DEF OneWay
  <2>3. SaysOf(fv[1], "outgoing")
    BY <1>1, <2>2 DEF SaysOf
  <2>4. \A k \in 1 .. Len(fv) : SaysOf(fv[k], "outgoing")
    BY <1>1, <2>1, <2>3 DEF OneWay, AllSay
  <2>. QED  BY <2>1, <2>4 DEF OneWay, AllSay
<1>5. Pending(fv, md) <=> Pending(ev, md)
  BY <1>1, <1>2 DEF Pending
<1>6. \A k \in 1 .. Len(ev) : Final(fv[k]) <=> Final(ev[k])
  BY <1>2 DEF Final
<1>7. /\ \A j, k \in 1 .. Len(fv) : Final(fv[j]) /\ Final(fv[k]) => j = k
      /\ \A k \in 1 .. Len(fv) :
            /\ Final(fv[k]) => q # <<>>
            /\ fv[k].res = "ERROR" => HeadCode(q) \notin CriticalCmds
            /\ fv[k].res = "ORIG" => ~md /\ \A j \in 1 .. Len(fv) : fv[j].res = "ORIG" => j = k
  BY <1>1, <1>2, <1>6 DEF Spoken
<1>8. Pending(fv, md) /\ Dials(q) # {} =>
          /\ HeadCode(q) = "D" /\ Dials(q) \subseteq {1}
          /\ \E k \in 1 .. Len(fv) : fv[k].res = "OK" /\ \A j \in 1 .. k : fv[j].res # "ORIG"
  <2>. SUFFICES ASSUME Pending(fv, md), Dials(q) # {}
                PROVE  /\ HeadCode(q) = "D" /\ Dials(q) \subseteq {1}
                       /\ \E k \in 1 .. Len(fv) : fv[k].res = "OK" /\ \A j \in 1 .. k : fv[j].res # "ORIG"
    OBVIOUS
  <2>1. HeadCode(q) = "D" /\ Dials(q) \subseteq {1}
    BY <1>5 DEF Spoken
  <2>2. PICK k \in 1 .. Len(ev) : ev[k].res = "OK" /\ \A j \in 1 .. k : ev[j].res # "ORIG"
    BY <1>5 DEF Spoken
  <2>3. Len(ev) \in Nat
    BY ReadAt
  <2>4. \A j \in 1 .. k : j \in 1 .. Len(ev)
    BY <2>2, <2>3
  <2>. QED  BY <1>1, <1>2, <2>1, <2>2, <2>4
<1>9. Spoken(fv, m, md, q)
  BY <1>3, <1>4, <1>7, <1>8 DEF Spoken
<1>. QED  BY <1>1, <1>5, <1>9 DEF fv

\* +CLCC, a line of it.
LEMMA PlacedListed == ASSUME Calm, IInv, Placed, OneInit(pvt), at_response_clcc PROVE Placed'
<1>. DEFINE h == events[1]
<1>1. Reads("CLCC")
  BY DEF at_response_clcc
<1>2. /\ Good(CpvtId, pvt) /\ CallsOK(pvt) /\ pvt \in Pvts /\ events \in Seq(Results) /\ events # <<>>
      /\ conn = "up" /\ h.res = "CLCC"
      /\ Held(events, mcall, mdial, pvt) /\ Spoken(events, mcall, mdial, pvt.at_queue)
      /\ \A ok \in WriteOutcomes : ok = TRUE
      /\ sys_chan \notin Spared(pvt)
  BY <1>1, PlacedReads
<1>3. PICK n \in CallIdx, ok \in WriteOutcomes :
         /\ n \in DOMAIN h.lines /\ n > h.idx
         /\ h.lines[n] \in Line
         /\ \E q \in Listed(pvt, h.lines[n], ok) :
               \/ Handled(FlagsListed(q, h.lines[n].state), ok, FALSE)
               \/ /\ pvt' = FlagsListed(q, h.lines[n].state)
                  /\ events' = LineOff(events, n)
                  /\ UNCHANGED <<threads, conn, modem>>
  BY IInvParts, LineHandled
<1>. DEFINE l == h.lines[n]
<1>4. PICK q \in Listed(pvt, l, ok) :
         \/ Handled(FlagsListed(q, l.state), ok, FALSE)
         \/ /\ pvt' = FlagsListed(q, l.state)
            /\ events' = LineOff(events, n)
            /\ UNCHANGED <<threads, conn, modem>>
  BY <1>3
<1>5. ok = TRUE /\ ok \in BOOLEAN
  BY <1>2
<1>6. l \in Line /\ l.idx = n /\ l.dir = "outgoing"
  <2>1. AllSay(events, "outgoing")
    BY <1>2 DEF Spoken, OneWay
  <2>2. SaysOf(h, "outgoing")
    BY <1>2, <2>1, TailSays
  <2>. QED  BY <1>3, <2>2 DEF SaysOf
<1>7. /\ Tells(h, n) /\ ~Final(h) /\ h.res \notin {"ORIG", "CEND"} /\ Told(events, mcall)
      /\ n > events[1].idx
  BY <1>2, <1>3 DEF Tells, Final, Spoken
<1>. DEFINE p == FlagsListed(q, l.state)
            fatal == FALSE
<1>8. \/ Handled(p, ok, fatal)
      \/ /\ pvt' = p /\ events' = LineOff(events, n)
         /\ UNCHANGED <<threads, conn, modem>>
  BY <1>4
<1>9. fatal = FALSE
  OBVIOUS
<1>. HIDE DEF l, fatal
<1>10. l.state \notin {"INIT", "RELEASED"}
  BY <1>6, LineType
<1>11. CallsOK(q)
  BY <1>2, <1>5, <1>6, ListedGood DEF Good
<1>12. SameCalls(q, p) /\ CallsOK(p) /\ p.at_queue = q.at_queue
  BY <1>11, FlagsListedEffect
<1>. HIDE DEF p
<1>13. Open(events, mcall, 0, n)
  BY <1>2, <1>7, ToldOpen
<1>14. \/ /\ SameCalls(pvt, q)
          /\ \A I, N : sys_chan \notin N => Kept(pvt.at_queue, q.at_queue, ok, I, N)
       \/ \E c \in WithIdx(pvt, l.idx) : Changed(pvt, q, c, l.state) /\ q.at_queue = pvt.at_queue
  <2>1. ~Comes(pvt, q, l)
    BY <1>6 DEF Comes
  <2>. QED  BY <1>2, <1>5, <1>6, <2>1, ListedEffect
<1>15. Held(events, mcall, mdial, q) /\ Longer(pvt.at_queue, q.at_queue, {}, {})
  <2>1. CASE /\ SameCalls(pvt, q)
             /\ \A I, N : sys_chan \notin N => Kept(pvt.at_queue, q.at_queue, ok, I, N)
    <3>1. \A I, N : sys_chan \notin N => Longer(pvt.at_queue, q.at_queue, I, N)
      BY <1>5, <2>1 DEF Kept
    <3>2. Longer(pvt.at_queue, q.at_queue, InState(pvt, "INIT"), Spared(pvt))
      BY <1>2, <3>1
    <3>3. Follows(pvt, q)
      BY <2>1, <3>2, FollowsKept
    <3>4. \A c \in pvt.chans : pvt.cpvt[c].state # "INIT" => Open(events, mcall, 0, pvt.cpvt[c].idx)
      BY <1>2 DEF Held
    <3>5. Held(events, mcall, mdial, q)
      BY <1>2, <3>3, <3>4, HeldOn
    <3>6. Longer(pvt.at_queue, q.at_queue, {}, {})
      BY <3>1
    <3>. QED  BY <3>5, <3>6
  <2>2. CASE \E c \in WithIdx(pvt, l.idx) : Changed(pvt, q, c, l.state) /\ q.at_queue = pvt.at_queue
    <3>1. PICK c \in WithIdx(pvt, l.idx) : Changed(pvt, q, c, l.state) /\ q.at_queue = pvt.at_queue
      BY <2>2
    <3>2. c \in pvt.chans /\ pvt.cpvt[c].idx \in CallIdx /\ Open(events, mcall, 0, pvt.cpvt[c].idx)
      BY <1>6, <1>13, <3>1 DEF WithIdx
    <3>3. \A I, N : Longer(pvt.at_queue, q.at_queue, I, N)
      BY <3>1, LongerTransitive
    <3>4. \A I : Longer(pvt.at_queue, q.at_queue, I, Spared(pvt))
      BY <3>3
    <3>. DEFINE new == l.state
    <3>5. new \notin {"INIT", "RELEASED"} /\ Changed(pvt, q, c, new)
      BY <1>10, <3>1
    <3>. HIDE DEF new
    <3>6. Held(events, mcall, mdial, q)
      BY <1>2, <3>2, <3>4, <3>5, HeldStated DEF OneInit
    <3>. QED  BY <3>3, <3>6
  <2>. QED  BY <1>14, <2>1, <2>2
<1>16. Held(events, mcall, mdial, p) /\ Longer(pvt.at_queue, p.at_queue, {}, {})
  <2>1. Follows(q, p)
    BY <1>12, FollowsSame
  <2>2. \A c \in q.chans : q.cpvt[c].state # "INIT" => Open(events, mcall, 0, q.cpvt[c].idx)
    BY <1>15 DEF Held
  <2>3. Held(events, mcall, mdial, p)
    BY <1>15, <2>1, <2>2, HeldOn
  <2>. QED  BY <1>12, <1>15, <2>3
<1>17. CASE Handled(p, ok, fatal)
  <2>1. Follows(p, p)
    BY FollowsTransitive
  <2>2. Held(Tail(events), mcall, mdial, p)
    BY <1>2, <1>7, <1>16, <2>1, TailHeld
  <2>. QED  BY <1>2, <1>5, <1>7, <1>9, <1>12, <1>16, <1>17, <2>2, ReadPlaced
<1>18. CASE /\ pvt' = p /\ events' = LineOff(events, n)
            /\ UNCHANGED <<threads, conn, modem>>
  <2>. DEFINE fv == LineOff(events, n)
  <2>1. Spoken(events, mcall, mdial, p.at_queue)
    BY <1>2, <1>16, SpokenLonger
  <2>2. /\ Spoken(fv, mcall, mdial, p.at_queue)
        /\ \A i : Open(fv, mcall, 0, i) <=> Open(events, mcall, 0, i)
        /\ Pending(fv, mdial) => Pending(events, mdial)
    BY <1>2, <1>7, <2>1, LineSpoken
  <2>. HIDE DEF fv
  <2>3. Follows(p, p)
    BY FollowsTransitive
  <2>4. \A c \in p.chans : p.cpvt[c].state # "INIT" => Open(fv, mcall, 0, p.cpvt[c].idx)
    BY <1>16, <2>2 DEF Held
  <2>5. Held(fv, mcall, mdial, p)
    BY <1>16, <2>2, <2>3, <2>4, HeldOn
  <2>6. OutCalls(p)
    BY <2>5 DEF Held
  <2>7. pvt' = p /\ events' = fv /\ mcall' = mcall /\ mdial' = mdial /\ conn' = "up"
    BY <1>2, <1>18 DEF modem, fv
  <2>. QED  BY <2>2, <2>5, <2>6, <2>7 DEF Placed, HeldNow, Resting
<1>. QED  BY <1>8, <1>17, <1>18

\* Every result the monitor reads.
LEMMA PlacedRead == ASSUME Calm, IInv, Placed, OneInit(pvt), MonitorReads PROVE Placed'
BY PlacedOk, PlacedError, PlacedOrig, PlacedCend, PlacedConn, PlacedRings, PlacedListed DEF MonitorReads

\* Steps of the threads that leave the calls alone.
LEMMA PlacedStill ==
    ASSUME Placed, UNCHANGED <<pvt, conn, events, mcall, mdial>>
    PROVE  Placed'
BY DEF Placed, HeldNow, Resting

\* What every thread starts from.
LEMMA PlacedThreads ==
    ASSUME Calm, IInv, Placed
    PROVE  /\ CallsOK(pvt) /\ pvt \in Pvts /\ pvt.chans \subseteq CpvtId /\ OutCalls(pvt)
           /\ WriteOutcomes \subseteq BOOLEAN
           /\ conn = "up" => /\ Held(events, mcall, mdial, pvt)
                             /\ Spoken(events, mcall, mdial, pvt.at_queue)
                             /\ \A ok \in WriteOutcomes : ok = TRUE
           /\ sys_chan \notin Spared(pvt)
<1>1. CallsOK(pvt) /\ pvt \in Pvts /\ pvt.chans \subseteq CpvtId /\ WriteOutcomes \subseteq BOOLEAN
  BY IInvParts, WriteOutcomesType DEF Good, CallsOK, Pvts
<1>2. conn = "up" => \A ok \in WriteOutcomes : ok = TRUE
  BY DEF WriteOutcomes, Calm
<1>. QED  BY <1>1, <1>2, SparedCalls DEF Placed, HeldNow

\* channel_request, with the context it makes.
LEMMA PlacedRequest ==
    ASSUME Calm, IInv, Placed, NumberFree, OneInit(pvt'), NEW d \in Dialer, channel_request(d)
    PROVE  Placed'
<1>1. /\ CallsOK(pvt) /\ pvt \in Pvts /\ pvt.chans \subseteq CpvtId /\ OutCalls(pvt)
      /\ conn = "up" => /\ Held(events, mcall, mdial, pvt)
                        /\ Spoken(events, mcall, mdial, pvt.at_queue)
  BY PlacedThreads
<1>2. UNCHANGED <<conn, events, mcall, mdial>>
  BY DEF channel_request, modem
<1>3. CASE UNCHANGED pvt
  BY <1>2, <1>3, PlacedStill
<1>4. CASE ~UNCHANGED pvt
  <2>. DEFINE idx == number[d]
              new == NewCpvt(idx, "outgoing", "INIT", request[d])
  <2>1. PICK c \in CpvtId \ pvt.chans : pvt' = cpvt_alloc(pvt, c, new)
    BY <1>4 DEF channel_request
  <2>2. /\ new.idx = idx /\ new.dir = "outgoing" /\ new.state = "INIT" /\ new.channel
        /\ ~new.called /\ ~new.need_hangup
    BY DEF NewCpvt
  <2>3. idx # 0 => WithIdx(pvt, idx) = {}
    BY DEF channel_request, NumberFree
  <2>. HIDE DEF new, idx
  <2>4. /\ pvt'.chans = pvt.chans \union {c} /\ pvt'.cpvt[c] = new
        /\ \A b \in CpvtId : b # c => pvt'.cpvt[b] = pvt.cpvt[b]
        /\ pvt'.at_queue = pvt.at_queue /\ pvt'.last_dialed = pvt.last_dialed
    BY <1>1, <2>1, AllocEffect
  <2>5. \A b \in pvt.chans : pvt'.cpvt[b] = pvt.cpvt[b] /\ b # c
    BY <1>1, <2>1, <2>4
  <2>6. InState(pvt, "INIT") = {}
    <3>. SUFFICES ASSUME NEW a \in pvt.chans, pvt.cpvt[a].state = "INIT" PROVE FALSE
      BY DEF InState
    <3>1. a \in InState(pvt', "INIT") /\ c \in InState(pvt', "INIT")
      BY <2>2, <2>4, <2>5 DEF InState
    <3>. QED  BY <2>5, <3>1 DEF OneInit
  <2>7. \A b \in pvt.chans : /\ pvt.cpvt[b].state # "INIT" /\ pvt.cpvt[b].idx \in CallIdx
                             /\ pvt.cpvt[b].idx # new.idx
    <3>1. \A b \in pvt.chans : pvt.cpvt[b].state # "INIT" /\ pvt.cpvt[b].idx \in CallIdx
      BY <1>1, <2>6 DEF InState, OutCalls
    <3>2. CASE idx = 0
      BY <2>2, <3>1, <3>2 DEF CallIdx
    <3>3. CASE idx # 0
      BY <2>2, <2>3, <3>1, <3>3 DEF WithIdx
    <3>. QED  BY <3>2, <3>3
  <2>8. OutCalls(pvt')
    BY <1>1, <2>2, <2>4, <2>5, <2>7 DEF OutCalls
  <2>9. conn = "up" => Held(events, mcall, mdial, pvt')
    BY <1>1, <2>1, <2>2, <2>6, <2>7, HeldMade
  <2>10. conn = "off" => \A b \in pvt'.chans : /\ pvt'.cpvt[b].state = "INIT"
                                               /\ ~pvt'.cpvt[b].called /\ ~pvt'.cpvt[b].need_hangup
    BY <2>2, <2>4, <2>5 DEF Placed, Resting
  <2>. QED  BY <1>1, <1>2, <2>4, <2>8, <2>9, <2>10 DEF Placed, HeldNow, Resting
<1>. QED  BY <1>3, <1>4

\* What the modem has said goes with any queue whose head it was said of, while
\* no ^ORIG is awaited.
LEMMA SpokenHead ==
    ASSUME NEW ev, NEW m, NEW md, NEW q, NEW r, Spoken(ev, m, md, q), HeadStays(q, r), ~Pending(ev, md)
    PROVE  Spoken(ev, m, md, r)
BY DEF Spoken, HeadStays, Final

\* channel_call.
LEMMA PlacedCall ==
    ASSUME Calm, IInv, Placed, OneInit(pvt), NEW c \in CpvtId, channel_call(c)
    PROVE  Placed'
<1>. DEFINE f == [pvt EXCEPT !.cpvt[c].called = TRUE]
<1>1. /\ CallsOK(pvt) /\ pvt \in Pvts /\ pvt.chans \subseteq CpvtId /\ OutCalls(pvt)
      /\ WriteOutcomes \subseteq BOOLEAN
      /\ conn = "up" => /\ Held(events, mcall, mdial, pvt)
                        /\ Spoken(events, mcall, mdial, pvt.at_queue)
                        /\ \A ok \in WriteOutcomes : ok = TRUE
  BY PlacedThreads
<1>2. /\ c \in pvt.chans /\ ~pvt.cpvt[c].called /\ conn # "off"
      /\ UNCHANGED <<conn, events, mcall, mdial>>
  BY DEF channel_call, HasChannel, modem
<1>3. PICK clir \in BOOLEAN, ok \in WriteOutcomes : pvt' = Dialed(f, c, clir, ok)
  BY ClirAssumption DEF channel_call
<1>4. /\ CallsOK(f) /\ Noted(pvt, f, c) /\ RestSame(pvt, f)
      /\ f.cpvt[c].idx = pvt.cpvt[c].idx /\ f.cpvt[c].called
  BY <1>1, <1>2, CalledEffect
<1>. HIDE DEF f
<1>5. ok \in BOOLEAN /\ c \in f.chans
  BY <1>1, <1>2, <1>4 DEF RestSame
<1>6. DialsFor(f, pvt', c, ok)
  BY <1>3, <1>4, <1>5, DialedEffect
<1>7. /\ pvt'.chans = pvt.chans
      /\ \A d \in pvt.chans : /\ pvt'.cpvt[d].idx = pvt.cpvt[d].idx
                              /\ pvt'.cpvt[d].dir = pvt.cpvt[d].dir
                              /\ pvt'.cpvt[d].state = pvt.cpvt[d].state
                              /\ pvt.cpvt[d].called => pvt'.cpvt[d].called
                              /\ d = c => pvt'.cpvt[d].called
  <2>1. ASSUME NEW d \in CpvtId
        PROVE  /\ f.cpvt[d].dir = pvt.cpvt[d].dir /\ f.cpvt[d].state = pvt.cpvt[d].state
               /\ d # c => f.cpvt[d].idx = pvt.cpvt[d].idx /\ f.cpvt[d].called = pvt.cpvt[d].called
    BY <1>4 DEF Noted, Alike
  <2>2. ASSUME NEW d \in CpvtId
        PROVE  /\ pvt'.cpvt[d].dir = f.cpvt[d].dir /\ pvt'.cpvt[d].state = f.cpvt[d].state
               /\ d # c => pvt'.cpvt[d].idx = f.cpvt[d].idx /\ pvt'.cpvt[d].called = f.cpvt[d].called
    BY <1>6 DEF DialsFor, Noted, Alike
  <2>3. pvt'.chans = f.chans /\ pvt'.cpvt[c].idx = f.cpvt[c].idx /\ pvt'.cpvt[c].called = f.cpvt[c].called
    BY <1>6 DEF DialsFor, Noted
  <2>. QED  BY <1>1, <1>4, <2>1, <2>2, <2>3 DEF RestSame
<1>8. OutCalls(pvt')
  BY <1>1, <1>7 DEF OutCalls
<1>9. CASE conn = "lost"
  BY <1>2, <1>8, <1>9 DEF Placed, Resting
<1>10. CASE conn = "up"
  <2>1. c \in InState(pvt, "INIT")
    BY <1>1, <1>2 DEF OutCalls, InState
  <2>2. ok = TRUE
    BY <1>1, <1>10
  <2>3. Held(events, mcall, mdial, pvt') /\ ~Pending(events, mdial)
    BY <1>1, <1>2, <1>4, <1>6, <1>10, <2>1, <2>2, HeldDials DEF OneInit
  <2>4. HeadStays(pvt.at_queue, pvt'.at_queue)
    BY <1>4, <1>6, <2>2 DEF DialsFor, RestSame
  <2>5. Spoken(events, mcall, mdial, pvt'.at_queue)
    BY <1>1, <1>10, <2>3, <2>4, SpokenHead
  <2>. QED  BY <1>2, <1>8, <1>10, <2>3, <2>5 DEF Placed, HeldNow, Resting
<1>11. conn \in {"up", "lost", "off"}
  BY IInvParts DEF RestOK
<1>. QED  BY <1>2, <1>9, <1>10, <1>11

\* A job that neither dials nor hangs up is queued.
LEMMA PlacedInsert ==
    ASSUME Calm, IInv, Placed, conn # "off", NEW c \in pvt.chans \union {sys_chan}, NEW job, FineJob(job),
           {"D", "CHUP"} \intersect Codes(job) = {}, NEW ok \in WriteOutcomes,
           pvt' = Insert(pvt, c, job, ok), UNCHANGED <<conn, events, modem>>
    PROVE  Placed'
<1>. DEFINE I == InState(pvt, "INIT")
            N == Spared(pvt)
<1>1. /\ CallsOK(pvt) /\ OutCalls(pvt) /\ ok \in BOOLEAN
      /\ conn = "up" => /\ Held(events, mcall, mdial, pvt)
                        /\ Spoken(events, mcall, mdial, pvt.at_queue)
                        /\ ok = TRUE
  BY PlacedThreads
<1>2. "D" \notin Codes(job) /\ "CHUP" \notin Codes(job)
  OBVIOUS
<1>3. SameCalls(pvt, pvt') /\ (ok => Longer(pvt.at_queue, pvt'.at_queue, I, N))
  BY <1>1, <1>2, InsertQueue
<1>4. UNCHANGED <<conn, events, mcall, mdial>>
  BY DEF modem
<1>. HIDE DEF I, N
<1>5. OutCalls(pvt')
  BY <1>1, <1>3 DEF OutCalls, SameCalls
<1>6. conn = "up" => HeldNow'
  <2>. SUFFICES ASSUME conn = "up" PROVE HeldNow'
    OBVIOUS
  <2>1. Held(events, mcall, mdial, pvt) /\ Spoken(events, mcall, mdial, pvt.at_queue)
    BY <1>1
  <2>2. Longer(pvt.at_queue, pvt'.at_queue, I, N)
    BY <1>1, <1>3
  <2>3. Follows(pvt, pvt')
    BY <1>3, <2>2, FollowsKept DEF I, N
  <2>4. \A d \in pvt.chans : pvt.cpvt[d].state # "INIT" => Open(events, mcall, 0, pvt.cpvt[d].idx)
    BY <2>1 DEF Held
  <2>5. Held(events, mcall, mdial, pvt')
    BY <2>1, <2>3, <2>4, HeldOn
  <2>6. Spoken(events, mcall, mdial, pvt'.at_queue)
    BY <2>1, <2>2, SpokenLonger
  <2>. QED  BY <1>4, <2>5, <2>6 DEF HeldNow
<1>. QED  BY <1>4, <1>5, <1>6 DEF Placed, Resting

\* channel_hangup.
LEMMA PlacedHangup ==
    ASSUME Calm, IInv, Placed, NEW c \in CpvtId, channel_hangup(c)
    PROVE  Placed'
<1>. DEFINE I == InState(pvt, "INIT")
            N == Spared(pvt)
            M == N \ {c}
<1>1. /\ CallsOK(pvt) /\ pvt \in Pvts /\ pvt.chans \subseteq CpvtId /\ OutCalls(pvt)
      /\ WriteOutcomes \subseteq BOOLEAN
      /\ conn = "up" => /\ Held(events, mcall, mdial, pvt)
                        /\ Spoken(events, mcall, mdial, pvt.at_queue)
                        /\ \A ok \in WriteOutcomes : ok = TRUE
  BY PlacedThreads
<1>2. c \in pvt.chans /\ UNCHANGED <<conn, events, mcall, mdial>>
  BY DEF channel_hangup, HasChannel, modem
<1>3. PICK ok \in WriteOutcomes : pvt' = HungUp(pvt, c, ok)
  BY DEF channel_hangup
<1>4. ok \in BOOLEAN
  BY <1>1
<1>5. /\ HangsUp(pvt, pvt', c)
      /\ ~pvt.cpvt[c].need_hangup =>
            RestSame(pvt, pvt') /\ \A d \in CpvtId : pvt'.cpvt[d].need_hangup = pvt.cpvt[d].need_hangup
      /\ \A J, K : c \notin K => Kept(pvt.at_queue, pvt'.at_queue, ok, J, K)
  BY <1>1, <1>2, <1>3, <1>4, HungUpEffect
<1>6. /\ pvt'.chans = pvt.chans
      /\ \A d \in pvt.chans :
            /\ pvt'.cpvt[d].idx = pvt.cpvt[d].idx /\ pvt'.cpvt[d].dir = pvt.cpvt[d].dir
            /\ pvt'.cpvt[d].called = pvt.cpvt[d].called /\ pvt'.cpvt[d].state = pvt.cpvt[d].state
            /\ d # c => /\ pvt'.cpvt[d].channel = pvt.cpvt[d].channel
                        /\ pvt'.cpvt[d].need_hangup = pvt.cpvt[d].need_hangup
            /\ d = c => ~pvt'.cpvt[d].channel
      /\ pvt'.last_dialed \in {pvt.last_dialed, NoCpvt}
  BY <1>1, <1>5 DEF HangsUp, Alike
<1>7. OutCalls(pvt')
  BY <1>1, <1>6 DEF OutCalls
<1>8. Resting'
  <2>1. ASSUME conn = "off"
        PROVE  /\ pvt'.at_queue = <<>> /\ pvt'.last_dialed = NoCpvt
               /\ \A d \in pvt'.chans : /\ pvt'.cpvt[d].state = "INIT"
                                        /\ ~pvt'.cpvt[d].called /\ ~pvt'.cpvt[d].need_hangup
    <3>1. /\ pvt.at_queue = <<>> /\ pvt.last_dialed = NoCpvt
          /\ \A d \in pvt.chans : /\ pvt.cpvt[d].state = "INIT"
                                  /\ ~pvt.cpvt[d].called /\ ~pvt.cpvt[d].need_hangup
      BY <2>1 DEF Placed, Resting
    <3>2. RestSame(pvt, pvt') /\ \A d \in CpvtId : pvt'.cpvt[d].need_hangup = pvt.cpvt[d].need_hangup
      BY <1>2, <1>5, <3>1
    <3>. QED  BY <1>1, <1>6, <3>1, <3>2 DEF RestSame
  <2>. QED  BY <1>2, <2>1 DEF Placed, Resting
<1>9. conn = "up" => HeldNow'
  <2>. SUFFICES ASSUME conn = "up" PROVE HeldNow'
    OBVIOUS
  <2>1. Held(events, mcall, mdial, pvt) /\ Spoken(events, mcall, mdial, pvt.at_queue) /\ ok = TRUE
    BY <1>1
  <2>2. Longer(pvt.at_queue, pvt'.at_queue, {}, {})
    <3>1. Kept(pvt.at_queue, pvt'.at_queue, ok, {}, {})
      BY <1>5
    <3>. QED  BY <2>1, <3>1 DEF Kept
  <2>3. InState(pvt', "INIT") = I /\ Spared(pvt') \subseteq M
    BY <1>6 DEF InState, Spared, Linked
  <2>4. QueueFor(pvt.at_queue, I, N) => QueueFor(pvt'.at_queue, InState(pvt', "INIT"), Spared(pvt'))
    <3>1. c \notin M /\ M \subseteq N
      OBVIOUS
    <3>. HIDE DEF I, N, M
    <3>2. QueueFor(pvt.at_queue, I, N) => QueueFor(pvt.at_queue, I, M)
      BY <3>1, QueueForOthers
    <3>3. QueueFor(pvt.at_queue, I, M) => QueueFor(pvt'.at_queue, I, M)
      BY <1>5, <3>1 DEF Kept
    <3>4. QueueFor(pvt'.at_queue, I, M) => QueueFor(pvt'.at_queue, InState(pvt', "INIT"), Spared(pvt'))
      BY <2>3, QueueForOthers
    <3>. QED  BY <3>2, <3>3, <3>4
  <2>5. Follows(pvt, pvt')
    <3>1. Dials(pvt.at_queue) = {} => Dials(pvt'.at_queue) = {}
      BY <2>2 DEF Longer
    <3>. QED  BY <1>6, <2>4, <3>1 DEF Follows
  <2>6. \A d \in pvt.chans : pvt.cpvt[d].state # "INIT" => Open(events, mcall, 0, pvt.cpvt[d].idx)
    BY <2>1 DEF Held
  <2>7. Held(events, mcall, mdial, pvt')
    BY <2>1, <2>5, <2>6, HeldOn
  <2>8. Spoken(events, mcall, mdial, pvt'.at_queue)
    BY <2>1, <2>2, SpokenLonger
  <2>. QED  BY <1>2, <2>7, <2>8 DEF HeldNow
<1>. QED  BY <1>2, <1>7, <1>8, <1>9 DEF Placed

\* Every step of a thread.
LEMMA PlacedThread ==
    ASSUME Calm, IInv, Placed, NumberFree, OneInit(pvt), OneInit(pvt'), ThreadNext
    PROVE  Placed'
<1>1. ASSUME NEW c \in CpvtId, channel_answer(c) PROVE FALSE
  BY <1>1 DEF channel_answer, HasChannel, Placed, OutCalls
<1>2. ASSUME NEW c \in CpvtId, channel_func_write(c) PROVE Placed'
  <2>1. c \in pvt.chans \union {sys_chan} /\ conn # "off" /\ UNCHANGED <<conn, events, modem>>
    BY <1>2 DEF channel_func_write, HasChannel, Placed, Resting
  <2>2. PICK ok \in WriteOutcomes : pvt' = Insert(pvt, c, at_enque_activate, ok)
    BY <1>2 DEF channel_func_write
  <2>3. FineJob(at_enque_activate) /\ {"D", "CHUP"} \intersect Codes(at_enque_activate) = {}
    BY JobsFine
  <2>. QED  BY <2>1, <2>2, <2>3, PlacedInsert
<1>3. ASSUME OtherJob PROVE Placed'
  <2>1. sys_chan \in pvt.chans \union {sys_chan} /\ conn # "off" /\ UNCHANGED <<conn, events, modem>>
    BY <1>3 DEF OtherJob
  <2>2. PICK ok \in WriteOutcomes : pvt' = Insert(pvt, sys_chan, at_enque_ping, ok)
    BY <1>3 DEF OtherJob
  <2>3. FineJob(at_enque_ping) /\ {"D", "CHUP"} \intersect Codes(at_enque_ping) = {}
    BY JobsFine
  <2>. QED  BY <2>1, <2>2, <2>3, PlacedInsert
<1>4. ASSUME \/ \E d \in Dialer : NumberRead(d) \/ \E opts \in DialOpts : SelectDevice(d, opts)
             \/ \E c \in CpvtId : channel_hangup_enters(c)
             \/ FindDeviceExt
      PROVE  Placed'
  <2>1. UNCHANGED <<pvt, conn, events, mcall, mdial>>
    BY <1>4 DEF SelectDevice, NumberRead, channel_hangup_enters, FindDeviceExt, modem
  <2>. QED  BY <2>1, PlacedStill
<1>5. ASSUME NEW d \in Dialer, channel_request(d) PROVE Placed'
  BY <1>5, PlacedRequest
<1>6. ASSUME NEW c \in CpvtId, channel_call(c) \/ channel_hangup(c) PROVE Placed'
  BY <1>6, PlacedCall, PlacedHangup
<1>. QED  BY <1>1, <1>2, <1>3, <1>4, <1>5, <1>6 DEF ThreadNext

\* Nothing is said and no call is there: a device whose calls are not begun.
LEMMA QuietPlaced ==
    ASSUME NEW ev, ev = <<>>, NEW m, \A i \in CallIdx : ~There(m, i), NEW md, ~md, NEW p, OutCalls(p),
           p.at_queue = <<>>, p.last_dialed = NoCpvt, \A c \in p.chans : p.cpvt[c].state = "INIT"
    PROVE  Held(ev, m, md, p) /\ Spoken(ev, m, md, p.at_queue)
<1>1. Len(ev) = 0 /\ 1 .. Len(ev) = {} /\ 0 + 1 .. Len(ev) = {}
  OBVIOUS
<1>2. \A i \in CallIdx : ~Open(ev, m, 0, i)
  BY <1>1 DEF Open
<1>3. ~Pending(ev, md) /\ Dials(p.at_queue) = {}
  BY <1>1, NoDials DEF Pending
<1>4. \A i : ~Stray(ev, m, p, i)
  BY <1>2 DEF Stray
<1>5. ~Underway(ev, m, md, p)
  BY <1>3, <1>4 DEF Underway
<1>6. QueueFor(p.at_queue, InState(p, "INIT"), Spared(p))
  BY <1>3 DEF QueueFor
<1>7. Held(ev, m, md, p)
  BY <1>3, <1>4, <1>5, <1>6 DEF Held
<1>8. Told(ev, m) /\ Over(ev, m) /\ OneWay(ev, m, "outgoing")
  BY <1>1 DEF Told, Over, OneWay, AllSay
<1>9. Spoken(ev, m, md, p.at_queue)
  BY <1>1, <1>3, <1>8 DEF Spoken
<1>. QED  BY <1>7, <1>9

\* The device is lost, and found again.
LEMMA PlacedLost ==
    ASSUME Calm, IInv, Placed,
           \/ MonitorCleanup \/ DisconnectEnds \/ Reconnect
           \/ \E c \in CpvtId : DisconnectReleases(c)
    PROVE  Placed'
<1>1. CallsOK(pvt) /\ pvt \in Pvts /\ pvt.chans \subseteq CpvtId /\ OutCalls(pvt)
  BY PlacedThreads
<1>2. ~MonitorCleanup
  BY DEF MonitorCleanup, Calm
<1>3. ASSUME NEW c \in CpvtId, DisconnectReleases(c) PROVE Placed'
  <2>. DEFINE off == FALSE
              f == NeedHangup(pvt, c, off)
  <2>1. c \in CpvtId \union {sys_chan} /\ c \in pvt.chans /\ off \in BOOLEAN
    BY <1>3 DEF DisconnectReleases
  <2>2. conn = "lost" /\ UNCHANGED <<conn, events, mcall, mdial>>
    BY <1>3 DEF DisconnectReleases, modem
  <2>3. pvt' = change_channel_state(f, c, "RELEASED")
    BY <1>3 DEF DisconnectReleases
  <2>. HIDE DEF off
  <2>4. Marked(pvt, f, c, off) /\ f \in Pvts
    BY <1>1, <2>1, NeedHangupEffect
  <2>. HIDE DEF f
  <2>5. /\ f.chans = pvt.chans
        /\ \A d \in CpvtId : /\ f.cpvt[d].idx = pvt.cpvt[d].idx /\ f.cpvt[d].dir = pvt.cpvt[d].dir
                             /\ f.cpvt[d].called = pvt.cpvt[d].called
                             /\ f.cpvt[d].state = pvt.cpvt[d].state
    BY <2>4 DEF Marked, RestSame
  <2>6. c \in f.chans /\ f.cpvt[c].state # "RELEASED"
    BY <1>1, <2>1, <2>5 DEF OutCalls
  <2>7. Released(f, pvt', c)
    BY <2>3, <2>4, <2>6, ReleaseEffect
  <2>8. pvt'.chans = pvt.chans \ {c}
    BY <2>5, <2>7 DEF Released
  <2>9. \A d \in pvt'.chans : /\ d \in pvt.chans
                              /\ pvt'.cpvt[d].idx = pvt.cpvt[d].idx /\ pvt'.cpvt[d].dir = pvt.cpvt[d].dir
                              /\ pvt'.cpvt[d].called = pvt.cpvt[d].called
                              /\ pvt'.cpvt[d].state = pvt.cpvt[d].state
    BY <1>1, <2>5, <2>7, <2>8 DEF Released, Alike
  <2>10. OutCalls(pvt')
    BY <1>1, <2>9 DEF OutCalls
  <2>. QED  BY <2>2, <2>10 DEF Placed, Resting
<1>4. CASE DisconnectEnds
  <2>1. /\ pvt'.chans = {} /\ pvt'.at_queue = <<>> /\ pvt'.last_dialed = NoCpvt
    BY <1>1, <1>4 DEF DisconnectEnds, at_queue_flush, Pvts
  <2>2. conn = "lost" /\ conn' = "off" /\ UNCHANGED <<events, mcall, mdial>>
    BY <1>4 DEF DisconnectEnds, modem
  <2>. QED  BY <2>1, <2>2 DEF Placed, Resting, OutCalls
<1>5. CASE Reconnect
  <2>1. conn = "off" /\ conn' = "up" /\ ~mdial' /\ events' = events /\ pvt' = pvt
    BY <1>5 DEF Reconnect
  <2>2. /\ events' = <<>> /\ \A i \in CallIdx : ~There(mcall, i)
        /\ pvt.at_queue = <<>> /\ pvt.last_dialed = NoCpvt
        /\ \A c \in pvt.chans : pvt.cpvt[c].state = "INIT"
    BY <2>1 DEF Placed, Resting
  <2>3. \A i \in CallIdx : mcall'[i] \in {mcall[i], NoCall}
    BY <1>5 DEF Reconnect
  <2>4. \A i \in CallIdx : ~There(mcall', i)
    BY <2>2, <2>3 DEF There, NoCall
  <2>5. Held(events', mcall', mdial', pvt) /\ Spoken(events', mcall', mdial', pvt.at_queue)
    BY <1>1, <2>1, <2>2, <2>4, QuietPlaced
  <2>. QED  BY <1>1, <2>1, <2>5 DEF Placed, HeldNow, Resting
<1>. QED  BY <1>2, <1>3, <1>4, <1>5

\* The part of Spoken that is about the order of what is said, and the queue.
Lined(ev, md, q) ==
    /\ \A j, k \in 1 .. Len(ev) : Final(ev[j]) /\ Final(ev[k]) => j = k
    /\ \A k \in 1 .. Len(ev) :
          /\ Final(ev[k]) => q # <<>>
          /\ ev[k].res = "ERROR" => HeadCode(q) \notin CriticalCmds
          /\ ev[k].res = "ORIG" => ~md /\ \A j \in 1 .. Len(ev) : ev[j].res = "ORIG" => j = k
    /\ Pending(ev, md) /\ Dials(q) # {} =>
          /\ HeadCode(q) = "D" /\ Dials(q) \subseteq {1}
          /\ \E k \in 1 .. Len(ev) : ev[k].res = "OK" /\ \A j \in 1 .. k : ev[j].res # "ORIG"

LEMMA SpokenParts ==
    ASSUME NEW ev, NEW m, NEW md, NEW q
    PROVE  Spoken(ev, m, md, q) <=>
              Told(ev, m) /\ Over(ev, m) /\ OneWay(ev, m, "outgoing") /\ Lined(ev, md, q)
BY DEF Spoken, Lined

\* What is in a sequence that got one more.
LEMMA AppendedCases ==
    ASSUME NEW ev \in Seq(Results), NEW e \in Results, NEW k \in 1 .. Len(Append(ev, e))
    PROVE  \/ k = Len(ev) + 1 /\ Append(ev, e)[k] = e
           \/ k \in 1 .. Len(ev) /\ Append(ev, e)[k] = ev[k]
<1>1. /\ Len(Append(ev, e)) = Len(ev) + 1 /\ Len(ev) \in Nat
      /\ \A j \in 1 .. Len(ev) : Append(ev, e)[j] = ev[j]
      /\ Append(ev, e)[Len(ev) + 1] = e
  BY AppendedAt
<1>2. k = Len(ev) + 1 \/ k \in 1 .. Len(ev)
  BY <1>1
<1>. QED  BY <1>1, <1>2

\* Something is said that is no answer and begins no call.
LEMMA LinedQuiet ==
    ASSUME NEW ev \in Seq(Results), NEW e \in Results, e.res \notin {"OK", "ERROR", "ORIG"}, NEW md, NEW q
    PROVE  /\ Lined(ev, md, q) => Lined(Append(ev, e), md, q)
           /\ Pending(Append(ev, e), md) => Pending(ev, md)
           /\ (\A k \in 1 .. Len(ev) : ~Final(ev[k]))
              => \A k \in 1 .. Len(Append(ev, e)) : ~Final(Append(ev, e)[k])
<1>. DEFINE fv == Append(ev, e)
<1>1. /\ Len(fv) = Len(ev) + 1 /\ Len(ev) \in Nat
      /\ \A k \in 1 .. Len(ev) : fv[k] = ev[k]
      /\ fv[Len(ev) + 1] = e
  BY AppendedAt
<1>. HIDE DEF fv
<1>2. \A k \in 1 .. Len(fv) : (k = Len(ev) + 1 /\ fv[k] = e) \/ (k \in 1 .. Len(ev) /\ fv[k] = ev[k])
  BY AppendedCases DEF fv
<1>3. ~Final(e) /\ e.res # "ORIG" /\ e.res # "ERROR"
  BY DEF Final
<1>4. \A k \in 1 .. Len(fv) :
         Final(fv[k]) \/ fv[k].res \in {"ORIG", "ERROR"} => k \in 1 .. Len(ev) /\ fv[k] = ev[k]
  BY <1>2, <1>3
<1>5. Pending(fv, md) => Pending(ev, md)
  BY <1>4 DEF Pending
<1>6. ASSUME Lined(ev, md, q) PROVE Lined(fv, md, q)
  <2>1. \A j, k \in 1 .. Len(fv) : Final(fv[j]) /\ Final(fv[k]) => j = k
    BY <1>4, <1>6 DEF Lined
  <2>2. \A k \in 1 .. Len(fv) :
          /\ Final(fv[k]) => q # <<>>
          /\ fv[k].res = "ERROR" => HeadCode(q) \notin CriticalCmds
    BY <1>4, <1>6 DEF Lined
  <2>3. ASSUME NEW k \in 1 .. Len(fv), fv[k].res = "ORIG"
        PROVE  ~md /\ \A j \in 1 .. Len(fv) : fv[j].res = "ORIG" => j = k
    <3>1. k \in 1 .. Len(ev) /\ ev[k].res = "ORIG"
      BY <1>4, <2>3
    <3>2. \A j \in 1 .. Len(fv) : fv[j].res = "ORIG" => j \in 1 .. Len(ev) /\ ev[j].res = "ORIG"
      BY <1>4
    <3>. QED  BY <1>6, <3>1, <3>2 DEF Lined
  <2>4. ASSUME Pending(fv, md), Dials(q) # {}
        PROVE  /\ HeadCode(q) = "D" /\ Dials(q) \subseteq {1}
               /\ \E k \in 1 .. Len(fv) : fv[k].res = "OK" /\ \A j \in 1 .. k : fv[j].res # "ORIG"
    <3>1. HeadCode(q) = "D" /\ Dials(q) \subseteq {1}
      BY <1>5, <1>6, <2>4 DEF Lined
    <3>2. PICK k \in 1 .. Len(ev) : ev[k].res = "OK" /\ \A j \in 1 .. k : ev[j].res # "ORIG"
      BY <1>5, <1>6, <2>4 DEF Lined
    <3>3. k \in 1 .. Len(fv) /\ \A j \in 1 .. k : j \in 1 .. Len(ev)
      BY <1>1
    <3>. QED  BY <1>1, <3>1, <3>2, <3>3
  <2>. QED  BY <2>1, <2>2, <2>3, <2>4 DEF Lined
<1>7. (\A k \in 1 .. Len(ev) : ~Final(ev[k])) => \A k \in 1 .. Len(fv) : ~Final(fv[k])
  BY <1>4
<1>. QED  BY <1>5, <1>6, <1>7 DEF fv

\* The head command is answered.
LEMMA LinedAnswer ==
    ASSUME NEW ev \in Seq(Results), NEW e \in Results, Final(e), NEW md, NEW q, q # <<>>,
           e.res = "ERROR" => HeadCode(q) \notin CriticalCmds,
           \A k \in 1 .. Len(ev) : ~Final(ev[k]), Lined(ev, md, q)
    PROVE  Lined(Append(ev, e), md, q) /\ (Pending(Append(ev, e), md) => Pending(ev, md))
<1>. DEFINE fv == Append(ev, e)
<1>1. /\ Len(fv) = Len(ev) + 1 /\ Len(ev) \in Nat
      /\ \A k \in 1 .. Len(ev) : fv[k] = ev[k]
      /\ fv[Len(ev) + 1] = e
  BY AppendedAt
<1>. HIDE DEF fv
<1>2. \A k \in 1 .. Len(fv) : (k = Len(ev) + 1 /\ fv[k] = e) \/ (k \in 1 .. Len(ev) /\ fv[k] = ev[k])
  BY AppendedCases DEF fv
<1>3. e.res # "ORIG"
  BY DEF Final
<1>4. \A k \in 1 .. Len(fv) : /\ Final(fv[k]) => k = Len(ev) + 1 /\ fv[k] = e
                              /\ fv[k].res = "ORIG" => k \in 1 .. Len(ev) /\ fv[k] = ev[k]
  BY <1>2, <1>3
<1>5. Pending(fv, md) => Pending(ev, md)
  BY <1>4 DEF Pending
<1>6. \A j, k \in 1 .. Len(fv) : Final(fv[j]) /\ Final(fv[k]) => j = k
  BY <1>4
<1>7. \A k \in 1 .. Len(fv) : /\ Final(fv[k]) => q # <<>>
                              /\ fv[k].res = "ERROR" => HeadCode(q) \notin CriticalCmds
  BY <1>4 DEF Final
<1>8. ASSUME NEW k \in 1 .. Len(fv), fv[k].res = "ORIG"
      PROVE  ~md /\ \A j \in 1 .. Len(fv) : fv[j].res = "ORIG" => j = k
  <2>1. k \in 1 .. Len(ev) /\ ev[k].res = "ORIG"
    BY <1>4, <1>8
  <2>2. \A j \in 1 .. Len(fv) : fv[j].res = "ORIG" => j \in 1 .. Len(ev) /\ ev[j].res = "ORIG"
    BY <1>4
  <2>. QED  BY <2>1, <2>2 DEF Lined
<1>9. ~(Pending(fv, md) /\ Dials(q) # {})
  <2>. SUFFICES ASSUME Pending(fv, md), Dials(q) # {} PROVE FALSE
    OBVIOUS
  <2>1. PICK k \in 1 .. Len(ev) : ev[k].res = "OK"
    BY <1>5 DEF Lined
  <2>. QED  BY <2>1 DEF Final
<1>10. Lined(fv, md, q)
  BY <1>6, <1>7, <1>8, <1>9 DEF Lined
<1>. QED  BY <1>5, <1>10 DEF fv

LEMMA LinedLess ==
    ASSUME NEW ev, NEW md, NEW nd, nd => md, NEW q
    PROVE  /\ Lined(ev, md, q) => Lined(ev, nd, q)
           /\ Pending(ev, nd) => Pending(ev, md)
BY DEF Lined, Pending

\* An ATD is taken: the call before it has its index, and this is the only one in
\* the queue.
LEMMA LinedDial ==
    ASSUME NEW ev \in Seq(Results), NEW e \in Results, e.res = "OK", NEW md, NEW nd, NEW q, q # <<>>,
           HeadCode(q) = "D", Dials(q) = {1},
           \A k \in 1 .. Len(ev) : ~Final(ev[k]), Lined(ev, md, q)
    PROVE  Lined(Append(ev, e), nd, q)
<1>. DEFINE fv == Append(ev, e)
<1>1. /\ Len(fv) = Len(ev) + 1 /\ Len(ev) \in Nat
      /\ \A k \in 1 .. Len(ev) : fv[k] = ev[k]
      /\ fv[Len(ev) + 1] = e
  BY AppendedAt
<1>. HIDE DEF fv
<1>2. \A k \in 1 .. Len(ev) : ev[k].res # "ORIG"
  <2>. SUFFICES ASSUME NEW k \in 1 .. Len(ev), ev[k].res = "ORIG" PROVE FALSE
    OBVIOUS
  <2>1. Pending(ev, md)
    BY DEF Pending
  <2>2. PICK j \in 1 .. Len(ev) : ev[j].res = "OK"
    BY <2>1 DEF Lined
  <2>. QED  BY <2>2 DEF Final
<1>3. \A k \in 1 .. Len(fv) : (k = Len(ev) + 1 /\ fv[k] = e) \/ (k \in 1 .. Len(ev) /\ fv[k] = ev[k])
  BY AppendedCases DEF fv
<1>4. \A k \in 1 .. Len(fv) : /\ Final(fv[k]) => k = Len(ev) + 1
                              /\ fv[k].res # "ERROR" /\ fv[k].res # "ORIG"
  BY <1>2, <1>3 DEF Final
<1>5. \E k \in 1 .. Len(fv) : fv[k].res = "OK" /\ \A j \in 1 .. k : fv[j].res # "ORIG"
  <2>1. Len(ev) + 1 \in 1 .. Len(fv)
    BY <1>1
  <2>. QED  BY <1>1, <1>4, <2>1
<1>6. \A j, k \in 1 .. Len(fv) : Final(fv[j]) /\ Final(fv[k]) => j = k
  BY <1>4
<1>7. Lined(fv, nd, q)
  BY <1>4, <1>5, <1>6 DEF Lined
<1>. QED  BY <1>7 DEF fv

\* The call of an ATD has its index.
LEMMA LinedBegins ==
    ASSUME NEW ev \in Seq(Results), NEW e \in Results, e.res = "ORIG", NEW md, md, NEW nd, ~nd, NEW q,
           Lined(ev, md, q)
    PROVE  Lined(Append(ev, e), nd, q) /\ Pending(ev, md)
<1>. DEFINE fv == Append(ev, e)
<1>1. /\ Len(fv) = Len(ev) + 1 /\ Len(ev) \in Nat
      /\ \A k \in 1 .. Len(ev) : fv[k] = ev[k]
      /\ fv[Len(ev) + 1] = e
  BY AppendedAt
<1>. HIDE DEF fv
<1>2. \A k \in 1 .. Len(ev) : ev[k].res # "ORIG"
  BY DEF Lined
<1>3. Pending(ev, md) /\ ~Final(e) /\ e.res # "ERROR"
  BY DEF Pending, Final
<1>4. \A k \in 1 .. Len(fv) : (k = Len(ev) + 1 /\ fv[k] = e) \/ (k \in 1 .. Len(ev) /\ fv[k] = ev[k])
  BY AppendedCases DEF fv
<1>5. \A k \in 1 .. Len(fv) :
         /\ Final(fv[k]) \/ fv[k].res = "ERROR" => k \in 1 .. Len(ev) /\ fv[k] = ev[k]
         /\ fv[k].res = "ORIG" => k = Len(ev) + 1
  BY <1>2, <1>3, <1>4
<1>6. \A j, k \in 1 .. Len(fv) : Final(fv[j]) /\ Final(fv[k]) => j = k
  BY <1>5 DEF Lined
<1>7. \A k \in 1 .. Len(fv) :
         /\ Final(fv[k]) => q # <<>>
         /\ fv[k].res = "ERROR" => HeadCode(q) \notin CriticalCmds
         /\ fv[k].res = "ORIG" => ~nd /\ \A j \in 1 .. Len(fv) : fv[j].res = "ORIG" => j = k
  BY <1>5 DEF Lined
<1>8. ASSUME Dials(q) # {}
      PROVE  /\ HeadCode(q) = "D" /\ Dials(q) \subseteq {1}
             /\ \E k \in 1 .. Len(fv) : fv[k].res = "OK" /\ \A j \in 1 .. k : fv[j].res # "ORIG"
  <2>1. HeadCode(q) = "D" /\ Dials(q) \subseteq {1}
    BY <1>3, <1>8 DEF Lined
  <2>2. PICK k \in 1 .. Len(ev) : ev[k].res = "OK" /\ \A j \in 1 .. k : ev[j].res # "ORIG"
    BY <1>3, <1>8 DEF Lined
  <2>3. k \in 1 .. Len(fv) /\ \A j \in 1 .. k : j \in 1 .. Len(ev)
    BY <1>1
  <2>. QED  BY <1>1, <2>1, <2>2, <2>3
<1>9. Lined(fv, nd, q)
  BY <1>6, <1>7, <1>8 DEF Lined
<1>. QED  BY <1>3, <1>9 DEF fv

\* While an ATD is queued the call it is for is marked, whatever else is said.
LEMMA HeldDialing ==
    ASSUME NEW ev, NEW m, NEW md, NEW p, Held(ev, m, md, p), Dials(p.at_queue) # {}, NEW fv, NEW n, NEW nd,
           \A i \in CallIdx : Open(fv, n, 0, i) <=> Open(ev, m, 0, i)
    PROVE  Held(fv, n, nd, p)
<1>1. \A i : ~Stray(ev, m, p, i)
  BY DEF Held
<1>2. \A i : ~Stray(fv, n, p, i)
  BY <1>1 DEF Stray
<1>3. Underway(ev, m, md, p)
  BY DEF Underway
<1>4. \A c \in p.chans : p.cpvt[c].state # "INIT" => Open(fv, n, 0, p.cpvt[c].idx)
  BY DEF Held, OutCalls
<1>5. /\ OutCalls(p)
      /\ p.last_dialed # NoCpvt => p.last_dialed \in InState(p, "INIT")
      /\ QueueFor(p.at_queue, InState(p, "INIT"), Spared(p))
      /\ \E c \in InState(p, "INIT") : p.cpvt[c].called
      /\ ~Group295 => \A c \in p.chans : p.cpvt[c].channel => p.cpvt[c].need_hangup
  BY <1>3 DEF Held
<1>. QED  BY <1>2, <1>4, <1>5 DEF Held

\* What the modem says while it works on the head command.
LEMMA AnsweredLined ==
    ASSUME Calm, ModemOK, CallsOK(pvt), NEW I, NEW N, QueueFor(pvt.at_queue, I, N),
           Lined(events, mdial, pvt.at_queue), NEW a, Answered(a)
    PROVE  /\ Lined(events', mdial', pvt.at_queue)
           /\ Pending(events', mdial') => Pending(events, mdial)
<1>. DEFINE q == pvt.at_queue
<1>1. events \in Seq(Results) /\ DOMAIN events = 1 .. Len(events)
  BY DEF ModemOK
<1>2. ~QueueEmpty(pvt) /\ \A k \in 1 .. Len(events) : ~Final(events[k])
  BY <1>1 DEF Answered, Working, HeadWritten, Final
<1>3. q # <<>> /\ at_queue_head_cmd(pvt).cmd = HeadCode(q)
  BY <1>2, HeadFacts DEF QueueEmpty
<1>4. /\ a \in Results /\ Final(a)
      /\ a.res = "ERROR" => HeadCode(q) \in {"A", "D", "CHLD_2x", "CHLD_2"}
  <2>1. \/ a = OK
        \/ a = ERROR /\ at_queue_head_cmd(pvt).cmd \in {"A", "D", "CHLD_2x", "CHLD_2"}
    BY DEF Answered, Calm
  <2>2. OK.res = "OK" /\ ERROR.res = "ERROR"
    BY DEF OK, ERROR, Event
  <2>. QED  BY <1>3, <2>1, <2>2, EventType DEF Final
<1>5. a.res = "ERROR" => HeadCode(q) \notin CriticalCmds
  BY <1>4 DEF CriticalCmds
<1>. HIDE DEF q
<1>6. Lined(events, mdial, q)
  BY DEF q
<1>7. Lined(events', mdial, q) /\ (Pending(events', mdial) => Pending(events, mdial))
  <2>1. CASE events' = Append(events, a)
    BY <1>1, <1>2, <1>3, <1>4, <1>5, <1>6, <2>1, LinedAnswer
  <2>2. CASE \E e : SaysWith(e, a)
    <3>1. PICK e : SaysWith(e, a)
      BY <2>2
    <3>2. e \in Results /\ e.res \notin {"OK", "ERROR", "ORIG"}
      BY <3>1 DEF SaysWith, Chats
    <3>3. CASE events' = Append(Append(events, e), a)
      <4>. DEFINE fv == Append(events, e)
      <4>1. fv \in Seq(Results)
        BY <1>1, <3>2, AppendedAt
      <4>2. /\ Lined(fv, mdial, q) /\ (Pending(fv, mdial) => Pending(events, mdial))
            /\ \A k \in 1 .. Len(fv) : ~Final(fv[k])
        BY <1>1, <1>2, <1>6, <3>2, LinedQuiet
      <4>3. events' = Append(fv, a)
        BY <3>3
      <4>. HIDE DEF fv
      <4>4. Lined(Append(fv, a), mdial, q) /\ (Pending(Append(fv, a), mdial) => Pending(fv, mdial))
        BY <1>3, <1>4, <1>5, <4>1, <4>2, LinedAnswer
      <4>. QED  BY <4>2, <4>3, <4>4
    <3>4. CASE events' = Append(Append(events, a), e)
      <4>. DEFINE fv == Append(events, a)
      <4>1. fv \in Seq(Results)
        BY <1>1, <1>4, AppendedAt
      <4>2. Lined(fv, mdial, q) /\ (Pending(fv, mdial) => Pending(events, mdial))
        BY <1>1, <1>2, <1>3, <1>4, <1>5, <1>6, LinedAnswer
      <4>3. events' = Append(fv, e)
        BY <3>4
      <4>. HIDE DEF fv
      <4>4. Lined(Append(fv, e), mdial, q) /\ (Pending(Append(fv, e), mdial) => Pending(fv, mdial))
        BY <3>2, <4>1, <4>2, LinedQuiet
      <4>. QED  BY <4>2, <4>3, <4>4
    <3>. QED  BY <3>1, <3>3, <3>4 DEF SaysWith
  <2>. QED  BY <2>1, <2>2 DEF Answered
<1>8. mdial' => mdial
  BY DEF Answered
<1>9. Lined(events', mdial', q) /\ (Pending(events', mdial') => Pending(events', mdial))
  BY <1>7, <1>8, LinedLess
<1>. QED  BY <1>7, <1>9 DEF q

LEMMA ModemLined ==
    ASSUME Calm, ModemOK, CallsOK(pvt), NEW I, NEW N, QueueFor(pvt.at_queue, I, N),
           Lined(events, mdial, pvt.at_queue),
           \/ Chatted \/ Answered(OK) \/ Answered(ERROR) \/ DialTaken
           \/ \E x \in CallIdx : CallBegun(x) \/ CallOver(x)
    PROVE  /\ Lined(events', mdial', pvt.at_queue)
           /\ \/ Pending(events', mdial') => Pending(events, mdial)
              \/ Dials(pvt.at_queue) # {}
<1>1. events \in Seq(Results) /\ DOMAIN events = 1 .. Len(events)
  BY DEF ModemOK
<1>2. CASE Chatted
  <2>1. CASE UNCHANGED events
    BY <1>2, <2>1 DEF Chatted
  <2>2. CASE \E e : Chats(e, mcall) /\ events' = Append(events, e)
    <3>1. PICK e : Chats(e, mcall) /\ events' = Append(events, e)
      BY <2>2
    <3>2. e \in Results /\ e.res \notin {"OK", "ERROR", "ORIG"}
      BY <3>1 DEF Chats
    <3>3. mdial' = mdial
      BY <1>2 DEF Chatted
    <3>. QED  BY <1>1, <3>1, <3>2, <3>3, LinedQuiet
  <2>. QED  BY <1>2, <2>1, <2>2 DEF Chatted
<1>3. CASE Answered(OK) \/ Answered(ERROR)
  BY <1>3, AnsweredLined
<1>4. CASE DialTaken
  <2>1. /\ ~QueueEmpty(pvt) /\ at_queue_head_cmd(pvt).cmd = "D" /\ events' = Append(events, OK)
        /\ \A k \in 1 .. Len(events) : ~Final(events[k])
    BY <1>1, <1>4 DEF DialTaken, Working, HeadWritten, Final
  <2>2. HeadCode(pvt.at_queue) = "D" /\ 1 \in Dials(pvt.at_queue)
    BY <2>1, HeadFacts
  <2>3. Dials(pvt.at_queue) = {1}
    BY <2>2 DEF QueueFor
  <2>4. pvt.at_queue # <<>>
    BY <2>1 DEF QueueEmpty
  <2>5. OK \in Results /\ OK.res = "OK"
    BY EventType DEF OK, Event
  <2>6. Lined(Append(events, OK), mdial', pvt.at_queue)
    BY <1>1, <2>1, <2>2, <2>3, <2>4, <2>5, LinedDial
  <2>. QED  BY <2>1, <2>3, <2>6
<1>5. CASE \E x \in CallIdx : CallBegun(x)
  <2>1. PICK x \in CallIdx : CallBegun(x)
    BY <1>5
  <2>. DEFINE e == Event("ORIG", x)
  <2>2. e \in Results /\ e.res = "ORIG"
    BY EventType DEF Event
  <2>3. mdial /\ ~mdial' /\ events' = Append(events, e)
    BY <2>1 DEF CallBegun
  <2>. HIDE DEF e
  <2>4. Lined(Append(events, e), mdial', pvt.at_queue) /\ Pending(events, mdial)
    BY <1>1, <2>2, <2>3, LinedBegins
  <2>. QED  BY <2>3, <2>4
<1>6. CASE \E x \in CallIdx : CallOver(x)
  <2>1. PICK x \in CallIdx : CallOver(x)
    BY <1>6
  <2>. DEFINE e == Event("CEND", x)
  <2>2. e \in Results /\ e.res \notin {"OK", "ERROR", "ORIG"}
    BY EventType DEF Event
  <2>3. mdial' = mdial /\ (events' = Append(events, e) \/ events' = events)
    BY <2>1 DEF CallOver
  <2>. HIDE DEF e
  <2>4. /\ Lined(Append(events, e), mdial, pvt.at_queue)
        /\ Pending(Append(events, e), mdial) => Pending(events, mdial)
    BY <1>1, <2>2, LinedQuiet
  <2>. QED  BY <2>3, <2>4
<1>. QED  BY <1>2, <1>3, <1>4, <1>5, <1>6

\* The modem goes on with its calls.
LEMMA PlacedModem == ASSUME Calm, IInv, Placed, ModemNext PROVE Placed'
<1>1. CallsOK(pvt) /\ ModemOK /\ OutCalls(pvt)
  BY IInvParts DEF Good, Placed
<1>2. CASE ModemResets
  <2>1. pvt' = pvt /\ events' = <<>> /\ ~mdial' /\ conn' = "lost" /\ \A i \in CallIdx : mcall'[i] = NoCall
    BY <1>2 DEF ModemResets
  <2>2. \A i \in CallIdx : ~There(mcall', i)
    BY <2>1 DEF There, NoCall
  <2>. QED  BY <1>1, <2>1, <2>2 DEF Placed, Resting
<1>3. CASE /\ UNCHANGED <<pvt, threads, conn>> /\ conn = "up"
           /\ \/ Chatted \/ Answered(OK) \/ Answered(ERROR) \/ DialTaken
              \/ \E x \in CallIdx : CallBegun(x) \/ CallOver(x) \/ CallComes(x)
  <2>1. Held(events, mcall, mdial, pvt) /\ Spoken(events, mcall, mdial, pvt.at_queue)
    BY <1>3 DEF Placed, HeldNow
  <2>2. "incoming" \notin Features /\ "silent" \notin Faults /\ \A x : ~CallComes(x)
    BY DEF Calm, CallComes
  <2>3. GoesOnAlone(events, mcall, events', mcall')
    BY <1>1, <1>3, <2>2, StoryGoesOn
  <2>4. \A i \in CallIdx : Open(events', mcall', 0, i) <=> Open(events, mcall, 0, i)
    BY <2>3 DEF GoesOnAlone, GoesOn
  <2>5. /\ Told(events, mcall) /\ Over(events, mcall) /\ OneWay(events, mcall, "outgoing")
        /\ Lined(events, mdial, pvt.at_queue)
    BY <2>1, SpokenParts
  <2>6. Told(events', mcall') /\ Over(events', mcall')
    BY <2>3, <2>5 DEF GoesOnAlone, GoesOn
  <2>7. OneWay(events', mcall', "outgoing")
    BY <1>1, <1>3, <2>2, <2>5, OneWayModem
  <2>8. /\ Lined(events', mdial', pvt.at_queue)
        /\ \/ Pending(events', mdial') => Pending(events, mdial)
           \/ Dials(pvt.at_queue) # {}
    <3>1. QueueFor(pvt.at_queue, InState(pvt, "INIT"), Spared(pvt))
      BY <2>1 DEF Held
    <3>. QED  BY <1>1, <1>3, <2>2, <2>5, <3>1, ModemLined
  <2>9. Spoken(events', mcall', mdial', pvt.at_queue)
    BY <2>6, <2>7, <2>8, SpokenParts
  <2>10. Held(events', mcall', mdial', pvt)
    <3>1. CASE Pending(events', mdial') => Pending(events, mdial)
      <4>1. Follows(pvt, pvt)
        BY FollowsTransitive
      <4>2. \A c \in pvt.chans : pvt.cpvt[c].state # "INIT" => Open(events', mcall', 0, pvt.cpvt[c].idx)
        BY <1>1, <2>1, <2>4 DEF Held, OutCalls
      <4>. QED  BY <2>1, <2>4, <3>1, <4>1, <4>2, HeldOn
    <3>2. CASE Dials(pvt.at_queue) # {}
      BY <2>1, <2>4, <3>2, HeldDialing
    <3>. QED  BY <2>8, <3>1, <3>2
  <2>. QED  BY <1>1, <1>3, <2>9, <2>10 DEF Placed, HeldNow, Resting
<1>. QED  BY <1>1, <1>2, <1>3, ModemKinds

LEMMA PlacedStep ==
    ASSUME Calm, IInv, Placed, NumberFree, OneInit(pvt), OneInit(pvt'), [Next]_vars
    PROVE  Placed'
<1>1. CASE UNCHANGED vars
  <2>1. UNCHANGED <<pvt, conn, events, mcall, mdial>>
    BY <1>1 DEF vars, modem
  <2>. QED  BY <2>1, PlacedStill
<1>2. CASE ThreadNext
  BY <1>2, PlacedThread
<1>3. CASE MonitorNext
  <2>1. CASE MonitorReads
    BY <2>1, PlacedRead
  <2>2. CASE \/ MonitorCleanup \/ DisconnectEnds \/ Reconnect
             \/ \E c \in CpvtId : DisconnectReleases(c)
    BY <2>2, PlacedLost
  <2>. QED  BY <1>3, <2>1, <2>2 DEF MonitorNext, MonitorReads
<1>4. CASE ModemNext
  BY <1>4, PlacedModem
<1>. QED  BY <1>1, <1>2, <1>3, <1>4 DEF Next

LEMMA PlacedInit == Init => Placed
<1>. SUFFICES ASSUME Init PROVE Placed
  OBVIOUS
<1>1. /\ pvt.chans = {} /\ pvt.at_queue = <<>> /\ pvt.last_dialed = NoCpvt
      /\ events = <<>> /\ ~mdial /\ conn = "up"
  BY DEF Init, NoCalls
<1>2. \A i \in CallIdx : ~There(mcall, i)
  BY DEF Init, There, NoCall
<1>3. OutCalls(pvt)
  BY <1>1 DEF OutCalls
<1>4. Held(events, mcall, mdial, pvt) /\ Spoken(events, mcall, mdial, pvt.at_queue)
  BY <1>1, <1>2, <1>3, QuietPlaced
<1>. QED  BY <1>1, <1>3, <1>4 DEF Placed, HeldNow, Resting

\* No context of q is new or has another number than in p.
SameNumbers(p, q) == \A c \in q.chans : c \in p.chans /\ q.cpvt[c].idx = p.cpvt[c].idx

LEMMA NumbersKept ==
    ASSUME NEW p, p.chans \subseteq CpvtId, NEW q, NEW r, NEW c, NEW new
    PROVE  /\ SameCalls(p, q) => SameNumbers(p, q)
           /\ Changed(p, q, c, new) => SameNumbers(p, q)
           /\ Released(p, q, c) => SameNumbers(p, q)
           /\ SameNumbers(p, q) /\ SameNumbers(q, r) => SameNumbers(p, r)
BY DEF SameCalls, Changed, Released, Alike, SameNumbers

\* A handler left the device as p.
LEMMA HandledNumbers ==
    ASSUME NEW p, CallsOK(p), SameNumbers(pvt, p), NEW ok \in BOOLEAN, NEW fatal \in BOOLEAN,
           Handled(p, ok, fatal)
    PROVE  SameNumbers(pvt, pvt') /\ UNCHANGED threads
<1>1. SameCalls(p, pvt') /\ UNCHANGED threads
  BY HandledEffect
<1>. QED  BY <1>1 DEF SameCalls, SameNumbers

\* A handler leaves the threads' notes alone.
LEMMA ReadThreads == ASSUME MonitorReads PROVE UNCHANGED threads
BY DEF MonitorReads, at_response_ok, at_response_error, at_response_orig, at_response_cend,
       at_response_conn, at_response_ring, at_response_ccwa, at_response_clcc, Handled

\* While no call is being set up, what the monitor reads renumbers none.
LEMMA ReadNumbers ==
    ASSUME Calm, IInv, Placed, InState(pvt, "INIT") = {}, MonitorReads
    PROVE  SameNumbers(pvt, pvt') /\ UNCHANGED threads
<1>1. PICK res : Reads(res)
  BY DEF MonitorReads, at_response_ok, at_response_error, at_response_orig, at_response_cend,
         at_response_conn, at_response_ring, at_response_ccwa, at_response_clcc
<1>2. /\ Good(CpvtId, pvt) /\ CallsOK(pvt) /\ pvt \in Pvts /\ events \in Seq(Results)
      /\ events # <<>> /\ Head(events) = events[1] /\ events[1] \in Results /\ events[1].res = res
      /\ Held(events, mcall, mdial, pvt) /\ Spoken(events, mcall, mdial, pvt.at_queue)
      /\ \A ok \in WriteOutcomes : ok = TRUE
  BY <1>1, PlacedReads
<1>3. pvt.chans \subseteq CpvtId /\ NoCpvt \notin pvt.chans /\ pvt.last_dialed = NoCpvt
  BY <1>2, NoCpvtAssumption DEF Pvts, Held
<1>4. SameNumbers(pvt, pvt)
  BY DEF SameNumbers
<1>5. CASE at_response_ok
  <2>. DEFINE c == at_queue_head_task(pvt).cpvt
              a == Acknowledged(pvt, c)
              b == at_queue_remove_cmd(a, "OK")
  <2>1. PICK ok \in WriteOutcomes : Handled(IF QueueEmpty(pvt) THEN pvt ELSE b, ok, FALSE)
    BY <1>5 DEF at_response_ok
  <2>2. CASE QueueEmpty(pvt)
    BY <1>2, <1>4, <2>1, <2>2, HandledNumbers
  <2>3. CASE ~QueueEmpty(pvt)
    <3>1. QueueFor(pvt.at_queue, InState(pvt, "INIT"), Spared(pvt))
      BY <1>2 DEF Held
    <3>2. c \in pvt.chans \union {sys_chan}
      BY <1>2, <2>3, <3>1, HeadFacts
    <3>3. CallsOK(a) /\ Acks(pvt, a, c, HeadCode(pvt.at_queue))
      BY <1>2, <2>3, <3>2, AcknowledgedEffect
    <3>. HIDE DEF a, c
    <3>4. SameNumbers(pvt, a) /\ a.chans \subseteq CpvtId
      BY <1>3, <3>3 DEF Acks, SameNumbers
    <3>5. SameCalls(a, b) /\ CallsOK(b)
      BY <3>3, RemoveCmdQueue, MeekRemoved
    <3>6. Handled(b, ok, FALSE)
      BY <2>1, <2>3
    <3>. HIDE DEF b
    <3>7. SameNumbers(pvt, b)
      BY <1>3, <3>4, <3>5, NumbersKept
    <3>. QED  BY <1>2, <3>5, <3>6, <3>7, HandledNumbers
  <2>. QED  BY <2>2, <2>3
<1>6. CASE at_response_orig
  <2>1. PICK ok \in WriteOutcomes : Handled(Originated(pvt, events[1].idx, ok), ok, FALSE)
    BY <1>2, <1>6 DEF at_response_orig
  <2>. DEFINE q == Originated(pvt, events[1].idx, ok)
  <2>2. ok \in BOOLEAN /\ events[1].idx \in 0 .. MaxCallIdx
    BY <1>2 DEF Results
  <2>3. SameCalls(pvt, q)
    BY <1>2, <1>3, <2>2, OriginatedEffect
  <2>4. CallsOK(q)
    BY <1>2, <2>2, OriginatedGood DEF Good
  <2>5. Handled(q, ok, FALSE)
    BY <2>1
  <2>. HIDE DEF q
  <2>6. SameNumbers(pvt, q)
    BY <1>3, <2>3, NumbersKept
  <2>. QED  BY <2>2, <2>4, <2>5, <2>6, HandledNumbers
<1>7. CASE at_response_cend
  <2>1. PICK ok \in WriteOutcomes, c \in pvt_find_cpvt(pvt, events[1].idx) :
           Handled(Ended(pvt, c, ok), ok, FALSE)
    BY <1>2, <1>7 DEF at_response_cend
  <2>. DEFINE q == Ended(pvt, c, ok)
  <2>2. ok \in BOOLEAN /\ c \in pvt.chans \union {NoCpvt}
    BY <1>2, <2>1, Found
  <2>3. c # NoCpvt => pvt.cpvt[c].state # "RELEASED"
    BY <1>2, <2>2 DEF Held, OutCalls
  <2>4. SameCalls(pvt, q) \/ Released(pvt, q, c)
    BY <1>2, <2>2, <2>3, EndedEffect
  <2>5. CallsOK(q)
    BY <1>2, <2>2, EndedGood DEF Good
  <2>6. Handled(q, ok, FALSE)
    BY <2>1
  <2>. HIDE DEF q
  <2>7. SameNumbers(pvt, q)
    BY <1>3, <2>4, NumbersKept
  <2>. QED  BY <2>2, <2>5, <2>6, <2>7, HandledNumbers
<1>8. CASE at_response_conn
  <2>1. PICK ok \in WriteOutcomes, c \in pvt_find_cpvt(pvt, events[1].idx) :
           Handled(Connected(pvt, c, ok), ok, FALSE)
    BY <1>2, <1>8 DEF at_response_conn
  <2>. DEFINE q == Connected(pvt, c, ok)
  <2>2. ok \in BOOLEAN /\ c \in pvt.chans \union {NoCpvt}
    BY <1>2, <2>1, Found
  <2>3. SameCalls(pvt, q) \/ Changed(pvt, q, c, "ACTIVE")
    BY <1>2, <2>2, ConnectedEffect
  <2>4. CallsOK(q)
    BY <1>2, <2>2, ConnectedGood DEF Good
  <2>5. Handled(q, ok, FALSE)
    BY <2>1
  <2>. HIDE DEF q
  <2>6. SameNumbers(pvt, q)
    BY <1>3, <2>3, NumbersKept
  <2>. QED  BY <2>2, <2>4, <2>5, <2>6, HandledNumbers
<1>9. CASE at_response_error
  <2>. DEFINE c == at_queue_head_task(pvt).cpvt
              fatal == at_queue_head_cmd(pvt).cmd \in CriticalCmds
              a(ok) == IF DialFailed(pvt) THEN Insert(pvt, c, at_enque_cmd_proc, ok) ELSE pvt
              b(ok) == at_queue_remove_cmd(a(ok), "ERROR")
  <2>1. PICK ok \in BOOLEAN : \/ QueueEmpty(pvt) /\ Handled(pvt, ok, FALSE)
                              \/ ~QueueEmpty(pvt) /\ Handled(b(ok), ok, fatal)
    BY <1>2, <1>9 DEF at_response_error
  <2>2. CASE QueueEmpty(pvt)
    <3>1. FALSE \in BOOLEAN
      OBVIOUS
    <3>. QED  BY <1>2, <1>4, <2>1, <2>2, <3>1, HandledNumbers
  <2>3. CASE ~QueueEmpty(pvt)
    <3>1. Handled(b(ok), ok, fatal)
      BY <2>1, <2>3
    <3>2. fatal \in BOOLEAN
      OBVIOUS
    <3>. HIDE DEF fatal
    <3>3. QueueFor(pvt.at_queue, InState(pvt, "INIT"), Spared(pvt))
      BY <1>2 DEF Held
    <3>4. c \in pvt.chans \union {sys_chan}
      BY <1>2, <2>3, <3>3, HeadFacts
    <3>5. FineJob(at_enque_cmd_proc) /\ {"D", "CHUP"} \intersect Codes(at_enque_cmd_proc) = {}
      BY JobsFine
    <3>. DEFINE r == Insert(pvt, c, at_enque_cmd_proc, ok)
    <3>. HIDE DEF c
    <3>6. SameCalls(pvt, r) /\ CallsOK(r)
      BY <1>2, <3>4, <3>5, InsertQueue
    <3>7. SameCalls(pvt, a(ok)) /\ CallsOK(a(ok))
      BY <1>2, <3>6, SameCallsTransitive
    <3>. HIDE DEF a
    <3>8. SameCalls(a(ok), b(ok)) /\ CallsOK(b(ok))
      BY <3>7, RemoveCmdQueue, MeekRemoved
    <3>. HIDE DEF b
    <3>9. SameNumbers(pvt, b(ok))
      BY <1>3, <3>7, <3>8, SameCallsTransitive, NumbersKept
    <3>. QED  BY <3>1, <3>2, <3>8, <3>9, HandledNumbers
  <2>. QED  BY <2>2, <2>3
<1>10. CASE at_response_ring \/ at_response_ccwa
  <2>1. PICK ok \in BOOLEAN, dialing \in BOOLEAN, ring \in BOOLEAN, cwaiting \in BOOLEAN :
           Handled(request_clcc(Reflagged(pvt, dialing, ring, cwaiting, pvt.last_dialed), ok), ok, FALSE)
    BY <1>2, <1>10, RingsReflag
  <2>. DEFINE q == request_clcc(Reflagged(pvt, dialing, ring, cwaiting, pvt.last_dialed), ok)
  <2>2. SameCalls(pvt, q) /\ CallsOK(q)
    BY <1>2, MeekRings
  <2>3. Handled(q, ok, FALSE)
    BY <2>1
  <2>. HIDE DEF q
  <2>4. SameNumbers(pvt, q)
    BY <1>3, <2>2, NumbersKept
  <2>. QED  BY <2>2, <2>3, <2>4, HandledNumbers
<1>11. CASE at_response_clcc
  <2>1. PICK n \in CallIdx, ok \in BOOLEAN :
           /\ n \in DOMAIN events[1].lines
           /\ events[1].lines[n] \in Line
           /\ \E q \in Listed(pvt, events[1].lines[n], ok) :
                 \/ Handled(FlagsListed(q, events[1].lines[n].state), ok, FALSE)
                 \/ pvt' = FlagsListed(q, events[1].lines[n].state) /\ UNCHANGED threads
    BY <1>2, <1>11, LineHandled, IInvParts
  <2>. DEFINE l == events[1].lines[n]
  <2>2. PICK q \in Listed(pvt, l, ok) :
           \/ Handled(FlagsListed(q, l.state), ok, FALSE)
           \/ pvt' = FlagsListed(q, l.state) /\ UNCHANGED threads
    BY <2>1
  <2>3. l \in Line /\ l.dir = "outgoing"
    <3>1. AllSay(events, "outgoing")
      BY <1>2 DEF Spoken, OneWay
    <3>2. SaysOf(events[1], "outgoing")
      BY <1>2, <3>1, TailSays
    <3>3. events[1].res = "CLCC"
      BY <1>11, IInvParts, LineHandled
    <3>. QED  BY <2>1, <3>2, <3>3 DEF SaysOf
  <2>. DEFINE p == FlagsListed(q, l.state)
  <2>4. Handled(p, ok, FALSE) \/ (pvt' = p /\ UNCHANGED threads)
    BY <2>2
  <2>. HIDE DEF l
  <2>5. CallsOK(q)
    BY <1>2, <2>3, ListedGood DEF Good
  <2>6. SameNumbers(pvt, q)
    BY <1>2, <1>3, <2>3, ListedEffect, NumbersKept DEF Comes
  <2>7. SameCalls(q, p) /\ CallsOK(p)
    BY <2>5, FlagsListedEffect
  <2>. HIDE DEF p
  <2>8. SameNumbers(pvt, p)
    BY <1>3, <2>6, <2>7 DEF SameCalls, SameNumbers
  <2>. QED  BY <2>4, <2>7, <2>8, HandledNumbers
<1>. QED  BY <1>5, <1>6, <1>7, <1>8, <1>9, <1>10, <1>11 DEF MonitorReads

\* Nor do Asterisk's threads, but one that makes a context.
LEMMA ThreadNumbers ==
    ASSUME Calm, IInv, Placed, ThreadNext, ~ \E d \in Dialer : channel_request(d)
    PROVE  SameNumbers(pvt, pvt')
<1>1. /\ CallsOK(pvt) /\ pvt \in Pvts /\ pvt.chans \subseteq CpvtId /\ WriteOutcomes \subseteq BOOLEAN
      /\ \A c \in pvt.chans : pvt.cpvt[c].dir = "outgoing"
  BY PlacedThreads DEF OutCalls
<1>2. ASSUME UNCHANGED pvt PROVE SameNumbers(pvt, pvt')
  BY <1>2 DEF SameNumbers
<1>3. ASSUME \E d \in Dialer : NumberRead(d) \/ \E opts \in DialOpts : SelectDevice(d, opts)
      PROVE  SameNumbers(pvt, pvt')
  BY <1>2, <1>3 DEF NumberRead, SelectDevice
<1>4. ASSUME FindDeviceExt \/ \E c \in CpvtId : channel_hangup_enters(c)
      PROVE  SameNumbers(pvt, pvt')
  BY <1>2, <1>4 DEF FindDeviceExt, channel_hangup_enters
<1>5. ASSUME NEW c \in CpvtId, channel_answer(c) PROVE FALSE
  BY <1>1, <1>5 DEF channel_answer, HasChannel
<1>6. ASSUME NEW c \in CpvtId, channel_func_write(c) PROVE SameNumbers(pvt, pvt')
  <2>1. PICK ok \in BOOLEAN : pvt' = Insert(pvt, c, at_enque_activate, ok)
    BY <1>1, <1>6 DEF channel_func_write
  <2>2. c \in pvt.chans \union {sys_chan}
    BY <1>6 DEF channel_func_write, HasChannel
  <2>3. FineJob(at_enque_activate) /\ {"D", "CHUP"} \intersect Codes(at_enque_activate) = {}
    BY JobsFine
  <2>4. SameCalls(pvt, pvt')
    BY <1>1, <2>1, <2>2, <2>3, InsertQueue
  <2>. QED  BY <1>1, <2>4, NumbersKept
<1>7. ASSUME OtherJob PROVE SameNumbers(pvt, pvt')
  <2>1. PICK ok \in BOOLEAN : pvt' = Insert(pvt, sys_chan, at_enque_ping, ok)
    BY <1>1, <1>7 DEF OtherJob
  <2>2. sys_chan \in pvt.chans \union {sys_chan}
    OBVIOUS
  <2>3. FineJob(at_enque_ping) /\ {"D", "CHUP"} \intersect Codes(at_enque_ping) = {}
    BY JobsFine
  <2>4. SameCalls(pvt, pvt')
    BY <1>1, <2>1, <2>2, <2>3, InsertQueue
  <2>. QED  BY <1>1, <2>4, NumbersKept
<1>8. ASSUME NEW c \in CpvtId, channel_hangup(c) PROVE SameNumbers(pvt, pvt')
  <2>1. PICK ok \in BOOLEAN : pvt' = HungUp(pvt, c, ok)
    BY <1>1, <1>8 DEF channel_hangup
  <2>2. c \in pvt.chans
    BY <1>8 DEF channel_hangup, HasChannel
  <2>3. HangsUp(pvt, pvt', c)
    BY <1>1, <2>1, <2>2, HungUpEffect
  <2>. QED  BY <1>1, <2>3 DEF HangsUp, SameNumbers
<1>9. ASSUME NEW c \in CpvtId, channel_call(c) PROVE SameNumbers(pvt, pvt')
  <2>. DEFINE f == [pvt EXCEPT !.cpvt[c].called = TRUE]
  <2>1. PICK clir \in Clir, ok \in WriteOutcomes : pvt' = Dialed(f, c, clir, ok)
    BY <1>9 DEF channel_call
  <2>2. c \in pvt.chans /\ clir \in BOOLEAN /\ ok \in BOOLEAN
    BY <1>1, <1>9, ClirAssumption DEF channel_call, HasChannel
  <2>3. CallsOK(f) /\ Noted(pvt, f, c) /\ RestSame(pvt, f) /\ f.cpvt[c].idx = pvt.cpvt[c].idx
    BY <1>1, <2>2, CalledEffect
  <2>. HIDE DEF f
  <2>4. DialsFor(f, pvt', c, ok)
    BY <2>1, <2>2, <2>3, DialedEffect DEF RestSame
  <2>5. /\ pvt'.chans = pvt.chans
        /\ \A d \in CpvtId : pvt'.cpvt[d].idx = pvt.cpvt[d].idx
    BY <2>3, <2>4 DEF DialsFor, Noted, Alike
  <2>. QED  BY <1>1, <2>5 DEF SameNumbers
<1>. QED  BY <1>3, <1>4, <1>5, <1>6, <1>7, <1>8, <1>9 DEF ThreadNext

\* Nor does the loss of the device.
LEMMA LostNumbers ==
    ASSUME Calm, IInv, Placed,
           \/ MonitorCleanup \/ DisconnectEnds \/ Reconnect
           \/ \E c \in CpvtId : DisconnectReleases(c)
    PROVE  SameNumbers(pvt, pvt') /\ UNCHANGED <<request, number>>
<1>1. pvt \in Pvts /\ pvt.chans \subseteq CpvtId /\ OutCalls(pvt)
  BY PlacedThreads
<1>2. CASE MonitorCleanup \/ Reconnect
  BY <1>2 DEF MonitorCleanup, Reconnect, threads, SameNumbers
<1>3. CASE DisconnectEnds
  <2>1. pvt'.chans = {}
    BY <1>1, <1>3 DEF DisconnectEnds, at_queue_flush, Pvts
  <2>. QED  BY <1>3, <2>1 DEF DisconnectEnds, SameNumbers
<1>4. ASSUME NEW c \in CpvtId, DisconnectReleases(c)
      PROVE  SameNumbers(pvt, pvt') /\ UNCHANGED <<request, number>>
  <2>. DEFINE off == FALSE
              f == NeedHangup(pvt, c, off)
  <2>1. /\ c \in CpvtId \union {sys_chan} /\ c \in pvt.chans /\ off \in BOOLEAN
        /\ UNCHANGED <<request, number>>
    BY <1>4 DEF DisconnectReleases, threads
  <2>2. pvt' = change_channel_state(f, c, "RELEASED")
    BY <1>4 DEF DisconnectReleases
  <2>. HIDE DEF off
  <2>3. Marked(pvt, f, c, off) /\ f \in Pvts
    BY <1>1, <2>1, NeedHangupEffect
  <2>. HIDE DEF f
  <2>4. /\ f.chans = pvt.chans
        /\ \A d \in CpvtId : f.cpvt[d].idx = pvt.cpvt[d].idx /\ f.cpvt[d].state = pvt.cpvt[d].state
    BY <2>3 DEF Marked, RestSame
  <2>5. c \in f.chans /\ f.cpvt[c].state # "RELEASED"
    BY <1>1, <2>1, <2>4 DEF OutCalls
  <2>6. Released(f, pvt', c)
    BY <2>2, <2>3, <2>5, ReleaseEffect
  <2>7. SameNumbers(f, pvt')
    BY <1>1, <2>4, <2>6, NumbersKept
  <2>. QED  BY <1>1, <2>1, <2>4, <2>7 DEF SameNumbers
<1>. QED  BY <1>2, <1>3, <1>4

\* The number a thread has read stays free until it has made its context: while
\* only one call is set up at a time, nobody else can take it.
LEMMA NumberFreeStep ==
    ASSUME Calm, IInv, Placed, NumberFree, OneSetUp, [Next]_vars
    PROVE  NumberFree'
<1>1. /\ number \in [Dialer -> 0 .. MaxCallIdx \union {NoNumber}]
      /\ request \in [Dialer -> Opts \union {NoRequest}]
  BY IInvParts DEF RestOK
<1>2. ASSUME SameNumbers(pvt, pvt'), UNCHANGED <<request, number>>
      PROVE  NumberFree'
  BY <1>2 DEF NumberFree, SameNumbers, WithIdx
<1>3. CASE UNCHANGED vars
  <2>1. pvt' = pvt /\ UNCHANGED <<request, number>>
    BY <1>3 DEF vars, threads
  <2>. QED  BY <1>2, <2>1 DEF SameNumbers
<1>4. ASSUME NEW d \in Dialer, NumberRead(d) PROVE NumberFree'
  <2>1. /\ request[d] # NoRequest /\ request' = request /\ pvt' = pvt
        /\ number' = [number EXCEPT ![d] = pvt_get_pseudo_call_idx(pvt)]
    BY <1>4 DEF NumberRead
  <2>2. pvt_get_pseudo_call_idx(pvt) # 0 => WithIdx(pvt, pvt_get_pseudo_call_idx(pvt)) = {}
    BY PseudoIdx
  <2>. QED  BY <1>1, <2>1, <2>2 DEF NumberFree
<1>5. ASSUME NEW d \in Dialer, channel_request(d) PROVE NumberFree'
  <2>1. request[d] # NoRequest /\ number' = [number EXCEPT ![d] = NoNumber]
    BY <1>5 DEF channel_request
  <2>2. \A e \in Dialer : number[e] # NoNumber => e = d
    BY <2>1 DEF NumberFree, OneSetUp
  <2>. QED  BY <1>1, <2>1, <2>2 DEF NumberFree
<1>6. ASSUME NEW d \in Dialer, NEW opts \in DialOpts, SelectDevice(d, opts) PROVE NumberFree'
  <2>1. /\ request' = [request EXCEPT ![d] = opts] /\ number' = number /\ pvt' = pvt
        /\ opts # NoRequest
    BY <1>6, DialOptsAssumption, NoRequestAssumption DEF SelectDevice
  <2>. QED  BY <1>1, <2>1 DEF NumberFree
<1>7. CASE \A d \in Dialer : number[d] = NoNumber /\ number'[d] = NoNumber
  BY <1>7 DEF NumberFree
<1>8. CASE /\ ThreadNext
           /\ ~ \E d \in Dialer : \/ NumberRead(d) \/ channel_request(d)
                                  \/ \E opts \in DialOpts : SelectDevice(d, opts)
  <2>1. UNCHANGED <<request, number>>
    BY <1>8 DEF ThreadNext, channel_call, channel_answer, channel_func_write, channel_hangup,
                channel_hangup_enters, FindDeviceExt, OtherJob, threads
  <2>2. SameNumbers(pvt, pvt')
    BY <1>8, ThreadNumbers
  <2>. QED  BY <1>2, <2>1, <2>2
<1>9. CASE MonitorReads
  <2>1. UNCHANGED <<request, number>>
    BY <1>9, ReadThreads DEF threads
  <2>2. CASE InState(pvt, "INIT") = {}
    BY <1>2, <1>9, <2>1, <2>2, ReadNumbers
  <2>3. CASE InState(pvt, "INIT") # {}
    <3>1. \A d \in Dialer : number[d] = NoNumber
      BY <2>3 DEF NumberFree, OneSetUp
    <3>. QED  BY <1>7, <2>1, <3>1
  <2>. QED  BY <2>2, <2>3
<1>10. CASE \/ MonitorCleanup \/ DisconnectEnds \/ Reconnect
            \/ \E c \in CpvtId : DisconnectReleases(c)
  BY <1>2, <1>10, LostNumbers
<1>11. CASE ModemNext
  <2>1. pvt' = pvt /\ UNCHANGED <<request, number>>
    BY <1>11, IInvParts, ModemKinds DEF ModemResets, threads
  <2>. QED  BY <1>2, <2>1 DEF SameNumbers
<1>. QED  BY <1>3, <1>4, <1>5, <1>6, <1>8, <1>9, <1>10, <1>11 DEF Next, MonitorNext, MonitorReads

LEMMA PlacedAlways == ASSUME Calm PROVE Spec /\ []OneSetUp => []Placed
<1>1. Init => Placed /\ NumberFree
  <2>1. Init => NumberFree
    BY DEF Init, NumberFree
  <2>. QED  BY <2>1, PlacedInit
<1>2. IInv /\ OneSetUp /\ OneSetUp' /\ Placed /\ NumberFree /\ [Next]_vars => Placed' /\ NumberFree'
  <2>1. OneSetUp => OneInit(pvt)
    BY DEF OneSetUp, OneInit
  <2>2. OneSetUp' => OneInit(pvt')
    BY DEF OneSetUp, OneInit
  <2>. QED  BY <2>1, <2>2, PlacedStep, NumberFreeStep
<1>. QED  BY <1>1, <1>2, CallsKept, PTL DEF Spec

\* While only one call is set up at a time (OneSetUp: from the selection of the
\* device until the context is dialed), a search for a call index (^CEND, ^CONN
\* and the lines of +CLCC are all looked up by it) finds one context: the number
\* that channel_request reads without the lock is still free when its context is
\* made, and ^ORIG gives the context the modem's, so that no two are alike
\* whichever hangups and answers overtake each other.
THEOREM PlacedIdxUnique == ASSUME Calm PROVE Spec /\ []OneSetUp => []CallIdxUnique
<1>1. Placed => CallIdxUnique
  BY DEF Placed, OutCalls, CallIdxUnique
<1>. QED  BY <1>1, PlacedAlways, PTL

\* While only one call is set up at a time, an outgoing call that rings or is
\* connected was dialed: an ^ORIG, ^CONN or line of +CLCC that comes late, for a
\* call that was hung up meanwhile, is not taken for the context set up since.
THEOREM PlacedDialed == ASSUME Calm PROVE Spec /\ []OneSetUp => []OnlyDialedConnect
<1>1. Placed => OnlyDialedConnect
  BY DEF Placed, OutCalls, OnlyDialedConnect
<1>. QED  BY <1>1, PlacedAlways, PTL

\* While only one call is set up at a time, and the modem tells the end of its
\* calls, a context that has the modem's number stands for a call the modem has or
\* one whose ^CEND was not read: no ^CEND is missed because it came before the
\* context had its number, or went to another one.
THEOREM PlacedBacked == ASSUME Calm PROVE Spec /\ []OneSetUp => []NoZombies
<1>1. ASSUME IInv, Placed PROVE NoZombies
  <2>. SUFFICES ASSUME conn = "up", NEW c \in pvt.chans, pvt.cpvt[c].state # "INIT" PROVE Backed(c)
    BY DEF NoZombies
  <2>. DEFINE i == pvt.cpvt[c].idx
  <2>1. Held(events, mcall, mdial, pvt) /\ OneWay(events, mcall, "outgoing")
    BY <1>1 DEF Placed, HeldNow, Spoken
  <2>2. i \in CallIdx /\ pvt.cpvt[c].dir = "outgoing" /\ Open(events, mcall, 0, i)
    BY <2>1 DEF Held, OutCalls
  <2>3. DOMAIN events = 1 .. Len(events)
    BY <1>1, IInvParts DEF ModemOK
  <2>4. CASE There(mcall, i)
    BY <2>1, <2>2, <2>4 DEF Backed, There, OneWay
  <2>5. CASE \E l \in 0 + 1 .. Len(events) : Ends(events[l], i)
    <3>1. PICK l \in 1 .. Len(events) : Ends(events[l], i)
      BY <2>5
    <3>2. SaysOf(events[l], "outgoing")
      BY <2>1 DEF OneWay, AllSay
    <3>3. events[l] = Event("CEND", i)
      BY <3>1, <3>2 DEF SaysOf, Ends
    <3>. QED  BY <2>3, <3>3 DEF Backed
  <2>. QED  BY <2>2, <2>4, <2>5 DEF Open
<1>2. IInv /\ Placed => NoZombies
  BY <1>1
<1>. QED  BY <1>2, CallsKept, PlacedAlways, PTL

\* While only one call is set up at a time, the call of a channel that was dialed
\* will be hung up with the channel: the AT+CHUP of one call takes no mark of
\* another, unless calls are hung up when they are answered (group 295).
THEOREM PlacedWillEnd ==
    ASSUME Calm, ~Group295
    PROVE  Spec /\ []OneSetUp => []HangupWillEndCall
<1>1. Placed => HangupWillEndCall
  BY DEF Placed, HeldNow, Held, HangupWillEndCall
<1>. QED  BY <1>1, PlacedAlways, PTL

\* OneSetUp is kept as long as nobody takes the mark of a selection off, and the
\* device does not go while a thread has it selected.
COROLLARY PlacedCallsKept ==
    ASSUME Calm, "query" \notin Faults, ~Group295
    PROVE  Spec /\ []SelectedIsThere
           => [](CallIdxUnique /\ OnlyDialedConnect /\ NoZombies /\ HangupWillEndCall)
BY OneSetUpAlways, PlacedIdxUnique, PlacedDialed, PlacedBacked, PlacedWillEnd, PTL
=============================================================================
