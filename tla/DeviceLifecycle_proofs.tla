----------------------- MODULE DeviceLifecycle_proofs -----------------------
(***************************************************************************)
(* Devices come and go as they should, for any modems, devices, services   *)
(* and bounds.  First MonitorsOwned: no device is freed under its monitor. *)
(* With it OneReader, GracefulWaits, NotUndone and TypeOK: no two devices  *)
(* read one tty, none is told to stop while it serves somebody unless it   *)
(* must be, none that was stopped is opened again, and all fields keep     *)
(* their types.                                                            *)
(***************************************************************************)
EXTENDS DeviceLifecycle, SequenceTheorems, FiniteSetTheorems, WellFoundedInduction, TLAPS

\* The types of what the argument is about.
Typed ==
    /\ plugged \subseteq Modem
    /\ devices \in Seq(Pvt) /\ IsInjective(devices)
    /\ pvt \in [Pvt -> DeviceType]
    /\ discovery \in [pc : {"asleep", "looking", "joining", "ended"},
                      todo : Seq(Pvt), doing : dev_state_t]
    /\ unload \in [pc : {"loaded", "joining", "destroying", "unloaded"},
                   on : Pvt \union {None}]

\* A tty is closed before its monitor ends.
OpenIsRead == \A p \in Pvt : pvt[p].fd # "closed" => pvt[p].thread \in {"begun", "reading"}

\* The discovery looks at each device of the list at most once a round.
TodoListed ==
    /\ ToSet(discovery.todo) \subseteq ToSet(devices)
    /\ IsInjective(discovery.todo)
    /\ discovery.pc \in {"asleep", "ended"} => discovery.todo = <<>>
    /\ discovery.pc = "joining" => discovery.todo # <<>>

\* A device to be removed has no monitor, and is not looked at again before it is.
RemovedIdle ==
    \A p \in Pvt : pvt[p].must_remove => /\ Listed(p) /\ pvt[p].thread = "none"
                                         /\ discovery.pc \in {"looking", "joining"}
                                         /\ p \notin ToSet(discovery.todo)

\* Devices are destroyed when there is no discovery any more.
DestroyedLast ==
    /\ unload.pc \in {"destroying", "unloaded"} => discovery.pc = "ended"
    /\ discovery.pc = "ended" => unload.pc # "loaded"
    /\ unload.on # None => unload.pc = "destroying"

\* An operator has found a device that is listed, or being destroyed.
AskersKnown ==
    /\ operator \in [Operator -> [pc : {"idle", "found", "writing"},
                                  on : Pvt \union {None}, when : restate_time_t]]
    /\ \A o \in Operator :
          operator[o].pc # "idle" =>
             operator[o].on \in Pvt /\ (Listed(operator[o].on) \/ unload.on = operator[o].on)

\* With AskersKnown, the inductive invariant.
OwnedInv ==
    /\ Typed /\ OpenIsRead /\ TodoListed /\ RemovedIdle /\ DestroyedLast
    /\ MonitorsOwned

-----------------------------------------------------------------------------
(* Sequences                                                               *)

LEMMA Among ==
    ASSUME NEW S, NEW s \in Seq(S), NEW e
    PROVE  /\ Contains(s, e) <=> e \in ToSet(s)
           /\ e \in ToSet(s) <=> \E i \in 1 .. Len(s) : s[i] = e
           /\ ToSet(s) \subseteq S
<1>1. DOMAIN s = 1 .. Len(s) /\ \A i \in 1 .. Len(s) : s[i] \in S
  BY LenProperties, ElementOfSeq
<1>. QED  BY <1>1 DEF Contains, ToSet

LEMMA TailOf ==
    ASSUME NEW S, NEW s \in Seq(S), s # <<>>
    PROVE  /\ Tail(s) \in Seq(S)
           /\ Head(s) \in S /\ Head(s) \in ToSet(s)
           /\ ToSet(s) = {Head(s)} \union ToSet(Tail(s))
           /\ IsInjective(s) => IsInjective(Tail(s)) /\ Head(s) \notin ToSet(Tail(s))
<1>1. /\ Tail(s) \in Seq(S) /\ Len(s) \in Nat /\ Len(s) # 0 /\ Len(Tail(s)) = Len(s) - 1
      /\ \A i \in 1 .. Len(Tail(s)) : Tail(s)[i] = s[i + 1]
      /\ Head(s) = s[1] /\ Head(s) \in S
  BY HeadTailProperties, LenProperties, EmptySeq
<1>2. DOMAIN s = 1 .. Len(s) /\ DOMAIN Tail(s) = 1 .. Len(s) - 1
  BY <1>1, LenProperties
<1>3. ASSUME NEW i \in 1 .. Len(s)
      PROVE  i = 1 \/ (i - 1 \in 1 .. Len(s) - 1 /\ s[i] = Tail(s)[i - 1])
  <2>. SUFFICES ASSUME i # 1 PROVE i - 1 \in 1 .. Len(s) - 1 /\ s[i] = Tail(s)[i - 1]
    OBVIOUS
  <2>1. i - 1 \in 1 .. Len(s) - 1 /\ (i - 1) + 1 = i
    BY <1>1
  <2>2. Tail(s)[i - 1] = s[(i - 1) + 1]
    BY <2>1, <1>1
  <2>. QED  BY <2>1, <2>2
<1>4. ASSUME NEW i \in 1 .. Len(s) - 1
      PROVE  i + 1 \in 1 .. Len(s) /\ i + 1 # 1 /\ Tail(s)[i] = s[i + 1]
  BY <1>1
<1>5. 1 \in 1 .. Len(s)
  BY <1>1
<1>. HIDE DEF IsInjective
<1>6. ToSet(s) = {Head(s)} \union ToSet(Tail(s)) /\ Head(s) \in ToSet(s)
  <2>1. \A e : e \in ToSet(s) <=> \E i \in 1 .. Len(s) : e = s[i]
    BY <1>2 DEF ToSet
  <2>2. \A e : e \in ToSet(Tail(s)) <=> \E i \in 1 .. Len(s) - 1 : e = Tail(s)[i]
    BY <1>2 DEF ToSet
  <2>. HIDE DEF ToSet
  <2>3. ASSUME NEW e \in ToSet(s)
        PROVE  e = s[1] \/ e \in ToSet(Tail(s))
    <3>1. PICK i \in 1 .. Len(s) : e = s[i]
      BY <2>1
    <3>. QED  BY <3>1, <1>3, <2>2
  <2>4. ASSUME NEW e \in ToSet(Tail(s))
        PROVE  e \in ToSet(s)
    <3>1. PICK i \in 1 .. Len(s) - 1 : e = Tail(s)[i]
      BY <2>2
    <3>. QED  BY <3>1, <1>4, <2>1
  <2>5. s[1] \in ToSet(s)
    BY <2>1, <1>5
  <2>. QED  BY <2>3, <2>4, <2>5, <1>1
<1>7. ASSUME IsInjective(s)
      PROVE  IsInjective(Tail(s)) /\ Head(s) \notin ToSet(Tail(s))
  <2>1. \A i, j \in 1 .. Len(s) : s[i] = s[j] => i = j
    BY <1>7, <1>2 DEF IsInjective
  <2>2. \A i, j \in 1 .. Len(s) - 1 : Tail(s)[i] = Tail(s)[j] => i = j
    <3>1. ASSUME NEW i \in 1 .. Len(s) - 1, NEW j \in 1 .. Len(s) - 1, Tail(s)[i] = Tail(s)[j]
          PROVE  i = j
      <4>1. i + 1 = j + 1
        BY <3>1, <2>1, <1>4
      <4>. QED  BY <4>1
    <3>. QED  BY <3>1
  <2>3. \A i \in 1 .. Len(s) - 1 : Tail(s)[i] # s[1]
    BY <2>1, <1>4, <1>5
  <2>. QED  BY <2>2, <2>3, <1>1, <1>2 DEF IsInjective, ToSet
<1>. QED  BY <1>1, <1>6, <1>7

\* Every finite set can be listed, each element once.
LEMMA Enumerated ==
    ASSUME NEW S, IsFiniteSet(S)
    PROVE  /\ SetToSeq(S) \in Seq(S) /\ IsInjective(SetToSeq(S))
           /\ Len(SetToSeq(S)) = Cardinality(S)
<1>. DEFINE n == Cardinality(S)
            s == SetToSeq(S)
<1>1. n \in Nat /\ \E f \in [1 .. n -> S] : IsInjective(f)
  <2>1. n \in Nat /\ ExistsBijection(1 .. n, S)
    BY FS_CardinalityType
  <2>2. PICK f \in [1 .. n -> S] : \A a, b \in 1 .. n : f[a] = f[b] => a = b
    BY <2>1 DEF ExistsBijection, Bijection, Injection, IsInjective
  <2>3. IsInjective(f)
    BY <2>2 DEF IsInjective
  <2>. QED  BY <2>1, <2>3
<1>2. s \in [1 .. n -> S] /\ IsInjective(s)
  BY <1>1 DEF SetToSeq
<1>. HIDE DEF s, n
<1>3. s \in Seq(S)
  BY <1>1, <1>2, SeqDef
<1>4. Len(s) = n
  BY <1>1, <1>2, <1>3, LenProperties
<1>. QED  BY <1>2, <1>3, <1>4 DEF s, n

LEMMA Prefix ==
    ASSUME NEW S, NEW s \in Seq(S), IsInjective(s), NEW n \in Nat, n <= Len(s)
    PROVE  /\ SubSeq(s, 1, n) \in Seq(S) /\ IsInjective(SubSeq(s, 1, n))
           /\ Len(SubSeq(s, 1, n)) = n
<1>. DEFINE t == SubSeq(s, 1, n)
<1>1. Len(s) \in Nat /\ DOMAIN s = 1 .. Len(s) /\ \A i \in 1 .. n : s[i] \in S
  BY LenProperties, ElementOfSeq
<1>2. /\ t \in Seq(S) /\ Len(t) = IF 1 <= n THEN n - 1 + 1 ELSE 0
      /\ \A i \in 1 .. n - 1 + 1 : t[i] = s[1 + i - 1]
  BY <1>1, SubSeqProperties
<1>. HIDE DEF t
<1>3. Len(t) = n /\ \A i \in 1 .. n : t[i] = s[i] /\ i \in DOMAIN s
  BY <1>1, <1>2
<1>4. DOMAIN t = 1 .. n
  BY <1>2, <1>3, LenProperties
<1>5. IsInjective(t)
  BY <1>3, <1>4 DEF IsInjective
<1>. QED  BY <1>2, <1>3, <1>5 DEF t

LEMMA Appended ==
    ASSUME NEW S, NEW s \in Seq(S), NEW t \in Seq(S), IsInjective(s), IsInjective(t),
           ToSet(s) \intersect ToSet(t) = {}
    PROVE  /\ s \o t \in Seq(S) /\ IsInjective(s \o t)
           /\ ToSet(s \o t) = ToSet(s) \union ToSet(t)
<1>. DEFINE c == s \o t
            n == Len(s)
            m == Len(t)
<1>1. /\ n \in Nat /\ m \in Nat /\ DOMAIN s = 1 .. n /\ DOMAIN t = 1 .. m
  BY LenProperties
<1>2. /\ c \in Seq(S) /\ Len(c) = n + m
      /\ \A i \in 1 .. n + m : c[i] = IF i <= n THEN s[i] ELSE t[i - n]
  BY ConcatProperties
<1>3. DOMAIN c = 1 .. n + m
  BY <1>2, LenProperties
<1>. HIDE DEF c, n, m
<1>4. ASSUME NEW i \in 1 .. n
      PROVE  i \in 1 .. n + m /\ c[i] = s[i]
  BY <1>1, <1>2
<1>5. ASSUME NEW i \in 1 .. m
      PROVE  n + i \in 1 .. n + m /\ c[n + i] = t[i]
  <2>1. n + i \in 1 .. n + m /\ ~(n + i <= n) /\ (n + i) - n = i
    BY <1>1
  <2>. QED  BY <2>1, <1>2
<1>6. ASSUME NEW i \in 1 .. n + m
      PROVE  \/ i \in 1 .. n /\ c[i] = s[i]
             \/ ~(i \in 1 .. n) /\ i - n \in 1 .. m /\ c[i] = t[i - n]
  BY <1>1, <1>2
<1>7. \A e : /\ e \in ToSet(s) <=> \E i \in 1 .. n : e = s[i]
             /\ e \in ToSet(t) <=> \E i \in 1 .. m : e = t[i]
             /\ e \in ToSet(c) <=> \E i \in 1 .. n + m : e = c[i]
  BY <1>1, <1>3 DEF ToSet
<1>8. ToSet(c) = ToSet(s) \union ToSet(t)
  <2>1. ASSUME NEW e \in ToSet(c)
        PROVE  e \in ToSet(s) \union ToSet(t)
    <3>1. PICK i \in 1 .. n + m : e = c[i]
      BY <1>7
    <3>. QED  BY <3>1, <1>6, <1>7
  <2>2. ASSUME NEW e \in ToSet(s)
        PROVE  e \in ToSet(c)
    <3>1. PICK i \in 1 .. n : e = s[i]
      BY <1>7
    <3>. QED  BY <3>1, <1>4, <1>7
  <2>3. ASSUME NEW e \in ToSet(t)
        PROVE  e \in ToSet(c)
    <3>1. PICK i \in 1 .. m : e = t[i]
      BY <1>7
    <3>. QED  BY <3>1, <1>5, <1>7
  <2>. QED  BY <2>1, <2>2, <2>3
<1>9. IsInjective(c)
  <2>1. /\ \A i, j \in 1 .. n : s[i] = s[j] => i = j
        /\ \A i, j \in 1 .. m : t[i] = t[j] => i = j
    BY <1>1 DEF IsInjective
  <2>2. \A i \in 1 .. n, j \in 1 .. m : s[i] # t[j]
    BY <1>7
  <2>3. ASSUME NEW i \in 1 .. n + m, NEW j \in 1 .. n + m, c[i] = c[j]
        PROVE  i = j
    <3>1. CASE i \in 1 .. n /\ j \in 1 .. n
      BY <3>1, <2>1, <2>3, <1>4
    <3>2. CASE i \in 1 .. n /\ ~(j \in 1 .. n)
      BY <3>2, <2>2, <2>3, <1>4, <1>6
    <3>3. CASE ~(i \in 1 .. n) /\ j \in 1 .. n
      BY <3>3, <2>2, <2>3, <1>4, <1>6
    <3>4. CASE ~(i \in 1 .. n) /\ ~(j \in 1 .. n)
      <4>1. i - n = j - n
        BY <3>4, <2>1, <2>3, <1>6
      <4>. QED  BY <4>1, <1>1
    <3>. QED  BY <3>1, <3>2, <3>3, <3>4
  <2>. QED  BY <2>3, <1>3 DEF IsInjective
<1>. QED  BY <1>2, <1>8, <1>9 DEF c

LEMMA Removed ==
    ASSUME NEW S, NEW s \in Seq(S), IsInjective(s), NEW i \in DOMAIN s
    PROVE  /\ RemoveAt(s, i) \in Seq(S) /\ IsInjective(RemoveAt(s, i))
           /\ ToSet(RemoveAt(s, i)) = ToSet(s) \ {s[i]}
<1>. DEFINE n == Len(s)
            a == SubSeq(s, 1, i - 1)
            b == SubSeq(s, i + 1, n)
<1>1. /\ n \in Nat /\ i \in 1 .. n /\ DOMAIN s = 1 .. n /\ \A k \in 1 .. n : s[k] \in S
      /\ \A k, l \in 1 .. n : s[k] = s[l] => k = l
  BY LenProperties, ElementOfSeq DEF IsInjective
<1>2. a \in Seq(S) /\ IsInjective(a) /\ Len(a) = i - 1
  BY <1>1, Prefix
<1>3. \A k \in 1 .. i - 1 : a[k] = s[k]
  <2>1. /\ i - 1 \in Int /\ \A k \in 1 .. i - 1 : s[k] \in S
    BY <1>1
  <2>2. \A k \in 1 .. (i - 1) - 1 + 1 : a[k] = s[1 + k - 1]
    BY <2>1, SubSeqProperties
  <2>3. ASSUME NEW k \in 1 .. i - 1
        PROVE  k \in 1 .. (i - 1) - 1 + 1 /\ 1 + k - 1 = k
    BY <1>1
  <2>. QED  BY <2>2, <2>3
<1>4. /\ b \in Seq(S) /\ Len(b) = n - i
      /\ \A k \in 1 .. n - i : b[k] = s[i + k]
  <2>1. /\ i + 1 \in Int /\ n \in Int /\ \A k \in i + 1 .. n : s[k] \in S
    BY <1>1
  <2>2. /\ b \in Seq(S) /\ Len(b) = IF i + 1 <= n THEN n - (i + 1) + 1 ELSE 0
        /\ \A k \in 1 .. n - (i + 1) + 1 : b[k] = s[i + 1 + k - 1]
    BY <2>1, SubSeqProperties
  <2>3. (IF i + 1 <= n THEN n - (i + 1) + 1 ELSE 0) = n - i /\ n - (i + 1) + 1 = n - i
    BY <1>1
  <2>4. ASSUME NEW k \in 1 .. n - i
        PROVE  i + 1 + k - 1 = i + k
    BY <1>1
  <2>. QED  BY <2>2, <2>3, <2>4
<1>. HIDE DEF a, b, n
<1>5. DOMAIN a = 1 .. i - 1 /\ DOMAIN b = 1 .. n - i
  BY <1>2, <1>4, LenProperties
<1>6. ASSUME NEW k \in 1 .. n - i
      PROVE  i + k \in 1 .. n /\ i + k # i /\ ~(i + k \in 1 .. i - 1)
  BY <1>1
<1>7. IsInjective(b)
  <2>1. ASSUME NEW k \in 1 .. n - i, NEW l \in 1 .. n - i, b[k] = b[l]
        PROVE  k = l
    <3>1. i + k = i + l
      BY <2>1, <1>1, <1>4, <1>6
    <3>. QED  BY <3>1, <1>1
  <2>. QED  BY <2>1, <1>5 DEF IsInjective
<1>8. \A e : /\ e \in ToSet(a) <=> \E k \in 1 .. i - 1 : e = s[k]
             /\ e \in ToSet(b) <=> \E k \in 1 .. n - i : e = s[i + k]
             /\ e \in ToSet(s) <=> \E k \in 1 .. n : e = s[k]
  <2>1. \A e : e \in ToSet(a) <=> \E k \in 1 .. i - 1 : e = a[k]
    BY <1>5 DEF ToSet
  <2>2. \A e : e \in ToSet(b) <=> \E k \in 1 .. n - i : e = b[k]
    BY <1>5 DEF ToSet
  <2>3. \A e : e \in ToSet(s) <=> \E k \in 1 .. n : e = s[k]
    BY <1>1 DEF ToSet
  <2>4. \A e : (\E k \in 1 .. i - 1 : e = a[k]) <=> (\E k \in 1 .. i - 1 : e = s[k])
    BY <1>3, Zenon
  <2>5. \A e : (\E k \in 1 .. n - i : e = b[k]) <=> (\E k \in 1 .. n - i : e = s[i + k])
    BY <1>4, Zenon
  <2>. SUFFICES ASSUME NEW e
                PROVE  /\ e \in ToSet(a) <=> \E k \in 1 .. i - 1 : e = s[k]
                       /\ e \in ToSet(b) <=> \E k \in 1 .. n - i : e = s[i + k]
                       /\ e \in ToSet(s) <=> \E k \in 1 .. n : e = s[k]
    OBVIOUS
  <2>6. e \in ToSet(a) <=> \E k \in 1 .. i - 1 : e = s[k]
    BY <2>1, <2>4
  <2>7. e \in ToSet(b) <=> \E k \in 1 .. n - i : e = s[i + k]
    BY <2>2, <2>5
  <2>. QED  BY <2>3, <2>6, <2>7
<1>9. ASSUME NEW k \in 1 .. i - 1
      PROVE  k \in 1 .. n /\ k # i
  BY <1>1
<1>10. ToSet(a) \intersect ToSet(b) = {}
  <2>1. ASSUME NEW e \in ToSet(a), e \in ToSet(b)
        PROVE  FALSE
    <3>1. PICK k \in 1 .. i - 1 : e = s[k]
      BY <1>8
    <3>2. PICK l \in 1 .. n - i : e = s[i + l]
      BY <2>1, <1>8
    <3>3. k = i + l
      BY <3>1, <3>2, <1>1, <1>6, <1>9
    <3>. QED  BY <3>3, <1>6
  <2>. QED  BY <2>1
<1>11. ToSet(a) \union ToSet(b) = ToSet(s) \ {s[i]}
  <2>1. ASSUME NEW e \in ToSet(a)
        PROVE  e \in ToSet(s) /\ e # s[i]
    <3>1. PICK k \in 1 .. i - 1 : e = s[k]
      BY <1>8
    <3>. QED  BY <3>1, <1>1, <1>8, <1>9
  <2>2. ASSUME NEW e \in ToSet(b)
        PROVE  e \in ToSet(s) /\ e # s[i]
    <3>1. PICK k \in 1 .. n - i : e = s[i + k]
      BY <1>8
    <3>. QED  BY <3>1, <1>1, <1>8, <1>6
  <2>3. ASSUME NEW e \in ToSet(s), e # s[i]
        PROVE  e \in ToSet(a) \union ToSet(b)
    <3>1. PICK k \in 1 .. n : e = s[k]
      BY <1>8
    <3>2. CASE k \in 1 .. i - 1
      BY <3>1, <3>2, <1>8
    <3>3. CASE ~(k \in 1 .. i - 1)
      <4>1. k # i
        BY <2>3, <3>1
      <4>2. k - i \in 1 .. n - i /\ i + (k - i) = k
        BY <3>3, <4>1, <1>1
      <4>. QED  BY <4>2, <3>1, <1>8
    <3>. QED  BY <3>2, <3>3
  <2>. QED  BY <2>1, <2>2, <2>3
<1>12. RemoveAt(s, i) = a \o b
  BY DEF RemoveAt, a, b, n
<1>. QED  BY <1>2, <1>4, <1>7, <1>10, <1>11, <1>12, Appended

-----------------------------------------------------------------------------
(* Steps that leave the lists alone                                        *)

\* A device keeps its monitor, if it has one, and opens no tty.
Keeps(old, new) ==
    /\ new.thread = "none" <=> old.thread = "none"
    /\ new.must_remove = old.must_remove
    /\ new.fd # "closed" => old.fd # "closed" /\ new.thread \in {"begun", "reading"}

LEMMA AllKeep ==
    ASSUME OwnedInv, (plugged \subseteq Modem)', pvt' \in [Pvt -> DeviceType],
           \A p \in Pvt : Keeps(pvt[p], pvt'[p]),
           devices' = devices, discovery' = discovery, unload' = unload
    PROVE  OwnedInv'
<1>1. Typed' /\ TodoListed' /\ DestroyedLast'
  BY DEF OwnedInv, Typed, TodoListed, DestroyedLast
<1>2. OpenIsRead'
  BY DEF OpenIsRead, Keeps
<1>3. RemovedIdle'
  BY DEF OwnedInv, RemovedIdle, Keeps, Listed
<1>4. MonitorsOwned'
  BY DEF OwnedInv, MonitorsOwned, Keeps, Listed
<1>. QED  BY <1>1, <1>2, <1>3, <1>4 DEF OwnedInv

LEMMA OneKeeps ==
    ASSUME OwnedInv, NEW p \in Pvt, NEW d \in DeviceType, Keeps(pvt[p], d),
           pvt' = [pvt EXCEPT ![p] = d],
           plugged' = plugged, devices' = devices, discovery' = discovery, unload' = unload
    PROVE  OwnedInv'
<1>1. pvt \in [Pvt -> DeviceType] /\ plugged \subseteq Modem
  BY DEF OwnedInv, Typed
<1>2. /\ pvt' \in [Pvt -> DeviceType]
      /\ \A q \in Pvt : pvt'[q] = IF q = p THEN d ELSE pvt[q]
  BY <1>1
<1>3. \A q \in Pvt : Keeps(pvt[q], pvt[q])
  BY DEF OwnedInv, OpenIsRead, Keeps
<1>4. \A q \in Pvt : Keeps(pvt[q], pvt'[q])
  BY <1>2, <1>3
<1>. QED  BY <1>1, <1>2, <1>4, AllKeep

LEMMA OfDevice ==
    ASSUME OwnedInv, NEW p \in Pvt
    PROVE  pvt[p] \in DeviceType /\ Keeps(pvt[p], pvt[p])
BY DEF OwnedInv, Typed, OpenIsRead, Keeps

LEMMA TryRestate ==
    ASSUME NEW d \in DeviceType
    PROVE  /\ pvt_try_restate(d) \in DeviceType
           /\ pvt_try_restate(d).thread = d.thread
           /\ pvt_try_restate(d).must_remove = d.must_remove
           /\ pvt_try_restate(d).fd = d.fd
<1>. DEFINE e == [[d EXCEPT !.when = "now"] EXCEPT !.blocked = DiscoveryLocked]
<1>1. DiscoveryLocked \in BOOLEAN
  BY DEF DiscoveryLocked
<1>2. e \in DeviceType /\ e.thread = d.thread /\ e.must_remove = d.must_remove /\ e.fd = d.fd
  BY <1>1 DEF DeviceType, restate_time_t
<1>. HIDE DEF e
<1>3. pvt_try_restate(d) = IF pvt_time4restate(d) THEN e ELSE d
  BY DEF pvt_try_restate, e
<1>. QED  BY <1>2, <1>3

LEMMA UnplugStep ==
    ASSUME OwnedInv, NEW m \in Modem, Unplug(m)
    PROVE  OwnedInv'
<1>1. /\ plugged' \subseteq Modem /\ devices' = devices /\ discovery' = discovery /\ unload' = unload
      /\ pvt' = [p \in Pvt |-> IF pvt[p].tty = m /\ pvt[p].fd = "open"
                               THEN [pvt[p] EXCEPT !.fd = "hung"] ELSE pvt[p]]
  BY DEF Unplug, OwnedInv, Typed
<1>2. ASSUME NEW p \in Pvt
      PROVE  pvt'[p] \in DeviceType /\ Keeps(pvt[p], pvt'[p])
  <2>1. pvt[p] \in DeviceType /\ Keeps(pvt[p], pvt[p])
    BY OfDevice
  <2>2. CASE pvt[p].tty = m /\ pvt[p].fd = "open"
    <3>1. pvt'[p] = [pvt[p] EXCEPT !.fd = "hung"]
      BY <1>1, <2>2
    <3>. QED  BY <3>1, <2>1, <2>2 DEF DeviceType, Keeps
  <2>3. CASE ~(pvt[p].tty = m /\ pvt[p].fd = "open")
    BY <1>1, <2>1, <2>3
  <2>. QED  BY <2>2, <2>3
<1>3. pvt' \in [Pvt -> DeviceType]
  BY <1>1, <1>2
<1>. QED  BY <1>1, <1>2, <1>3, AllKeep

LEMMA PlugStep ==
    ASSUME OwnedInv, NEW m \in Modem, Plug(m)
    PROVE  OwnedInv'
<1>1. /\ (plugged \subseteq Modem)' /\ devices' = devices /\ discovery' = discovery
      /\ unload' = unload /\ pvt' = pvt
  BY DEF Plug, OwnedInv, Typed
<1>. QED  BY <1>1, OfDevice, AllKeep DEF OwnedInv, Typed

LEMMA ServiceBeginsStep ==
    ASSUME OwnedInv, NEW p \in Pvt, NEW s \in Service, ServiceBegins(p, s)
    PROVE  OwnedInv'
<1>. DEFINE d == [pvt[p] EXCEPT !.busy = @ \union {s}]
<1>1. /\ pvt' = [pvt EXCEPT ![p] = d]
      /\ plugged' = plugged /\ devices' = devices /\ discovery' = discovery /\ unload' = unload
  BY DEF ServiceBegins
<1>2. d \in DeviceType /\ Keeps(pvt[p], d)
  BY OfDevice DEF DeviceType, Keeps
<1>. QED  BY <1>1, <1>2, OneKeeps

LEMMA ServiceEndsStep ==
    ASSUME OwnedInv, NEW p \in Pvt, NEW s \in Service, ServiceEnds(p, s)
    PROVE  OwnedInv'
<1>. DEFINE e == [pvt[p] EXCEPT !.busy = @ \ {s}]
            d == Served(pvt[p], s)
<1>1. /\ pvt' = [pvt EXCEPT ![p] = d]
      /\ plugged' = plugged /\ devices' = devices /\ discovery' = discovery /\ unload' = unload
  BY DEF ServiceEnds
<1>2. /\ e \in DeviceType /\ e.thread = pvt[p].thread /\ e.fd = pvt[p].fd
      /\ e.must_remove = pvt[p].must_remove
  BY OfDevice DEF DeviceType
<1>3. d = IF s = "ussd" THEN e ELSE pvt_try_restate(e)
  BY DEF Served
<1>. HIDE DEF e, d
<1>4. d \in DeviceType /\ Keeps(pvt[p], d)
  BY <1>2, <1>3, TryRestate, OfDevice DEF Keeps
<1>. QED  BY <1>1, <1>4, OneKeeps

LEMMA DesiredStep ==
    ASSUME OwnedInv, AskersKnown, NEW o \in Operator, NEW event \in dev_state_t,
           NEW when \in restate_time_t, DesiredWritten(o, event, when)
    PROVE  OwnedInv'
<1>. DEFINE p == operator[o].on
            d == [pvt[p] EXCEPT !.desired = event]
<1>1. /\ pvt' = [pvt EXCEPT ![p] = d] /\ p \in Pvt
      /\ plugged' = plugged /\ devices' = devices /\ discovery' = discovery /\ unload' = unload
  BY DEF DesiredWritten, AskersKnown
<1>. HIDE DEF p
<1>2. d \in DeviceType /\ Keeps(pvt[p], d)
  BY <1>1, OfDevice DEF DeviceType, Keeps
<1>. QED  BY <1>1, <1>2, OneKeeps

LEMMA TimeStep ==
    ASSUME OwnedInv, AskersKnown, NEW o \in Operator, RestartTimeWritten(o)
    PROVE  OwnedInv'
<1>. DEFINE p == operator[o].on
            when == operator[o].when
            e == [pvt[p] EXCEPT !.when = when]
            f == pvt_try_restate(e)
            d == [f EXCEPT !.blocked = e.blocked]
<1>1. /\ pvt' = [pvt EXCEPT ![p] = d] /\ p \in Pvt /\ when \in restate_time_t
      /\ plugged' = plugged /\ devices' = devices /\ discovery' = discovery /\ unload' = unload
  BY DEF RestartTimeWritten, AskersKnown
<1>. HIDE DEF p, when
<1>2. /\ e \in DeviceType /\ e.thread = pvt[p].thread /\ e.fd = pvt[p].fd
      /\ e.must_remove = pvt[p].must_remove /\ e.blocked \in BOOLEAN
  BY <1>1, OfDevice DEF DeviceType
<1>. HIDE DEF e
<1>3. /\ f \in DeviceType /\ f.thread = e.thread /\ f.fd = e.fd
      /\ f.must_remove = e.must_remove
  BY <1>2, TryRestate
<1>. HIDE DEF f
<1>4. d \in DeviceType /\ d.thread = f.thread /\ d.fd = f.fd /\ d.must_remove = f.must_remove
  BY <1>2, <1>3 DEF DeviceType
<1>. HIDE DEF d
<1>5. Keeps(pvt[p], d)
  BY <1>1, <1>2, <1>3, <1>4, OfDevice DEF Keeps
<1>. QED  BY <1>1, <1>4, <1>5, OneKeeps

LEMMA FindsStep ==
    ASSUME OwnedInv, NEW o \in Operator, NEW p \in Pvt, find_device(o, p)
    PROVE  OwnedInv'
<1>1. /\ (plugged \subseteq Modem)' /\ devices' = devices /\ discovery' = discovery
      /\ unload' = unload /\ pvt' = pvt
  BY DEF find_device, OwnedInv, Typed
<1>. QED  BY <1>1, OfDevice, AllKeep DEF OwnedInv, Typed

LEMMA BeginsStep ==
    ASSUME OwnedInv, NEW p \in Pvt, MonitorBegins(p)
    PROVE  OwnedInv'
<1>. DEFINE d == [pvt[p] EXCEPT !.thread = "reading"]
<1>1. /\ pvt' = [pvt EXCEPT ![p] = d] /\ pvt[p].thread = "begun"
      /\ plugged' = plugged /\ devices' = devices /\ discovery' = discovery /\ unload' = unload
  BY DEF MonitorBegins
<1>2. d \in DeviceType /\ Keeps(pvt[p], d)
  BY <1>1, OfDevice DEF DeviceType, Keeps
<1>. QED  BY <1>1, <1>2, OneKeeps

LEMMA LeavesStep ==
    ASSUME OwnedInv, NEW p \in Pvt, NEW c \in DeviceType,
           c.must_remove = pvt[p].must_remove, MonitorLeaves(p, c)
    PROVE  OwnedInv'
<1>. DEFINE e == [c EXCEPT !.busy = @ \ {"call"}]
            f == IF "call" \in c.busy THEN pvt_try_restate(e) ELSE e
            d == [[f EXCEPT !.thread = "leaving"] EXCEPT !.fd = "closed"]
<1>1. /\ pvt' = [pvt EXCEPT ![p] = d] /\ pvt[p].thread \in {"begun", "reading"}
      /\ plugged' = plugged /\ devices' = devices /\ discovery' = discovery /\ unload' = unload
  BY DEF MonitorLeaves, Disconnecting
<1>2. e \in DeviceType /\ e.must_remove = c.must_remove
  BY DEF DeviceType
<1>. HIDE DEF e
<1>3. f \in DeviceType /\ f.must_remove = c.must_remove
  BY <1>2, TryRestate
<1>. HIDE DEF f
<1>4. d \in DeviceType /\ Keeps(pvt[p], d)
  BY <1>1, <1>3 DEF DeviceType, Keeps
<1>. QED  BY <1>1, <1>4, OneKeeps

LEMMA MonitorStep ==
    ASSUME OwnedInv, NEW p \in Pvt, Monitor(p) \/ MonitorGivesUp(p)
    PROVE  OwnedInv'
<1>1. CASE MonitorBegins(p)
  BY <1>1, BeginsStep
<1>2. CASE MonitorTerminates(p)
  BY <1>2, OfDevice, LeavesStep DEF MonitorTerminates
<1>3. CASE MonitorLosesModem(p) \/ MonitorGivesUp(p)
  <2>. DEFINE c == [pvt[p] EXCEPT !.terminate = FALSE]
  <2>1. c \in DeviceType /\ c.must_remove = pvt[p].must_remove
    BY OfDevice DEF DeviceType
  <2>2. MonitorLeaves(p, c)
    BY <1>3 DEF MonitorLosesModem, MonitorGivesUp
  <2>. QED  BY <2>1, <2>2, LeavesStep
<1>4. CASE MonitorEnds(p)
  <2>. DEFINE c == [[pvt[p] EXCEPT !.connected = FALSE] EXCEPT !.busy = {}]
              d == [[c EXCEPT !.current = "stop"] EXCEPT !.thread = "done"]
  <2>1. /\ pvt' = [pvt EXCEPT ![p] = d] /\ pvt[p].thread = "leaving"
        /\ plugged' = plugged /\ devices' = devices /\ discovery' = discovery /\ unload' = unload
    BY <1>4 DEF MonitorEnds, Disconnected
  <2>2. pvt[p].fd = "closed"
    BY <2>1 DEF OwnedInv, OpenIsRead
  <2>3. /\ c \in DeviceType /\ c.must_remove = pvt[p].must_remove /\ c.fd = pvt[p].fd
    BY OfDevice DEF DeviceType
  <2>. HIDE DEF c
  <2>4. d \in DeviceType /\ Keeps(pvt[p], d)
    BY <2>1, <2>2, <2>3 DEF DeviceType, Keeps
  <2>. QED  BY <2>1, <2>4, OneKeeps
<1>5. CASE MonitorUnblocked(p)
  <2>. DEFINE d == [pvt[p] EXCEPT !.blocked = FALSE]
  <2>1. /\ pvt' = [pvt EXCEPT ![p] = d]
        /\ plugged' = plugged /\ devices' = devices /\ discovery' = discovery /\ unload' = unload
    BY <1>5 DEF MonitorUnblocked
  <2>2. d \in DeviceType /\ Keeps(pvt[p], d)
    BY OfDevice DEF DeviceType, Keeps
  <2>. QED  BY <2>1, <2>2, OneKeeps
<1>. QED  BY <1>1, <1>2, <1>3, <1>4, <1>5 DEF Monitor

-----------------------------------------------------------------------------
(* The discovery                                                           *)

LEMMA Created ==
    ASSUME NEW m \in Modem
    PROVE  /\ pvt_create(m) \in DeviceType /\ pvt_create(m).thread = "none"
           /\ pvt_create(m).fd = "closed" /\ ~pvt_create(m).must_remove
BY DEF pvt_create, DeviceType, dev_state_t, restate_time_t

\* A device without monitor is freed.
LEMMA FreedDevice ==
    ASSUME OwnedInv, NEW p \in Pvt, pvt[p].thread \in {"none", "done"}
    PROVE  /\ Freed(pvt[p]) \in DeviceType /\ Freed(pvt[p]).thread = "none"
           /\ Freed(pvt[p]).fd = "closed" /\ ~Freed(pvt[p]).must_remove
<1>. DEFINE c == pvt_create(pvt[p].tty)
<1>1. pvt[p] \in DeviceType /\ pvt[p].fd = "closed"
  BY OfDevice DEF OwnedInv, OpenIsRead
<1>2. c \in DeviceType /\ ~c.must_remove
  BY <1>1, Created DEF DeviceType
<1>3. Freed(pvt[p]) = [[c EXCEPT !.fd = "closed"] EXCEPT !.thread = "none"]
  BY <1>1 DEF Freed
<1>. HIDE DEF c
<1>. QED  BY <1>2, <1>3 DEF DeviceType

\* What usbdevs_find adds to the list.
LEMMA NewDevices ==
    ASSUME OwnedInv, NEW n \in Nat, n <= Cardinality(Fresh)
    PROVE  LET new == SubSeq(SetToSeq(Fresh), 1, n)
           IN  /\ new \in Seq(Pvt) /\ IsInjective(new) /\ Len(new) = n
               /\ ToSet(new) \subseteq Fresh
<1>. DEFINE all == SetToSeq(Fresh)
            new == SubSeq(all, 1, n)
<1>1. IsFiniteSet(Fresh) /\ Fresh \subseteq Pvt
  BY LifecycleAssumption, FS_Subset DEF Fresh
<1>2. all \in Seq(Fresh) /\ IsInjective(all) /\ Len(all) = Cardinality(Fresh)
  BY <1>1, Enumerated
<1>. HIDE DEF all
<1>3. new \in Seq(Fresh) /\ IsInjective(new) /\ Len(new) = n
  BY <1>2, Prefix
<1>. HIDE DEF new
<1>4. ToSet(new) \subseteq Fresh
  BY <1>3, Among
<1>5. new \in Seq(Pvt)
  <2>1. new \in [1 .. n -> Fresh]
    BY <1>3, LenProperties
  <2>2. new \in [1 .. n -> Pvt]
    BY <1>1, <2>1
  <2>. QED  BY <2>2, SeqDef
<1>. QED  BY <1>3, <1>4, <1>5 DEF new, all

LEMMA WakesStep ==
    ASSUME OwnedInv, DiscoveryWakes
    PROVE  OwnedInv'
<1>. DEFINE swept == Swept(usbdevs)
            lost  == ToSet(usbdevs) \ ToSet(swept)
            found == SetToSeq(Unknown(swept))
            new   == SubSeq(SetToSeq(Fresh), 1, Len(found))
            created(p) == pvt_create(found[CHOOSE i \in DOMAIN new : new[i] = p])
<1>1. /\ discovery.pc = "asleep" /\ unload.pc = "loaded" /\ unload' = unload /\ plugged' = plugged
      /\ Len(found) <= Cardinality(Fresh)
      /\ devices' = devices \o new
      /\ discovery' = [[discovery EXCEPT !.pc = "looking"] EXCEPT !.todo = devices']
      /\ pvt' = [p \in Pvt |->
            IF Listed(p) /\ pvt[p].tty \in lost THEN usbdev_lost(pvt[p])
            ELSE IF Contains(new, p) THEN created(p) ELSE pvt[p]]
  BY DEF DiscoveryWakes, usbdevs_find
<1>2. found \in Seq(Modem) /\ Len(found) \in Nat /\ DOMAIN found = 1 .. Len(found)
  <2>1. Unknown(swept) \subseteq Modem /\ IsFiniteSet(Unknown(swept))
    BY LifecycleAssumption, FS_Subset DEF Unknown, OwnedInv, Typed
  <2>2. found \in Seq(Unknown(swept))
    BY <2>1, Enumerated
  <2>. HIDE DEF found
  <2>3. found \in [1 .. Len(found) -> Unknown(swept)] /\ Len(found) \in Nat
    BY <2>2, LenProperties
  <2>4. found \in [1 .. Len(found) -> Modem]
    BY <2>1, <2>3
  <2>. QED  BY <2>3, <2>4, SeqDef
<1>. HIDE DEF swept, found
<1>3. new \in Seq(Pvt) /\ IsInjective(new) /\ Len(new) = Len(found) /\ ToSet(new) \subseteq Fresh
  BY <1>1, <1>2, NewDevices
<1>. HIDE DEF new, lost
<1>4. /\ devices \in Seq(Pvt) /\ IsInjective(devices) /\ \A p \in Pvt : pvt[p] \in DeviceType
      /\ discovery \in [pc : {"asleep", "looking", "joining", "ended"},
                        todo : Seq(Pvt), doing : dev_state_t]
  BY DEF OwnedInv, Typed
<1>5. ToSet(devices) \intersect ToSet(new) = {}
  BY <1>3, <1>4, Among DEF Fresh, Listed
<1>6. /\ devices' \in Seq(Pvt) /\ IsInjective(devices')
      /\ ToSet(devices') = ToSet(devices) \union ToSet(new)
  BY <1>1, <1>3, <1>4, <1>5, Appended
<1>7. discovery' = [pc |-> "looking", todo |-> devices', doing |-> discovery.doing]
  BY <1>1, <1>4
<1>8. ASSUME NEW p \in Pvt
      PROVE  /\ pvt'[p] \in DeviceType
             /\ ~pvt'[p].must_remove
             /\ pvt'[p].thread \notin {"begun", "reading"} => pvt'[p].fd = "closed"
             /\ pvt'[p].thread # "none" \/ pvt'[p].fd # "closed" =>
                   pvt[p].thread # "none" \/ pvt[p].fd # "closed"
  <2>1. /\ pvt[p] \in DeviceType /\ ~pvt[p].must_remove
        /\ pvt[p].thread \notin {"begun", "reading"} => pvt[p].fd = "closed"
    BY <1>1, <1>4 DEF OwnedInv, RemovedIdle, OpenIsRead
  <2>2. CASE Listed(p) /\ pvt[p].tty \in lost
    <3>1. pvt'[p] = [pvt[p] EXCEPT !.desired = "remove"]
      BY <1>1, <2>2 DEF usbdev_lost
    <3>. QED  BY <2>1, <3>1 DEF DeviceType, dev_state_t
  <2>3. CASE ~(Listed(p) /\ pvt[p].tty \in lost) /\ Contains(new, p)
    <3>. DEFINE k == CHOOSE i \in DOMAIN new : new[i] = p
    <3>1. k \in DOMAIN new /\ DOMAIN new = 1 .. Len(found)
      BY <1>3, <2>3, LenProperties DEF Contains
    <3>2. found[k] \in Modem
      BY <1>2, <3>1, ElementOfSeq
    <3>3. pvt'[p] = pvt_create(found[k])
      BY <1>1, <2>3
    <3>. HIDE DEF k
    <3>. QED  BY <3>2, <3>3, Created
  <2>4. CASE ~(Listed(p) /\ pvt[p].tty \in lost) /\ ~Contains(new, p)
    BY <1>1, <2>1, <2>4
  <2>. QED  BY <2>2, <2>3, <2>4
<1>9. Typed'
  <2>1. pvt' \in [Pvt -> DeviceType]
    BY <1>1, <1>8
  <2>2. (plugged \subseteq Modem)' /\ discovery' \in [pc : {"asleep", "looking", "joining", "ended"},
                                                      todo : Seq(Pvt), doing : dev_state_t]
    BY <1>1, <1>4, <1>6, <1>7 DEF OwnedInv, Typed
  <2>. QED  BY <1>1, <1>6, <2>1, <2>2 DEF OwnedInv, Typed
<1>10. OpenIsRead'
  BY <1>8 DEF OpenIsRead
<1>11. TodoListed'
  BY <1>6, <1>7 DEF TodoListed
<1>12. RemovedIdle'
  BY <1>8 DEF RemovedIdle
<1>13. DestroyedLast'
  BY <1>1, <1>7 DEF OwnedInv, DestroyedLast
<1>14. MonitorsOwned'
  <2>1. \A p \in Pvt : Listed(p) => Listed(p)'
    BY <1>4, <1>6, Among DEF Listed
  <2>2. unload.on' = unload.on
    BY <1>1
  <2>. QED  BY <1>8, <2>1, <2>2 DEF OwnedInv, MonitorsOwned
<1>. QED  BY <1>9, <1>10, <1>11, <1>12, <1>13, <1>14 DEF OwnedInv

\* The discovery goes on to the next device, whatever it did to the one before.
LEMMA GoesOn ==
    ASSUME OwnedInv, discovery.pc \in {"looking", "joining"}, discovery.todo # <<>>,
           NEW d \in DeviceType, pvt' = [pvt EXCEPT ![Head(discovery.todo)] = d],
           d.must_remove => d.thread = "none",
           d.fd # "closed" => d.thread \in {"begun", "reading"},
           NEW to \in dev_state_t,
           discovery' = [pc |-> "looking", todo |-> Tail(discovery.todo), doing |-> to],
           plugged' = plugged, devices' = devices, unload' = unload
    PROVE  OwnedInv'
<1>. DEFINE p == Head(discovery.todo)
<1>1. /\ discovery.todo \in Seq(Pvt) /\ IsInjective(discovery.todo)
      /\ ToSet(discovery.todo) \subseteq ToSet(devices)
      /\ devices \in Seq(Pvt) /\ pvt \in [Pvt -> DeviceType]
  BY DEF OwnedInv, Typed, TodoListed
<1>2. /\ Tail(discovery.todo) \in Seq(Pvt) /\ p \in Pvt /\ p \in ToSet(discovery.todo)
      /\ ToSet(discovery.todo) = {p} \union ToSet(Tail(discovery.todo))
      /\ IsInjective(Tail(discovery.todo)) /\ p \notin ToSet(Tail(discovery.todo))
  BY <1>1, TailOf
<1>. HIDE DEF p
<1>3. /\ pvt' \in [Pvt -> DeviceType]
      /\ \A q \in Pvt : pvt'[q] = IF q = p THEN d ELSE pvt[q]
  BY <1>1, <1>2 DEF p
<1>4. Listed(p)
  BY <1>1, <1>2, Among DEF Listed
<1>5. Typed'
  BY <1>2, <1>3 DEF OwnedInv, Typed
<1>6. OpenIsRead'
  BY <1>3 DEF OwnedInv, OpenIsRead
<1>7. TodoListed'
  BY <1>1, <1>2 DEF TodoListed
<1>8. RemovedIdle'
  BY <1>2, <1>3, <1>4 DEF OwnedInv, RemovedIdle, Listed
<1>9. DestroyedLast'
  BY DEF OwnedInv, DestroyedLast
<1>10. MonitorsOwned'
  BY <1>3, <1>4 DEF OwnedInv, MonitorsOwned, Listed
<1>. QED  BY <1>5, <1>6, <1>7, <1>8, <1>9, <1>10 DEF OwnedInv

\* The device the discovery looks at is not one to be removed.
LEMMA LookedAt ==
    ASSUME OwnedInv, discovery.todo # <<>>
    PROVE  /\ Head(discovery.todo) \in Pvt /\ pvt[Head(discovery.todo)] \in DeviceType
           /\ pvt[Head(discovery.todo)].must_remove = FALSE
           /\ Listed(Head(discovery.todo))
           /\ pvt[Head(discovery.todo)].thread \notin {"begun", "reading"}
                 => pvt[Head(discovery.todo)].fd = "closed"
<1>1. /\ Head(discovery.todo) \in Pvt /\ Head(discovery.todo) \in ToSet(discovery.todo)
      /\ ToSet(discovery.todo) \subseteq ToSet(devices) /\ devices \in Seq(Pvt)
  BY TailOf DEF OwnedInv, Typed, TodoListed
<1>2. pvt[Head(discovery.todo)] \in DeviceType
  BY <1>1, OfDevice
<1>3. Listed(Head(discovery.todo))
  BY <1>1, Among DEF Listed
<1>4. pvt[Head(discovery.todo)].must_remove = FALSE
  BY <1>1, <1>2 DEF OwnedInv, RemovedIdle, DeviceType
<1>. QED  BY <1>1, <1>2, <1>3, <1>4 DEF OwnedInv, OpenIsRead

LEMMA RestateStep ==
    ASSUME OwnedInv, discovery.pc \in {"looking", "joining"}, discovery.todo # <<>>,
           NEW p, p = Head(discovery.todo), pvt[p].thread \in {"none", "done"},
           NEW state \in dev_state_t, Restate(p, pvt[p], state),
           plugged' = plugged, devices' = devices, unload' = unload
    PROVE  OwnedInv'
<1>. DEFINE e == [[pvt[p] EXCEPT !.thread = "none"] EXCEPT !.terminate = FALSE]
            f == CASE state = "remove"  -> [e EXCEPT !.must_remove = TRUE]
                   [] state = "stop"    -> e
                   [] state = "start"   -> pvt_start(e)
                   [] state = "restart" -> pvt_start([e EXCEPT !.desired = "start"])
<1>1. /\ pvt' = [pvt EXCEPT ![p] = f]
      /\ discovery' = [pc |-> "looking", todo |-> Tail(discovery.todo), doing |-> "start"]
  BY DEF Restate, Switched
<1>2. /\ e \in DeviceType /\ e.thread = "none" /\ e.fd = "closed" /\ e.must_remove = FALSE
  <2>1. pvt[p] \in DeviceType /\ pvt[p].fd = "closed" /\ pvt[p].must_remove = FALSE
    BY LookedAt
  <2>. QED  BY <2>1 DEF DeviceType
<1>. HIDE DEF e
<1>3. ASSUME NEW c \in DeviceType, c.thread = "none", c.fd = "closed", c.must_remove = FALSE
      PROVE  /\ pvt_start(c) \in DeviceType /\ pvt_start(c).must_remove = FALSE
             /\ pvt_start(c).fd # "closed" => pvt_start(c).thread \in {"begun", "reading"}
  <2>. DEFINE a == [[c EXCEPT !.fd = "open"] EXCEPT !.thread = "begun"]
              b == [[a EXCEPT !.connected = TRUE] EXCEPT !.current = "start"]
  <2>1. a \in DeviceType /\ a.must_remove = FALSE /\ a.thread = "begun"
    BY <1>3 DEF DeviceType
  <2>2. pvt_start(c) = IF Opens(c) THEN b ELSE c
    BY DEF pvt_start
  <2>. HIDE DEF a
  <2>3. b \in DeviceType /\ b.must_remove = FALSE /\ b.thread = "begun"
    BY <2>1 DEF DeviceType
  <2>. HIDE DEF b
  <2>. QED  BY <1>3, <2>2, <2>3
<1>4. /\ f \in DeviceType
      /\ f.must_remove => f.thread = "none"
      /\ f.fd # "closed" => f.thread \in {"begun", "reading"}
  <2>1. CASE state = "remove"
    <3>1. f = [e EXCEPT !.must_remove = TRUE]
      BY <2>1
    <3>. HIDE DEF f
    <3>. QED  BY <1>2, <3>1 DEF DeviceType
  <2>2. CASE state = "stop"
    <3>1. f = e
      BY <2>2
    <3>. QED  BY <1>2, <3>1
  <2>3. CASE state = "start"
    <3>1. f = pvt_start(e)
      BY <2>3
    <3>. QED  BY <1>2, <1>3, <3>1
  <2>4. CASE state = "restart"
    <3>. DEFINE g == [e EXCEPT !.desired = "start"]
    <3>1. g \in DeviceType /\ g.thread = "none" /\ g.fd = "closed" /\ g.must_remove = FALSE
      BY <1>2 DEF DeviceType, dev_state_t
    <3>2. f = pvt_start(g)
      BY <2>4
    <3>. HIDE DEF g
    <3>. QED  BY <1>3, <3>1, <3>2
  <2>. QED  BY <2>1, <2>2, <2>3, <2>4 DEF dev_state_t
<1>. HIDE DEF f
<1>5. "start" \in dev_state_t
  BY DEF dev_state_t
<1>6. pvt' = [pvt EXCEPT ![Head(discovery.todo)] = f]
  BY <1>1
<1>. QED  BY <1>1, <1>4, <1>5, <1>6, GoesOn

LEMMA LooksStep ==
    ASSUME OwnedInv, NEW p \in Pvt, DiscoveryLooks(p)
    PROVE  OwnedInv'
<1>. DEFINE d == [pvt[p] EXCEPT !.must_remove = FALSE]
<1>1. /\ discovery.pc = "looking" /\ discovery.todo # <<>> /\ p = Head(discovery.todo)
      /\ plugged' = plugged /\ devices' = devices /\ unload' = unload
  BY DEF DiscoveryLooks
<1>2. /\ pvt[p] \in DeviceType /\ pvt[p].must_remove = FALSE
      /\ pvt[p].thread \notin {"begun", "reading"} => pvt[p].fd = "closed"
      /\ pvt \in [Pvt -> DeviceType]
      /\ discovery \in [pc : {"asleep", "looking", "joining", "ended"},
                        todo : Seq(Pvt), doing : dev_state_t]
  BY <1>1, LookedAt DEF OwnedInv, Typed
<1>3. d = pvt[p]
  BY <1>2 DEF DeviceType
<1>. HIDE DEF d
<1>4. CASE /\ pvt' = [pvt EXCEPT ![p] = d]
           /\ discovery' = [discovery EXCEPT !.todo = Tail(@)]
  <2>1. /\ discovery' = [pc |-> "looking", todo |-> Tail(discovery.todo), doing |-> discovery.doing]
        /\ discovery.doing \in dev_state_t
    BY <1>1, <1>2, <1>4
  <2>2. pvt' = [pvt EXCEPT ![Head(discovery.todo)] = pvt[p]]
    BY <1>1, <1>3, <1>4
  <2>. QED  BY <1>1, <1>2, <2>1, <2>2, GoesOn
<1>5. CASE NoMonitor(d) /\ Restate(p, d, d.desired)
  <2>1. pvt[p].thread = "none" /\ pvt[p].desired \in dev_state_t
    BY <1>2, <1>3, <1>5 DEF NoMonitor, DeviceType
  <2>2. Restate(p, pvt[p], pvt[p].desired)
    BY <1>3, <1>5
  <2>. QED  BY <1>1, <2>1, <2>2, RestateStep
<1>6. CASE /\ ~NoMonitor(d) /\ pvt' = [pvt EXCEPT ![p] = Told(d)]
           /\ discovery' = [discovery EXCEPT !.pc = "joining", !.doing = d.desired]
  <2>. DEFINE t == Told(pvt[p])
  <2>1. t \in DeviceType /\ Keeps(pvt[p], t)
    BY <1>2 DEF Told, DeviceType, Keeps
  <2>. HIDE DEF t
  <2>2. /\ pvt' \in [Pvt -> DeviceType]
        /\ \A q \in Pvt : Keeps(pvt[q], pvt'[q])
    <3>1. pvt' = [pvt EXCEPT ![p] = t]
      BY <1>3, <1>6 DEF t
    <3>2. /\ pvt' \in [Pvt -> DeviceType]
          /\ \A q \in Pvt : pvt'[q] = IF q = p THEN t ELSE pvt[q]
      BY <1>2, <2>1, <3>1
    <3>. QED  BY <2>1, <3>2, OfDevice
  <2>3. discovery' = [pc |-> "joining", todo |-> discovery.todo, doing |-> pvt[p].desired]
    BY <1>2, <1>3, <1>6
  <2>4. Typed'
    BY <1>1, <1>2, <2>2, <2>3 DEF OwnedInv, Typed, DeviceType
  <2>5. OpenIsRead'
    BY <2>2 DEF OpenIsRead, Keeps
  <2>6. TodoListed'
    BY <1>1, <2>3 DEF OwnedInv, TodoListed
  <2>7. RemovedIdle'
    BY <1>1, <2>2, <2>3 DEF OwnedInv, RemovedIdle, Keeps, Listed
  <2>8. DestroyedLast'
    BY <1>1, <2>3 DEF OwnedInv, DestroyedLast
  <2>9. MonitorsOwned'
    BY <1>1, <2>2 DEF OwnedInv, MonitorsOwned, Keeps, Listed
  <2>. QED  BY <2>4, <2>5, <2>6, <2>7, <2>8, <2>9 DEF OwnedInv
<1>. QED  BY <1>4, <1>5, <1>6 DEF DiscoveryLooks, d

LEMMA CannotStep ==
    ASSUME OwnedInv, CannotTrylock
    PROVE  OwnedInv'
<1>. DEFINE p == Head(discovery.todo)
<1>1. /\ discovery.pc = "looking" /\ discovery.todo # <<>>
      /\ plugged' = plugged /\ devices' = devices /\ unload' = unload /\ pvt' = pvt
      /\ discovery' = [discovery EXCEPT !.todo = Tail(@)]
  BY DEF CannotTrylock
<1>2. /\ pvt[p] \in DeviceType /\ pvt[p].must_remove = FALSE
      /\ pvt[p].thread \notin {"begun", "reading"} => pvt[p].fd = "closed"
      /\ pvt \in [Pvt -> DeviceType]
      /\ discovery \in [pc : {"asleep", "looking", "joining", "ended"},
                        todo : Seq(Pvt), doing : dev_state_t]
  BY <1>1, LookedAt DEF OwnedInv, Typed
<1>3. /\ discovery' = [pc |-> "looking", todo |-> Tail(discovery.todo), doing |-> discovery.doing]
      /\ discovery.doing \in dev_state_t
  BY <1>1, <1>2
<1>4. pvt' = [pvt EXCEPT ![p] = pvt[p]]
  BY <1>1, <1>2
<1>. QED  BY <1>1, <1>2, <1>3, <1>4, GoesOn

LEMMA JoinedStep ==
    ASSUME OwnedInv, MonitorJoined
    PROVE  OwnedInv'
<1>1. /\ discovery.pc = "joining" /\ pvt[Head(discovery.todo)].thread = "done"
      /\ Restate(Head(discovery.todo), pvt[Head(discovery.todo)], discovery.doing)
      /\ plugged' = plugged /\ devices' = devices /\ unload' = unload
  BY DEF MonitorJoined
<1>2. discovery.todo # <<>> /\ discovery.doing \in dev_state_t
  BY <1>1 DEF OwnedInv, Typed, TodoListed
<1>. QED  BY <1>1, <1>2, RestateStep

LEMMA RemovesStep ==
    ASSUME OwnedInv, NEW i \in DOMAIN devices, DiscoveryRemoves(i)
    PROVE  OwnedInv'
<1>. DEFINE p == devices[i]
            d == Freed(pvt[p])
<1>1. /\ discovery.pc = "looking" /\ discovery.todo = <<>> /\ pvt[p].must_remove
      /\ devices' = RemoveAt(devices, i) /\ pvt' = [pvt EXCEPT ![p] = d]
      /\ plugged' = plugged /\ discovery' = discovery /\ unload' = unload
  BY DEF DiscoveryRemoves, pvt_free
<1>2. devices \in Seq(Pvt) /\ IsInjective(devices) /\ pvt \in [Pvt -> DeviceType]
  BY DEF OwnedInv, Typed
<1>3. /\ devices' \in Seq(Pvt) /\ IsInjective(devices')
      /\ ToSet(devices') = ToSet(devices) \ {p}
  BY <1>1, <1>2, Removed
<1>4. p \in Pvt
  BY <1>2, LenProperties, ElementOfSeq
<1>5. d \in DeviceType /\ d.thread = "none" /\ d.fd = "closed" /\ ~d.must_remove
  BY <1>1, <1>4, FreedDevice DEF OwnedInv, RemovedIdle
<1>. HIDE DEF p, d
<1>6. /\ pvt' \in [Pvt -> DeviceType]
      /\ \A q \in Pvt : pvt'[q] = IF q = p THEN d ELSE pvt[q]
  BY <1>1, <1>2, <1>4, <1>5
<1>7. \A q \in Pvt : q # p /\ Listed(q) => Listed(q)'
  BY <1>2, <1>3, Among DEF Listed
<1>8. Typed'
  BY <1>1, <1>3, <1>6 DEF OwnedInv, Typed
<1>9. OpenIsRead'
  BY <1>5, <1>6 DEF OwnedInv, OpenIsRead
<1>10. TodoListed'
  <2>1. ToSet(<<>>) = {}
    BY DEF ToSet
  <2>. QED  BY <1>1, <2>1 DEF OwnedInv, TodoListed
<1>11. RemovedIdle'
  BY <1>1, <1>5, <1>6, <1>7 DEF OwnedInv, RemovedIdle
<1>12. DestroyedLast'
  BY <1>1 DEF OwnedInv, DestroyedLast
<1>13. MonitorsOwned'
  BY <1>1, <1>5, <1>6, <1>7 DEF OwnedInv, MonitorsOwned
<1>. QED  BY <1>8, <1>9, <1>10, <1>11, <1>12, <1>13 DEF OwnedInv

LEMMA SleepsStep ==
    ASSUME OwnedInv, DiscoverySleeps \/ DiscoveryEnds
    PROVE  OwnedInv'
<1>1. /\ plugged' = plugged /\ devices' = devices /\ unload' = unload /\ pvt' = pvt
      /\ discovery.todo = <<>>
      /\ \/ discovery' = [discovery EXCEPT !.pc = "asleep"]
         \/ discovery' = [discovery EXCEPT !.pc = "ended"] /\ unload.pc # "loaded"
      /\ discovery.pc # "ended"
  BY DEF DiscoverySleeps, DiscoveryEnds, OwnedInv, TodoListed
<1>2. \A p \in Pvt : ~pvt[p].must_remove
  <2>1. CASE DiscoverySleeps
    <3>1. \A p \in Pvt : Listed(p) => p \in ToSet(devices)
      BY Among DEF OwnedInv, Typed, Listed
    <3>. QED  BY <2>1, <3>1 DEF DiscoverySleeps, OwnedInv, RemovedIdle
  <2>2. CASE DiscoveryEnds
    BY <2>2 DEF DiscoveryEnds, OwnedInv, RemovedIdle
  <2>. QED  BY <2>1, <2>2
<1>3. /\ discovery' \in [pc : {"asleep", "looking", "joining", "ended"},
                         todo : Seq(Pvt), doing : dev_state_t]
      /\ discovery'.todo = <<>>
      /\ \/ discovery'.pc = "asleep"
         \/ discovery'.pc = "ended" /\ unload.pc # "loaded"
  BY <1>1 DEF OwnedInv, Typed
<1>4. Typed'
  BY <1>1, <1>3 DEF OwnedInv, Typed
<1>5. TodoListed'
  BY <1>1, <1>3 DEF OwnedInv, TodoListed
<1>6. DestroyedLast'
  BY <1>1, <1>3 DEF OwnedInv, DestroyedLast
<1>7. OpenIsRead' /\ RemovedIdle' /\ MonitorsOwned'
  BY <1>1, <1>2 DEF OwnedInv, OpenIsRead, RemovedIdle, MonitorsOwned, Listed
<1>. QED  BY <1>4, <1>5, <1>6, <1>7 DEF OwnedInv

-----------------------------------------------------------------------------
(* Unloading                                                               *)

LEMMA UnloadOnly ==
    ASSUME OwnedInv, UnloadBegins \/ DiscoveryJoined \/ UnloadEnds
    PROVE  OwnedInv'
<1>1. /\ plugged' = plugged /\ devices' = devices /\ pvt' = pvt /\ discovery' = discovery
      /\ unload.on = None
      /\ \/ unload' = [unload EXCEPT !.pc = "joining"]
         \/ unload' = [unload EXCEPT !.pc = "destroying"] /\ discovery.pc = "ended"
         \/ unload' = [unload EXCEPT !.pc = "unloaded"] /\ unload.pc = "destroying"
      /\ unload.pc # "unloaded"
      /\ unload.pc = "destroying" => discovery.pc = "ended"
      /\ unload.pc \in {"joining", "destroying"} \/ unload' = [unload EXCEPT !.pc = "joining"]
  BY DEF UnloadBegins, DiscoveryJoined, UnloadEnds, OwnedInv, DestroyedLast
<1>2. /\ unload' \in [pc : {"loaded", "joining", "destroying", "unloaded"},
                      on : Pvt \union {None}]
      /\ unload'.on = unload.on
      /\ unload'.pc \in {"destroying", "unloaded"} => discovery.pc = "ended"
      /\ unload'.pc # "loaded"
  BY <1>1 DEF OwnedInv, Typed
<1>3. Typed' /\ DestroyedLast'
  BY <1>1, <1>2 DEF OwnedInv, Typed, DestroyedLast
<1>4. OpenIsRead' /\ TodoListed' /\ RemovedIdle' /\ MonitorsOwned'
  BY <1>1, <1>2 DEF OwnedInv, OpenIsRead, TodoListed, RemovedIdle, MonitorsOwned, Listed
<1>. QED  BY <1>3, <1>4 DEF OwnedInv

LEMMA DestroyStep ==
    ASSUME OwnedInv, pvt_destroy
    PROVE  OwnedInv'
<1>. DEFINE h == Head(devices)
            d == Told(pvt[h])
<1>1. /\ unload.pc = "destroying" /\ unload.on = None /\ devices # <<>>
      /\ devices' = Tail(devices) /\ unload' = [unload EXCEPT !.on = h]
      /\ pvt' = [pvt EXCEPT ![h] = d] /\ plugged' = plugged /\ discovery' = discovery
  BY DEF pvt_destroy
<1>2. /\ devices \in Seq(Pvt) /\ IsInjective(devices) /\ pvt \in [Pvt -> DeviceType]
      /\ discovery.pc = "ended" /\ discovery.todo = <<>>
  BY <1>1 DEF OwnedInv, Typed, DestroyedLast, TodoListed
<1>3. /\ devices' \in Seq(Pvt) /\ IsInjective(devices') /\ h \in Pvt
      /\ ToSet(devices) = {h} \union ToSet(devices')
  BY <1>1, <1>2, TailOf
<1>4. d \in DeviceType /\ Keeps(pvt[h], d)
  <2>. DEFINE told == pvt[h].terminate \/ pvt[h].thread # "none"
  <2>1. d = [pvt[h] EXCEPT !.terminate = told] /\ told \in BOOLEAN
    BY DEF Told
  <2>2. pvt[h] \in DeviceType /\ Keeps(pvt[h], pvt[h])
    BY <1>3, OfDevice
  <2>. HIDE DEF d, told
  <2>. QED  BY <2>1, <2>2 DEF DeviceType, Keeps
<1>. HIDE DEF h, d
<1>5. /\ pvt' \in [Pvt -> DeviceType]
      /\ \A q \in Pvt : pvt'[q] = IF q = h THEN d ELSE pvt[q]
  BY <1>1, <1>2, <1>3, <1>4
<1>6. \A q \in Pvt : Keeps(pvt[q], pvt'[q])
  BY <1>4, <1>5, OfDevice
<1>7. \A q \in Pvt : Listed(q) => q = h \/ Listed(q)'
  BY <1>2, <1>3, Among DEF Listed
<1>8. unload' = [pc |-> "destroying", on |-> h]
  BY <1>1 DEF OwnedInv, Typed
<1>9. Typed'
  BY <1>1, <1>3, <1>5, <1>8 DEF OwnedInv, Typed
<1>10. OpenIsRead'
  BY <1>6 DEF OpenIsRead, Keeps
<1>11. TodoListed'
  <2>1. ToSet(<<>>) = {}
    BY DEF ToSet
  <2>. QED  BY <1>1, <1>2, <2>1 DEF OwnedInv, TodoListed
<1>12. RemovedIdle'
  BY <1>2, <1>6 DEF OwnedInv, RemovedIdle, Keeps
<1>13. DestroyedLast'
  BY <1>1, <1>2, <1>8 DEF DestroyedLast
<1>14. MonitorsOwned'
  BY <1>1, <1>6, <1>7, <1>8, LifecycleAssumption DEF OwnedInv, MonitorsOwned, Keeps
<1>. QED  BY <1>9, <1>10, <1>11, <1>12, <1>13, <1>14 DEF OwnedInv

LEMMA DestroyedStep ==
    ASSUME OwnedInv, Destroyed
    PROVE  OwnedInv'
<1>. DEFINE p == unload.on
            d == Freed(pvt[p])
<1>1. /\ unload.on # None /\ pvt[p].thread \in {"none", "done"}
      /\ pvt' = [pvt EXCEPT ![p] = d] /\ unload' = [unload EXCEPT !.on = None]
      /\ plugged' = plugged /\ devices' = devices /\ discovery' = discovery
  BY DEF Destroyed, pvt_free
<1>2. p \in Pvt /\ pvt \in [Pvt -> DeviceType]
  BY <1>1 DEF OwnedInv, Typed
<1>3. d \in DeviceType /\ d.thread = "none" /\ d.fd = "closed" /\ ~d.must_remove
  BY <1>1, <1>2, FreedDevice
<1>. HIDE DEF d
<1>4. /\ pvt' \in [Pvt -> DeviceType]
      /\ \A q \in Pvt : pvt'[q] = IF q = p THEN d ELSE pvt[q]
  BY <1>1, <1>2, <1>3
<1>5. unload' = [pc |-> unload.pc, on |-> None] /\ unload.pc = "destroying"
  BY <1>1 DEF OwnedInv, Typed, DestroyedLast
<1>6. Typed'
  BY <1>1, <1>4, <1>5 DEF OwnedInv, Typed
<1>7. OpenIsRead'
  BY <1>3, <1>4 DEF OwnedInv, OpenIsRead
<1>8. TodoListed'
  BY <1>1 DEF OwnedInv, TodoListed
<1>9. RemovedIdle'
  BY <1>1, <1>3, <1>4 DEF OwnedInv, RemovedIdle, Listed
<1>10. DestroyedLast'
  BY <1>1, <1>5 DEF OwnedInv, DestroyedLast
<1>11. MonitorsOwned'
  BY <1>1, <1>3, <1>4 DEF OwnedInv, MonitorsOwned, Listed
<1>. QED  BY <1>6, <1>7, <1>8, <1>9, <1>10, <1>11 DEF OwnedInv

-----------------------------------------------------------------------------
(* The theorem                                                             *)

LEMMA BeginsOwned == Init => OwnedInv
<1>. SUFFICES ASSUME Init PROVE OwnedInv
  OBVIOUS
<1>. DEFINE m == CHOOSE m \in Modem : TRUE
<1>1. m \in Modem
  BY LifecycleAssumption
<1>2. /\ plugged \subseteq Modem /\ devices = <<>>
      /\ pvt = [p \in Pvt |-> pvt_create(m)]
      /\ discovery = [pc |-> "asleep", todo |-> <<>>, doing |-> "start"]
      /\ unload = [pc |-> "loaded", on |-> None]
  BY DEF Init
<1>. HIDE DEF m
<1>3. \A p \in Pvt : /\ pvt[p] \in DeviceType /\ pvt[p].thread = "none"
                     /\ pvt[p].fd = "closed" /\ ~pvt[p].must_remove
  BY <1>1, <1>2, Created
<1>4. <<>> \in Seq(Pvt) /\ IsInjective(<<>>) /\ ToSet(<<>>) = {}
  BY EmptySeq DEF IsInjective, ToSet
<1>5. Typed
  <2>1. pvt \in [Pvt -> DeviceType]
    BY <1>2, <1>3
  <2>. QED  BY <1>2, <1>4, <2>1 DEF Typed, dev_state_t
<1>6. TodoListed /\ DestroyedLast
  BY <1>2, <1>4 DEF TodoListed, DestroyedLast
<1>7. OpenIsRead /\ RemovedIdle /\ MonitorsOwned
  BY <1>3 DEF OpenIsRead, RemovedIdle, MonitorsOwned
<1>. QED  BY <1>5, <1>6, <1>7 DEF OwnedInv

LEMMA StaysOwned ==
    ASSUME OwnedInv, AskersKnown, [Next]_vars
    PROVE  OwnedInv'
<1>1. CASE \E m \in Modem : Unplug(m) \/ Plug(m)
  BY <1>1, UnplugStep, PlugStep
<1>2. CASE Discovery
  BY <1>2, WakesStep, JoinedStep, RemovesStep, SleepsStep DEF Discovery
<1>3. CASE CannotTrylock
  BY <1>3, CannotStep
<1>4. ASSUME NEW p \in Pvt, DiscoveryLooks(p)
      PROVE  OwnedInv'
  BY <1>4, LooksStep
<1>5. ASSUME NEW p \in Pvt, Monitor(p) \/ MonitorGivesUp(p)
      PROVE  OwnedInv'
  BY <1>5, MonitorStep
<1>6. ASSUME NEW p \in Pvt, NEW s \in Service, ServiceBegins(p, s) \/ ServiceEnds(p, s)
      PROVE  OwnedInv'
  BY <1>6, ServiceBeginsStep, ServiceEndsStep
<1>7. ASSUME NEW o \in Operator,
             \/ \E p \in Pvt : find_device(o, p)
             \/ \E event \in dev_state_t, when \in restate_time_t :
                   DesiredWritten(o, event, when)
             \/ RestartTimeWritten(o)
      PROVE  OwnedInv'
  BY <1>7, FindsStep, DesiredStep, TimeStep
<1>8. CASE UnloadBegins \/ Unloading
  BY <1>8, UnloadOnly, DestroyStep, DestroyedStep DEF Unloading
<1>9. CASE Unloaded \/ Stuck \/ UNCHANGED vars
  <2>1. /\ plugged' = plugged /\ devices' = devices /\ pvt' = pvt /\ discovery' = discovery
        /\ unload' = unload
    BY <1>9 DEF Unloaded, Stuck, vars
  <2>2. /\ (plugged \subseteq Modem)' /\ pvt' \in [Pvt -> DeviceType]
        /\ \A p \in Pvt : Keeps(pvt[p], pvt'[p])
    BY <2>1, OfDevice DEF OwnedInv, Typed
  <2>. QED  BY <2>1, <2>2, AllKeep
<1>. QED  BY <1>1, <1>2, <1>3, <1>4, <1>5, <1>6, <1>7, <1>8, <1>9 DEF Next

-----------------------------------------------------------------------------
(* One reader of a tty, and graceful stops                                 *)

TableTyped ==
    /\ usbdevs \in Seq(Modem) /\ IsInjective(usbdevs)
    /\ dismissed \subseteq Modem

LocksTyped == lockfile \in [Modem -> Pvt \union {None}]

WishType == [event : dev_state_t \union {"none"}, when : restate_time_t]
WishTyped == wish \in [Pvt -> WishType]

\* A monitor reads an open tty, of a modem that is there or was, and its device
\* is started. A device that serves somebody and has something else to become at
\* once has a reason for it, or is being asked: a request that waits finds it idle,
\* and nothing begins behind it.
Sound(p, d, w) ==
    /\ d.fd = "open" => d.tty \in plugged
    /\ d.thread \in {"begun", "reading"} => d.fd # "closed"
    /\ d.thread \in {"begun", "reading", "leaving"} => d.current = "start"
    /\ d.current = "start" => d.connected
    /\ d.thread \in {"none", "done"} => d.busy = {}
    /\ /\ d.thread \in {"begun", "reading"} /\ d.desired # d.current
       /\ d.when = "now" /\ d.busy # {}
       => Excused(d, w) \/ HalfWritten(p)

DevicesSound == \A p \in Pvt : Sound(p, pvt[p], wish[p])

\* What the discovery does about a device when its monitor has ended is still
\* what the device is to do, unless somebody asked for something else.
JoinKnown ==
    discovery.pc = "joining" /\ ~hasty =>
        LET d == pvt[Head(discovery.todo)]
        IN  /\ d.desired = discovery.doing \/ discovery.doing = "stop"
            /\ d.connected => d.desired # d.current

\* A device that was asked to stop or to go has nothing else to do.
StopKept ==
    ~hasty => \A p \in Pvt : wish[p].event \in {"stop", "remove"} =>
                               pvt[p].desired \in {"stop", "remove"}

\* Only of a device that is listed, or being destroyed, somebody wishes something.
Unwished == \A p \in Pvt : Listed(p) \/ unload.on = p \/ wish[p] = NoWish

\* The devices that have their tty, or may take it.
Holds(p) == pvt[p].fd = "open" \/ (Listed(p) /\ pvt[p].desired # "remove")

\* A tty has one such device, and the discovery knows of it.
HeldOnce ==
    \/ hasty
    \/ /\ \A p \in Pvt : Holds(p) => pvt[p].tty \in ToSet(usbdevs)
       /\ \A p, q \in Pvt : Holds(p) /\ Holds(q) /\ pvt[p].tty = pvt[q].tty => p = q

\* With OwnedInv, the inductive invariant.
LifeInv ==
    /\ TableTyped /\ LocksTyped /\ WishTyped
    /\ DevicesSound /\ JoinKnown /\ HeldOnce
    /\ AskersKnown /\ StopKept /\ Unwished

-----------------------------------------------------------------------------
(* usbdevs_find                                                            *)

\* What usbdevs_find does about the place o - 1 of the table t.
SweptAt(t, o) ==
    IF o - 1 > Len(t) \/ t[o - 1] \in plugged THEN t
    ELSE Front([t EXCEPT ![o - 1] = Last(t)])

\* s is t without some modems that are gone.
OnlyGone(s, t) ==
    /\ s \in Seq(Modem) /\ IsInjective(s)
    /\ ToSet(s) \subseteq ToSet(t)
    /\ ToSet(t) \ ToSet(s) \subseteq Modem \ plugged

LEMMA LastTakesPlace ==
    ASSUME NEW t \in Seq(Modem), IsInjective(t), NEW i \in 1 .. Len(t)
    PROVE  LET s == Front([t EXCEPT ![i] = Last(t)])
           IN  s \in Seq(Modem) /\ IsInjective(s) /\ ToSet(s) = ToSet(t) \ {t[i]}
<1>. DEFINE n == Len(t)
            u == [t EXCEPT ![i] = Last(t)]
            s == Front(u)
<1>1. /\ n \in Nat /\ n >= 1 /\ DOMAIN t = 1 .. n /\ \A k \in 1 .. n : t[k] \in Modem
      /\ \A k, l \in 1 .. n : t[k] = t[l] => k = l
  BY LenProperties, ElementOfSeq DEF IsInjective
<1>2. Last(t) = t[n]
  BY DEF Last
<1>3. /\ u \in Seq(Modem) /\ Len(u) = n
      /\ \A k \in 1 .. n : u[k] = IF k = i THEN t[n] ELSE t[k]
  BY <1>1, <1>2
<1>. HIDE DEF n, u
<1>4. s = SubSeq(u, 1, n - 1)
  BY <1>3 DEF Front
<1>5. /\ s \in Seq(Modem) /\ Len(s) = n - 1 /\ \A k \in 1 .. n - 1 : s[k] = u[k]
  <2>1. 1 \in 1 .. Len(u) + 1 /\ n - 1 \in 1 - 1 .. Len(u) /\ \A k \in Int : 1 + k - 1 = k
    BY <1>1, <1>3
  <2>2. (n - 1) - 1 + 1 = n - 1
    BY <1>1
  <2>. QED  BY <1>3, <1>4, <2>1, <2>2, SubSeqProperties
<1>. HIDE DEF s
<1>6. DOMAIN s = 1 .. n - 1
  BY <1>5, LenProperties
<1>7. \A k \in 1 .. n - 1 : /\ k \in 1 .. n /\ k # n
                           /\ s[k] = IF k = i THEN t[n] ELSE t[k]
  BY <1>1, <1>3, <1>5
<1>8. i \in 1 .. n /\ n \in 1 .. n
  BY <1>1 DEF n
<1>9. IsInjective(s)
  BY <1>1, <1>6, <1>7, <1>8 DEF IsInjective
<1>10. \A e : e \in ToSet(s) <=> \E k \in 1 .. n - 1 : s[k] = e
  BY <1>6 DEF ToSet
<1>11. \A e : e \in ToSet(t) <=> \E k \in 1 .. n : t[k] = e
  BY <1>1 DEF ToSet
<1>12. ASSUME NEW e \in ToSet(s) PROVE e \in ToSet(t) /\ e # t[i]
  <2>1. PICK k \in 1 .. n - 1 : s[k] = e
    BY <1>10
  <2>. QED  BY <1>1, <1>7, <1>8, <1>11, <2>1
<1>13. ASSUME NEW e \in ToSet(t), e # t[i] PROVE e \in ToSet(s)
  <2>1. PICK k \in 1 .. n : t[k] = e
    BY <1>11
  <2>2. CASE k = n
    <3>1. i \in 1 .. n - 1
      BY <1>1, <1>8, <1>13, <2>1, <2>2
    <3>2. s[i] = e
      BY <1>7, <2>1, <2>2, <3>1
    <3>. QED  BY <1>10, <3>1, <3>2
  <2>3. CASE k # n
    <3>1. k \in 1 .. n - 1 /\ k # i
      BY <1>1, <1>13, <2>1, <2>3
    <3>2. s[k] = e
      BY <1>7, <2>1, <3>1
    <3>. QED  BY <1>10, <3>1, <3>2
  <2>. QED  BY <2>2, <2>3
<1>14. ToSet(s) = ToSet(t) \ {t[i]}
  BY <1>12, <1>13
<1>. QED  BY <1>5, <1>9, <1>14 DEF s, u

LEMMA SweptOnce ==
    ASSUME NEW t \in Seq(Modem), IsInjective(t), NEW o \in Nat, o >= 2
    PROVE  OnlyGone(SweptAt(t, o), t)
<1>1. CASE o - 1 > Len(t) \/ t[o - 1] \in plugged
  BY <1>1 DEF SweptAt, OnlyGone
<1>2. CASE ~(o - 1 > Len(t) \/ t[o - 1] \in plugged)
  <2>. DEFINE i == o - 1
              s == Front([t EXCEPT ![i] = Last(t)])
  <2>1. i \in 1 .. Len(t) /\ t[i] \notin plugged
    BY <1>2, LenProperties
  <2>2. SweptAt(t, o) = s
    BY <1>2 DEF SweptAt
  <2>. HIDE DEF i
  <2>3. s \in Seq(Modem) /\ IsInjective(s) /\ ToSet(s) = ToSet(t) \ {t[i]}
    BY <2>1, LastTakesPlace
  <2>4. t[i] \in Modem
    BY <2>1, ElementOfSeq
  <2>. HIDE DEF s
  <2>. QED  BY <2>1, <2>2, <2>3, <2>4 DEF OnlyGone
<1>. QED  BY <1>1, <1>2

LEMMA GoneFurther ==
    ASSUME NEW r, NEW s, NEW t, OnlyGone(r, s), OnlyGone(s, t)
    PROVE  OnlyGone(r, t)
BY DEF OnlyGone

LEMMA LeastNumber ==
    ASSUME NEW S \in SUBSET Nat, S # {}
    PROVE  \E i \in S : \A j \in S : i <= j
<1>1. PICK i \in S : \A j \in S : ~(<<j, i>> \in OpToRel(<, Nat))
  BY NatLessThanWellFounded, WFMin
<1>2. \A j \in S : ~(j < i)
  BY <1>1 DEF OpToRel
<1>. QED  BY <1>2

\* The table of modems after each turn of the loop of usbdevs_find.
Turns(f, table, n) == f = [o \in 1 .. n |-> IF o = 1 THEN table ELSE SweptAt(f[o - 1], o)]

LEMMA TurnsExist ==
    ASSUME NEW table, NEW n \in Nat
    PROVE  \E f : Turns(f, table, n)
<1>. DEFINE S == {k \in Nat : ~\E f : Turns(f, table, k)}
<1>. SUFFICES ASSUME S # {} PROVE FALSE
  OBVIOUS
<1>1. PICK k \in S : \A j \in S : k <= j
  <2>1. S \in SUBSET Nat
    OBVIOUS
  <2>. HIDE DEF S
  <2>. QED  BY <2>1, LeastNumber
<1>2. CASE k = 0
  <2>. DEFINE f == [o \in {} |-> table]
  <2>1. 1 .. k = {}
    BY <1>2
  <2>2. f = [o \in 1 .. k |-> IF o = 1 THEN table ELSE SweptAt(f[o - 1], o)]
    BY <2>1
  <2>. QED  BY <1>1, <2>2 DEF Turns
<1>3. CASE k # 0
  <2>1. k \in Nat /\ k - 1 \in Nat /\ k - 1 \notin S
    BY <1>1, <1>3
  <2>2. PICK g : Turns(g, table, k - 1)
    BY <2>1
  <2>3. g = [o \in 1 .. k - 1 |-> IF o = 1 THEN table ELSE SweptAt(g[o - 1], o)]
    BY <2>2 DEF Turns
  <2>. DEFINE f == [o \in 1 .. k |-> IF o = 1 THEN table
                                     ELSE IF o = k THEN SweptAt(g[k - 1], k) ELSE g[o]]
  <2>4. ASSUME NEW o \in 1 .. k
        PROVE  f[o] = IF o = 1 THEN table ELSE SweptAt(f[o - 1], o)
    <3>1. CASE o = 1
      BY <3>1
    <3>2. CASE o # 1
      <4>1. o - 1 \in 1 .. k - 1 /\ o - 1 \in 1 .. k /\ o - 1 # k
        BY <2>1, <3>2
      <4>2. f[o - 1] = g[o - 1]
        <5>1. o - 1 = 1 => g[o - 1] = table
          BY <2>3, <4>1
        <5>. QED  BY <4>1, <5>1
      <4>3. CASE o = k
        BY <3>2, <4>2, <4>3
      <4>4. CASE o # k
        <5>1. o \in 1 .. k - 1
          BY <2>1, <4>4
        <5>2. g[o] = SweptAt(g[o - 1], o)
          BY <2>3, <3>2, <5>1
        <5>3. f[o] = g[o]
          BY <3>2, <4>4
        <5>. QED  BY <3>2, <4>2, <5>2, <5>3
      <4>. QED  BY <4>3, <4>4
    <3>. QED  BY <3>1, <3>2
  <2>5. f = [o \in 1 .. k |-> f[o]]
    OBVIOUS
  <2>. HIDE DEF f
  <2>6. Turns(f, table, k)
    BY <2>4, <2>5 DEF Turns
  <2>. QED  BY <1>1, <2>6
<1>. QED  BY <1>2, <1>3

\* usbdevs_find forgets only modems that are gone (it may keep some of them).
LEMMA SweptTable ==
    ASSUME NEW table \in Seq(Modem), IsInjective(table)
    PROVE  OnlyGone(Swept(table), table)
<1>. DEFINE n == Len(table) + 1
            U == CHOOSE f : f = [o \in 1 .. n |->
                                    IF o = 1 THEN table ELSE SweptAt(f[o - 1], o)]
<1>1. Swept(table) = U[n]
  BY DEF Swept, SweptAt
<1>2. n \in Nat /\ n >= 1
  BY LenProperties
<1>. HIDE DEF n
<1>3. \E f : f = [o \in 1 .. n |-> IF o = 1 THEN table ELSE SweptAt(f[o - 1], o)]
  <2>1. PICK f : Turns(f, table, n)
    BY <1>2, TurnsExist
  <2>2. f = [o \in 1 .. n |-> IF o = 1 THEN table ELSE SweptAt(f[o - 1], o)]
    BY <2>1 DEF Turns
  <2>. QED  BY <2>2
<1>4. U = [o \in 1 .. n |-> IF o = 1 THEN table ELSE SweptAt(U[o - 1], o)]
  BY <1>3
<1>. HIDE DEF U
<1>5. /\ U[1] = table
      /\ \A o \in 1 .. n : o # 1 => U[o] = SweptAt(U[o - 1], o)
  BY <1>2, <1>4
<1>. DEFINE S == {o \in Nat : o \in 1 .. n /\ ~OnlyGone(U[o], table)}
<1>6. S = {}
  <2>. SUFFICES ASSUME S # {} PROVE FALSE
    OBVIOUS
  <2>1. PICK k \in S : \A j \in S : k <= j
    <3>1. S \in SUBSET Nat
      OBVIOUS
    <3>. HIDE DEF S
    <3>. QED  BY <3>1, LeastNumber
  <2>2. k \in 1 .. n /\ ~OnlyGone(U[k], table)
    BY <2>1
  <2>3. OnlyGone(table, table)
    BY DEF OnlyGone
  <2>4. k # 1
    BY <1>5, <2>2, <2>3
  <2>5. k - 1 \in 1 .. n /\ k - 1 \in Nat /\ k >= 2 /\ k \in Nat /\ ~(k <= k - 1)
    BY <1>2, <2>2, <2>4
  <2>6. OnlyGone(U[k - 1], table)
    BY <2>1, <2>5
  <2>7. OnlyGone(SweptAt(U[k - 1], k), U[k - 1])
    BY <2>5, <2>6, SweptOnce DEF OnlyGone
  <2>. QED  BY <1>5, <2>2, <2>4, <2>6, <2>7, GoneFurther
<1>7. n \in 1 .. n
  BY <1>2
<1>8. OnlyGone(U[n], table)
  BY <1>2, <1>6, <1>7
<1>. QED  BY <1>1, <1>8

-----------------------------------------------------------------------------
(* Steps that leave the table alone                                        *)

\* GracefulWaits and NotUndone of a step, for one device.
ToldInTime(p) == CutOff(p) => Excused(pvt[p], wish[p]) \/ HalfWritten(p)

LeftStopped(p) ==
    /\ wish[p].event \in {"stop", "remove"}
    /\ pvt[p].fd # "open" /\ pvt'[p].fd = "open"
    => hasty'

\* A device opens no tty, is told nothing, and is to do what it was to do.
Onward(old, new) ==
    /\ new.tty = old.tty /\ new.desired = old.desired
    /\ new.fd = "open" => old.fd = "open"
    /\ new.connected => old.connected /\ new.current = old.current
    /\ new.terminate => old.terminate

LEMMA SoundDevice ==
    ASSUME OwnedInv, LifeInv, NEW p \in Pvt
    PROVE  pvt[p] \in DeviceType /\ Sound(p, pvt[p], wish[p]) /\ Onward(pvt[p], pvt[p])
BY OfDevice DEF LifeInv, DevicesSound, Onward

LEMMA HeldStays ==
    ASSUME HeldOnce, hasty => hasty', usbdevs' = usbdevs,
           ~hasty' => \A p \in Pvt : Holds(p)' => Holds(p) /\ pvt'[p].tty = pvt[p].tty
    PROVE  HeldOnce'
BY DEF HeldOnce

\* The device whose monitor the discovery joins.
LEMMA JoinStays ==
    ASSUME OwnedInv, JoinKnown, discovery' = discovery, hasty' = hasty,
           \A p \in Pvt : Onward(pvt[p], pvt'[p])
    PROVE  JoinKnown'
<1>. SUFFICES ASSUME discovery.pc = "joining", ~hasty
              PROVE  LET d == pvt'[Head(discovery.todo)]
                     IN  /\ d.desired = discovery.doing \/ discovery.doing = "stop"
                         /\ d.connected => d.desired # d.current
  BY DEF JoinKnown
<1>1. discovery.todo # <<>>
  BY DEF OwnedInv, TodoListed
<1>2. Head(discovery.todo) \in Pvt
  BY <1>1, LookedAt
<1>. QED  BY <1>2 DEF JoinKnown, Onward

\* Devices somebody has found, or wishes something of, stay known.
LEMMA KnownStay ==
    ASSUME AskersKnown, Unwished, operator' = operator, wish' = wish,
           \A p \in Pvt : Listed(p) \/ unload.on = p => (Listed(p) \/ unload.on = p)'
    PROVE  AskersKnown' /\ Unwished'
BY DEF AskersKnown, Unwished

LEMMA AllGoOn ==
    ASSUME OwnedInv, LifeInv, DevicesSound', LocksTyped',
           \A p \in Pvt : Onward(pvt[p], pvt'[p]),
           discovery' = discovery \/ discovery'.pc # "joining",
           unload'.on = unload.on,
           UNCHANGED <<usbdevs, devices, operator, wish, dismissed, hasty>>
    PROVE  LifeInv' /\ \A p \in Pvt : ToldInTime(p) /\ LeftStopped(p)
<1>1. TableTyped' /\ WishTyped'
  BY DEF LifeInv, TableTyped, WishTyped
<1>2. HeldOnce'
  BY HeldStays DEF LifeInv, Onward, Holds, Listed
<1>3. JoinKnown'
  BY JoinStays DEF LifeInv, JoinKnown
<1>4. AskersKnown' /\ Unwished'
  BY KnownStay DEF LifeInv, Listed
<1>5. StopKept'
  BY DEF LifeInv, StopKept, Onward
<1>6. \A p \in Pvt : ToldInTime(p) /\ LeftStopped(p)
  BY DEF Onward, ToldInTime, LeftStopped, CutOff
<1>. QED  BY <1>1, <1>2, <1>3, <1>4, <1>5, <1>6 DEF LifeInv

LEMMA OneGoesOn ==
    ASSUME OwnedInv, LifeInv, LocksTyped', NEW p \in Pvt, NEW d \in DeviceType,
           Onward(pvt[p], d), Sound(p, d, wish[p]), pvt' = [pvt EXCEPT ![p] = d],
           UNCHANGED <<plugged, usbdevs, devices, discovery, unload, operator, wish, dismissed, hasty>>
    PROVE  LifeInv' /\ \A q \in Pvt : ToldInTime(q) /\ LeftStopped(q)
<1>1. \A q \in Pvt : pvt'[q] = IF q = p THEN d ELSE pvt[q]
  BY DEF OwnedInv, Typed
<1>2. \A q \in Pvt : Onward(pvt[q], pvt'[q])
  BY <1>1, SoundDevice
<1>3. DevicesSound'
  <2>1. \A q \in Pvt : Sound(q, pvt'[q], wish'[q])
    BY <1>1, SoundDevice
  <2>2. plugged' = plugged /\ unload' = unload /\ operator' = operator
    OBVIOUS
  <2>. QED  BY <2>1, <2>2 DEF DevicesSound, Sound, Excused, HalfWritten
<1>. QED  BY <1>2, <1>3, AllGoOn

\* What pvt_try_restate leaves alone, and when it does something.
LEMMA Restated ==
    ASSUME NEW e \in DeviceType
    PROVE  LET d == pvt_try_restate(e)
           IN  /\ d \in DeviceType
               /\ d.tty = e.tty /\ d.desired = e.desired /\ d.current = e.current
               /\ d.connected = e.connected /\ d.thread = e.thread
               /\ d.terminate = e.terminate /\ d.fd = e.fd /\ d.busy = e.busy
               /\ d.when = "now" => e.when = "now" \/ e.busy = {}
<1>. DEFINE f == [[e EXCEPT !.when = "now"] EXCEPT !.blocked = DiscoveryLocked]
<1>1. /\ f.tty = e.tty /\ f.desired = e.desired /\ f.current = e.current
      /\ f.connected = e.connected /\ f.thread = e.thread
      /\ f.terminate = e.terminate /\ f.fd = e.fd /\ f.busy = e.busy
  BY DEF DeviceType
<1>. HIDE DEF f
<1>2. pvt_try_restate(e) = IF pvt_time4restate(e) THEN f ELSE e
  BY DEF pvt_try_restate, f
<1>3. pvt_time4restate(e) => e.when = "now" \/ e.busy = {}
  BY DEF pvt_time4restate
<1>. QED  BY <1>1, <1>2, <1>3, TryRestate

LEMMA LifeUnplug ==
    ASSUME OwnedInv, LifeInv, NEW m \in Modem, Unplug(m)
    PROVE  LifeInv' /\ \A p \in Pvt : ToldInTime(p) /\ LeftStopped(p)
<1>1. /\ plugged' = plugged \ {m}
      /\ pvt' = [p \in Pvt |-> IF pvt[p].tty = m /\ pvt[p].fd = "open"
                               THEN [pvt[p] EXCEPT !.fd = "hung"] ELSE pvt[p]]
      /\ UNCHANGED <<usbdevs, devices, lockfile, discovery, unload, operator, wish, dismissed, hasty>>
  BY DEF Unplug, asked
<1>2. ASSUME NEW p \in Pvt
      PROVE  Onward(pvt[p], pvt'[p]) /\ Sound(p, pvt[p], wish[p])'
  <2>1. pvt[p] \in DeviceType /\ Sound(p, pvt[p], wish[p]) /\ Onward(pvt[p], pvt[p])
    BY SoundDevice
  <2>2. CASE pvt[p].tty = m /\ pvt[p].fd = "open"
    <3>. DEFINE d == [pvt[p] EXCEPT !.fd = "hung"]
    <3>1. pvt'[p] = d
      BY <1>1, <2>2
    <3>2. d.fd = "hung" /\ d.tty = pvt[p].tty /\ d.desired = pvt[p].desired
          /\ d.current = pvt[p].current /\ d.connected = pvt[p].connected
          /\ d.thread = pvt[p].thread /\ d.terminate = pvt[p].terminate
          /\ d.busy = pvt[p].busy
      BY <2>1 DEF DeviceType
    <3>. HIDE DEF d
    <3>. QED  BY <1>1, <2>1, <3>1, <3>2 DEF Onward, Sound, Excused, HalfWritten
  <2>3. CASE ~(pvt[p].tty = m /\ pvt[p].fd = "open")
    <3>1. pvt'[p] = pvt[p]
      BY <1>1, <2>3
    <3>. QED  BY <1>1, <2>1, <2>3, <3>1 DEF Sound, Excused, HalfWritten
  <2>. QED  BY <2>2, <2>3
<1>3. DevicesSound' /\ LocksTyped'
  BY <1>1, <1>2 DEF DevicesSound, LifeInv, LocksTyped
<1>. QED  BY <1>1, <1>2, <1>3, AllGoOn

LEMMA LifePlug ==
    ASSUME OwnedInv, LifeInv, NEW m \in Modem, Plug(m)
    PROVE  LifeInv' /\ \A p \in Pvt : ToldInTime(p) /\ LeftStopped(p)
<1>1. /\ plugged' = plugged \union {m}
      /\ UNCHANGED <<pvt, usbdevs, devices, lockfile, discovery, unload, operator, wish, dismissed, hasty>>
  BY DEF Plug, asked
<1>2. DevicesSound' /\ LocksTyped'
  BY <1>1 DEF LifeInv, DevicesSound, Sound, Excused, HalfWritten, LocksTyped
<1>3. \A p \in Pvt : Onward(pvt[p], pvt'[p])
  BY <1>1 DEF Onward
<1>. QED  BY <1>1, <1>2, <1>3, AllGoOn

LEMMA LifeServiceBegins ==
    ASSUME OwnedInv, LifeInv, NEW p \in Pvt, NEW s \in Service, ServiceBegins(p, s)
    PROVE  LifeInv' /\ \A q \in Pvt : ToldInTime(q) /\ LeftStopped(q)
<1>. DEFINE d == [pvt[p] EXCEPT !.busy = @ \union {s}]
<1>1. /\ pvt' = [pvt EXCEPT ![p] = d] /\ pvt_enabled(pvt[p]) /\ pvt[p].thread = "reading"
      /\ UNCHANGED <<plugged, usbdevs, devices, lockfile, discovery, unload, operator, wish, dismissed, hasty>>
  BY DEF ServiceBegins, asked
<1>2. pvt[p] \in DeviceType /\ Sound(p, pvt[p], wish[p])
  BY SoundDevice
<1>3. /\ d \in DeviceType /\ d.tty = pvt[p].tty /\ d.desired = pvt[p].desired
      /\ d.current = pvt[p].current /\ d.connected = pvt[p].connected
      /\ d.thread = pvt[p].thread /\ d.terminate = pvt[p].terminate
      /\ d.fd = pvt[p].fd /\ d.when = pvt[p].when
  BY <1>2 DEF DeviceType
<1>. HIDE DEF d
<1>4. Sound(p, d, wish[p])
  BY <1>1, <1>2, <1>3 DEF Sound, pvt_enabled
<1>5. Onward(pvt[p], d) /\ LocksTyped'
  BY <1>1, <1>3 DEF Onward, LifeInv, LocksTyped
<1>. QED  BY <1>1, <1>3, <1>4, <1>5, OneGoesOn

LEMMA LifeServiceEnds ==
    ASSUME OwnedInv, LifeInv, NEW p \in Pvt, NEW s \in Service, ServiceEnds(p, s)
    PROVE  LifeInv' /\ \A q \in Pvt : ToldInTime(q) /\ LeftStopped(q)
<1>. DEFINE e == [pvt[p] EXCEPT !.busy = @ \ {s}]
            d == Served(pvt[p], s)
<1>1. /\ pvt' = [pvt EXCEPT ![p] = d]
      /\ UNCHANGED <<plugged, usbdevs, devices, lockfile, discovery, unload, operator, wish, dismissed, hasty>>
  BY DEF ServiceEnds, asked
<1>2. pvt[p] \in DeviceType /\ Sound(p, pvt[p], wish[p])
  BY SoundDevice
<1>3. /\ e \in DeviceType /\ e.tty = pvt[p].tty /\ e.desired = pvt[p].desired
      /\ e.current = pvt[p].current /\ e.connected = pvt[p].connected
      /\ e.thread = pvt[p].thread /\ e.terminate = pvt[p].terminate
      /\ e.fd = pvt[p].fd /\ e.when = pvt[p].when /\ e.busy = pvt[p].busy \ {s}
  BY <1>2 DEF DeviceType
<1>4. d = IF s = "ussd" THEN e ELSE pvt_try_restate(e)
  BY DEF Served
<1>. HIDE DEF d, e
<1>5. /\ d \in DeviceType
      /\ d.tty = e.tty /\ d.desired = e.desired /\ d.current = e.current
      /\ d.connected = e.connected /\ d.thread = e.thread
      /\ d.terminate = e.terminate /\ d.fd = e.fd /\ d.busy = e.busy
      /\ d.when = "now" => e.when = "now" \/ e.busy = {}
  BY <1>3, <1>4, Restated
<1>6. Sound(p, d, wish[p])
  BY <1>2, <1>3, <1>5 DEF Sound, Excused, HalfWritten
<1>7. Onward(pvt[p], d) /\ LocksTyped'
  BY <1>1, <1>3, <1>5 DEF Onward, LifeInv, LocksTyped
<1>. QED  BY <1>1, <1>5, <1>6, <1>7, OneGoesOn

LEMMA LifeLeaves ==
    ASSUME OwnedInv, LifeInv, NEW p \in Pvt, NEW c \in DeviceType,
           c.tty = pvt[p].tty, c.desired = pvt[p].desired, c.current = pvt[p].current,
           c.connected = pvt[p].connected, c.terminate => pvt[p].terminate,
           MonitorLeaves(p, c)
    PROVE  LifeInv' /\ \A q \in Pvt : ToldInTime(q) /\ LeftStopped(q)
<1>. DEFINE e == [c EXCEPT !.busy = @ \ {"call"}]
            f == IF "call" \in c.busy THEN pvt_try_restate(e) ELSE e
            d == [[f EXCEPT !.thread = "leaving"] EXCEPT !.fd = "closed"]
<1>1. /\ pvt' = [pvt EXCEPT ![p] = d] /\ pvt[p].thread \in {"begun", "reading"}
      /\ lockfile' = [lockfile EXCEPT ![pvt[p].tty] = None]
      /\ UNCHANGED <<plugged, usbdevs, devices, discovery, unload, operator, wish, dismissed, hasty>>
  BY DEF MonitorLeaves, Disconnecting, asked
<1>2. Sound(p, pvt[p], wish[p])
  BY SoundDevice
<1>3. /\ e \in DeviceType /\ e.tty = c.tty /\ e.desired = c.desired
      /\ e.current = c.current /\ e.connected = c.connected /\ e.terminate = c.terminate
  BY DEF DeviceType
<1>. HIDE DEF e
<1>4. /\ f \in DeviceType /\ f.tty = e.tty /\ f.desired = e.desired
      /\ f.current = e.current /\ f.connected = e.connected /\ f.terminate = e.terminate
  BY <1>3, Restated
<1>. HIDE DEF f
<1>5. /\ d \in DeviceType /\ d.tty = f.tty /\ d.desired = f.desired
      /\ d.current = f.current /\ d.connected = f.connected /\ d.terminate = f.terminate
      /\ d.thread = "leaving" /\ d.fd = "closed"
  BY <1>4 DEF DeviceType
<1>. HIDE DEF d
<1>6. Sound(p, d, wish[p])
  BY <1>1, <1>2, <1>3, <1>4, <1>5 DEF Sound
<1>7. Onward(pvt[p], d)
  BY <1>3, <1>4, <1>5 DEF Onward
<1>8. LocksTyped'
  BY <1>1 DEF LifeInv, LocksTyped
<1>. QED  BY <1>1, <1>5, <1>6, <1>7, <1>8, OneGoesOn

LEMMA LifeMonitor ==
    ASSUME OwnedInv, LifeInv, NEW p \in Pvt, Monitor(p) \/ MonitorGivesUp(p)
    PROVE  LifeInv' /\ \A q \in Pvt : ToldInTime(q) /\ LeftStopped(q)
<1>1. pvt[p] \in DeviceType /\ Sound(p, pvt[p], wish[p])
  BY SoundDevice
<1>2. lockfile' = lockfile => LocksTyped'
  BY DEF LifeInv, LocksTyped
<1>3. CASE MonitorBegins(p)
  <2>. DEFINE d == [pvt[p] EXCEPT !.thread = "reading"]
  <2>1. /\ pvt' = [pvt EXCEPT ![p] = d] /\ pvt[p].thread = "begun"
        /\ UNCHANGED <<plugged, usbdevs, devices, lockfile, discovery, unload, operator,
                       wish, dismissed, hasty>>
    BY <1>3 DEF MonitorBegins, asked
  <2>2. d \in DeviceType /\ Onward(pvt[p], d) /\ Sound(p, d, wish[p])
    BY <1>1, <2>1 DEF DeviceType, Onward, Sound, Excused, HalfWritten
  <2>. QED  BY <1>2, <2>1, <2>2, OneGoesOn
<1>4. CASE MonitorTerminates(p)
  BY <1>1, <1>4, LifeLeaves DEF MonitorTerminates
<1>5. CASE MonitorLosesModem(p) \/ MonitorGivesUp(p)
  <2>. DEFINE c == [pvt[p] EXCEPT !.terminate = FALSE]
  <2>1. /\ c \in DeviceType /\ c.tty = pvt[p].tty /\ c.desired = pvt[p].desired
        /\ c.current = pvt[p].current /\ c.connected = pvt[p].connected
        /\ c.terminate => pvt[p].terminate
    BY <1>1 DEF DeviceType
  <2>2. MonitorLeaves(p, c)
    BY <1>5 DEF MonitorLosesModem, MonitorGivesUp
  <2>. QED  BY <2>1, <2>2, LifeLeaves
<1>6. CASE MonitorEnds(p)
  <2>. DEFINE c == [[pvt[p] EXCEPT !.connected = FALSE] EXCEPT !.busy = {}]
              d == [[c EXCEPT !.current = "stop"] EXCEPT !.thread = "done"]
  <2>1. /\ pvt' = [pvt EXCEPT ![p] = d] /\ pvt[p].thread = "leaving"
        /\ UNCHANGED <<plugged, usbdevs, devices, lockfile, discovery, unload, operator,
                       wish, dismissed, hasty>>
    BY <1>6 DEF MonitorEnds, Disconnected, asked
  <2>2. pvt[p].fd = "closed"
    BY <2>1 DEF OwnedInv, OpenIsRead
  <2>3. /\ c \in DeviceType /\ c.tty = pvt[p].tty /\ c.desired = pvt[p].desired
        /\ c.connected = FALSE /\ c.fd = "closed" /\ c.terminate = pvt[p].terminate
        /\ c.busy = {}
    BY <1>1, <2>2 DEF DeviceType
  <2>. HIDE DEF c
  <2>4. /\ d \in DeviceType /\ d.tty = c.tty /\ d.desired = c.desired
        /\ d.connected = FALSE /\ d.fd = "closed" /\ d.terminate = c.terminate
        /\ d.thread = "done" /\ d.current = "stop" /\ d.busy = c.busy
    BY <2>3 DEF DeviceType
  <2>. HIDE DEF d
  <2>5. Onward(pvt[p], d) /\ Sound(p, d, wish[p])
    BY <2>3, <2>4 DEF Onward, Sound
  <2>. QED  BY <1>2, <2>1, <2>4, <2>5, OneGoesOn
<1>7. CASE MonitorUnblocked(p)
  <2>. DEFINE d == [pvt[p] EXCEPT !.blocked = FALSE]
  <2>1. /\ pvt' = [pvt EXCEPT ![p] = d]
        /\ UNCHANGED <<plugged, usbdevs, devices, lockfile, discovery, unload, operator,
                       wish, dismissed, hasty>>
    BY <1>7 DEF MonitorUnblocked, asked
  <2>2. d \in DeviceType /\ Onward(pvt[p], d) /\ Sound(p, d, wish[p])
    BY <1>1 DEF DeviceType, Onward, Sound, Excused, HalfWritten
  <2>. QED  BY <1>2, <2>1, <2>2, OneGoesOn
<1>. QED  BY <1>3, <1>4, <1>5, <1>6, <1>7 DEF Monitor

-----------------------------------------------------------------------------
(* Requests                                                                *)

LEMMA LifeFinds ==
    ASSUME OwnedInv, LifeInv, NEW o \in Operator, NEW p \in Pvt, find_device(o, p)
    PROVE  LifeInv' /\ \A q \in Pvt : ToldInTime(q) /\ LeftStopped(q)
<1>. DEFINE a == [pc |-> "found", on |-> p, when |-> "now"]
<1>1. /\ operator' = [operator EXCEPT ![o] = a] /\ operator[o] = Idle /\ Listed(p)
      /\ UNCHANGED <<plugged, usbdevs, devices, pvt, lockfile, discovery, unload,
                     wish, dismissed, hasty>>
  BY DEF find_device
<1>2. /\ a.pc = "found" /\ a.on = p /\ Idle.pc = "idle"
      /\ a \in [pc : {"idle", "found", "writing"}, on : Pvt \union {None}, when : restate_time_t]
  BY DEF Idle, restate_time_t
<1>. HIDE DEF a
<1>3. /\ \A r \in Operator : operator'[r] = IF r = o THEN a ELSE operator[r]
      /\ operator' \in [Operator -> [pc : {"idle", "found", "writing"},
                                     on : Pvt \union {None}, when : restate_time_t]]
  BY <1>1, <1>2 DEF LifeInv, AskersKnown
<1>4. AskersKnown'
  BY <1>1, <1>2, <1>3 DEF LifeInv, AskersKnown, Listed
<1>5. \A q \in Pvt : HalfWritten(q)' <=> HalfWritten(q)
  BY <1>1, <1>2, <1>3 DEF HalfWritten
<1>6. DevicesSound'
  BY <1>1, <1>5 DEF LifeInv, DevicesSound, Sound, Excused
<1>7. HeldOnce'
  BY <1>1, HeldStays DEF LifeInv, Holds, Listed
<1>8. /\ TableTyped' /\ LocksTyped' /\ WishTyped' /\ JoinKnown' /\ StopKept' /\ Unwished'
      /\ \A q \in Pvt : ToldInTime(q) /\ LeftStopped(q)
  BY <1>1 DEF LifeInv, TableTyped, LocksTyped, WishTyped, JoinKnown, StopKept, Unwished,
              Listed, ToldInTime, LeftStopped, CutOff
<1>. QED  BY <1>4, <1>6, <1>7, <1>8 DEF LifeInv

\* A request that comes when nothing is left to do leaves a device that had its
\* tty with it; another one is hasty.
LEMMA LifeDesired ==
    ASSUME OwnedInv, LifeInv, NEW o \in Operator, NEW event \in dev_state_t,
           NEW when \in restate_time_t, DesiredWritten(o, event, when)
    PROVE  LifeInv' /\ \A q \in Pvt : ToldInTime(q) /\ LeftStopped(q)
<1>1. PICK p : p = operator[o].on
  OBVIOUS
<1>. DEFINE a == [[operator[o] EXCEPT !.pc = "writing"] EXCEPT !.when = when]
            d == [pvt[p] EXCEPT !.desired = event]
            w == [event |-> event, when |-> when]
<1>2. /\ operator[o].pc = "found"
      /\ operator' = [operator EXCEPT ![o] = a]
      /\ pvt' = [pvt EXCEPT ![p] = d] /\ wish' = [wish EXCEPT ![p] = w]
      /\ dismissed' \in {dismissed, dismissed \union {pvt[p].tty}}
      /\ hasty' = (hasty \/ pvt[p].desired # pvt[p].current)
      /\ UNCHANGED <<plugged, usbdevs, devices, lockfile, discovery, unload>>
  <2>1. operator' = [operator EXCEPT ![o] = a]
    BY <1>1 DEF DesiredWritten, LifeInv, AskersKnown
  <2>. QED  BY <1>1, <2>1 DEF DesiredWritten
<1>3. /\ p \in Pvt /\ (Listed(p) \/ unload.on = p)
      /\ pvt \in [Pvt -> DeviceType]
      /\ operator[o] \in [pc : {"idle", "found", "writing"},
                          on : Pvt \union {None}, when : restate_time_t]
  BY <1>1, <1>2 DEF LifeInv, AskersKnown, OwnedInv, Typed
<1>4. /\ a.pc = "writing" /\ a.on = p
      /\ a \in [pc : {"idle", "found", "writing"}, on : Pvt \union {None}, when : restate_time_t]
  BY <1>1, <1>3
<1>5. pvt[p] \in DeviceType /\ Sound(p, pvt[p], wish[p])
  BY <1>3, SoundDevice
<1>6. /\ d \in DeviceType /\ d.tty = pvt[p].tty /\ d.desired = event
      /\ d.current = pvt[p].current /\ d.connected = pvt[p].connected
      /\ d.thread = pvt[p].thread /\ d.terminate = pvt[p].terminate
      /\ d.fd = pvt[p].fd /\ d.busy = pvt[p].busy
  BY <1>5 DEF DeviceType
<1>7. w \in WishType /\ w.event = event
  BY DEF WishType
<1>. HIDE DEF a, d, w
<1>8. /\ \A q \in Pvt : pvt'[q] = IF q = p THEN d ELSE pvt[q]
      /\ \A q \in Pvt : wish'[q] = IF q = p THEN w ELSE wish[q]
      /\ wish' \in [Pvt -> WishType]
      /\ \A r \in Operator : operator'[r] = IF r = o THEN a ELSE operator[r]
      /\ operator' \in [Operator -> [pc : {"idle", "found", "writing"},
                                     on : Pvt \union {None}, when : restate_time_t]]
  BY <1>2, <1>3, <1>4, <1>6, <1>7 DEF LifeInv, WishTyped, AskersKnown
<1>9. HalfWritten(p)' /\ \A q \in Pvt : HalfWritten(q) => HalfWritten(q)'
  BY <1>1, <1>2, <1>4, <1>8 DEF HalfWritten
<1>10. TableTyped' /\ LocksTyped' /\ WishTyped'
  <2>1. dismissed' \subseteq Modem
    BY <1>2, <1>5 DEF LifeInv, TableTyped, DeviceType
  <2>. QED  BY <1>2, <1>8, <2>1 DEF LifeInv, TableTyped, LocksTyped, WishTyped
<1>11. AskersKnown' /\ Unwished'
  BY <1>2, <1>3, <1>4, <1>8 DEF LifeInv, AskersKnown, Unwished, Listed
<1>12. DevicesSound'
  <2>1. Sound(p, pvt[p], wish[p])'
    <3>1. pvt'[p] = d /\ wish'[p] = w
      BY <1>3, <1>8
    <3>. QED  BY <1>2, <1>5, <1>6, <1>9, <3>1 DEF Sound
  <2>2. ASSUME NEW q \in Pvt, q # p PROVE Sound(q, pvt[q], wish[q])'
    BY <1>2, <1>8, <1>9, <2>2, SoundDevice DEF Sound, Excused
  <2>. QED  BY <2>1, <2>2 DEF DevicesSound
<1>13. JoinKnown'
  <2>. DEFINE h == Head(discovery.todo)
  <2>. SUFFICES ASSUME discovery.pc = "joining", ~hasty'
                PROVE  /\ pvt'[h].desired = discovery.doing \/ discovery.doing = "stop"
                       /\ pvt'[h].connected => pvt'[h].desired # pvt'[h].current
    BY <1>2 DEF JoinKnown
  <2>1. h \in Pvt
    BY LookedAt DEF OwnedInv, TodoListed
  <2>2. /\ pvt[h].desired = discovery.doing \/ discovery.doing = "stop"
        /\ pvt[h].connected => pvt[h].desired # pvt[h].current
    BY <1>2 DEF LifeInv, JoinKnown
  <2>. HIDE DEF h
  <2>3. CASE h = p
    <3>1. pvt[p].desired = pvt[p].current /\ ~pvt[p].connected
      BY <1>2, <2>2, <2>3
    <3>2. discovery.doing = "stop"
      BY <1>5, <2>2, <2>3, <3>1 DEF Sound, DeviceType
    <3>. QED  BY <1>3, <1>6, <1>8, <2>3, <3>1, <3>2
  <2>4. CASE h # p
    BY <1>8, <2>1, <2>2, <2>4
  <2>. QED  BY <2>3, <2>4
<1>14. HeldOnce'
  <2>1. ASSUME ~hasty', NEW q \in Pvt, Holds(q)' PROVE Holds(q) /\ pvt'[q].tty = pvt[q].tty
    <3>1. CASE q = p
      <4>1. pvt[p].desired = pvt[p].current /\ pvt[p].current # "remove"
        BY <1>2, <1>5, <2>1 DEF DeviceType
      <4>. QED  BY <1>2, <1>3, <1>6, <1>8, <2>1, <3>1, <4>1 DEF Holds, Listed
    <3>2. CASE q # p
      BY <1>2, <1>8, <2>1, <3>2 DEF Holds, Listed
    <3>. QED  BY <3>1, <3>2
  <2>. QED  BY <1>2, <2>1, HeldStays DEF LifeInv
<1>15. StopKept'
  BY <1>2, <1>3, <1>6, <1>7, <1>8 DEF LifeInv, StopKept
<1>16. \A q \in Pvt : ToldInTime(q) /\ LeftStopped(q)
  BY <1>3, <1>6, <1>8 DEF ToldInTime, LeftStopped, CutOff
<1>. QED  BY <1>10, <1>11, <1>12, <1>13, <1>14, <1>15, <1>16 DEF LifeInv

LEMMA LifeTime ==
    ASSUME OwnedInv, LifeInv, NEW o \in Operator, RestartTimeWritten(o)
    PROVE  LifeInv' /\ \A q \in Pvt : ToldInTime(q) /\ LeftStopped(q)
<1>1. PICK p, when : p = operator[o].on /\ when = operator[o].when
  OBVIOUS
<1>. DEFINE e == [pvt[p] EXCEPT !.when = when]
            f == pvt_try_restate(e)
            d == [f EXCEPT !.blocked = e.blocked]
            w == [wish[p] EXCEPT !.when = when]
<1>2. /\ operator[o].pc = "writing"
      /\ operator' = [operator EXCEPT ![o] = Idle]
      /\ pvt' = [pvt EXCEPT ![p] = d]
      /\ UNCHANGED <<plugged, usbdevs, devices, lockfile, discovery, unload, dismissed, hasty>>
  BY <1>1 DEF RestartTimeWritten
<1>3. /\ p \in Pvt /\ (Listed(p) \/ unload.on = p) /\ when \in restate_time_t
      /\ pvt \in [Pvt -> DeviceType] /\ wish \in [Pvt -> WishType]
  BY <1>1, <1>2 DEF LifeInv, AskersKnown, WishTyped, OwnedInv, Typed
<1>4. wish' = [wish EXCEPT ![p] = w]
  BY <1>1, <1>3 DEF RestartTimeWritten
<1>5. pvt[p] \in DeviceType /\ Sound(p, pvt[p], wish[p])
  BY <1>3, SoundDevice
<1>6. /\ e \in DeviceType /\ e.tty = pvt[p].tty /\ e.desired = pvt[p].desired
      /\ e.current = pvt[p].current /\ e.connected = pvt[p].connected
      /\ e.thread = pvt[p].thread /\ e.terminate = pvt[p].terminate
      /\ e.fd = pvt[p].fd /\ e.when = when /\ e.busy = pvt[p].busy
      /\ e.blocked \in BOOLEAN
  BY <1>3, <1>5 DEF DeviceType
<1>. HIDE DEF e
<1>7. /\ f \in DeviceType
      /\ f.tty = e.tty /\ f.desired = e.desired /\ f.current = e.current
      /\ f.connected = e.connected /\ f.thread = e.thread
      /\ f.terminate = e.terminate /\ f.fd = e.fd /\ f.busy = e.busy
      /\ f.when = "now" => e.when = "now" \/ e.busy = {}
  BY <1>6, Restated
<1>. HIDE DEF f
<1>8. /\ d \in DeviceType
      /\ d.tty = f.tty /\ d.desired = f.desired /\ d.current = f.current
      /\ d.connected = f.connected /\ d.thread = f.thread
      /\ d.terminate = f.terminate /\ d.fd = f.fd /\ d.busy = f.busy /\ d.when = f.when
  BY <1>6, <1>7 DEF DeviceType
<1>9. w \in WishType /\ w.event = wish[p].event /\ w.when = when
  BY <1>3 DEF WishType
<1>. HIDE DEF d, w
<1>10. Idle \in [pc : {"idle", "found", "writing"}, on : Pvt \union {None}, when : restate_time_t]
       /\ Idle.pc = "idle"
  BY DEF Idle, restate_time_t
<1>11. /\ \A q \in Pvt : pvt'[q] = IF q = p THEN d ELSE pvt[q]
       /\ \A q \in Pvt : wish'[q] = IF q = p THEN w ELSE wish[q]
       /\ wish' \in [Pvt -> WishType]
       /\ \A r \in Operator : operator'[r] = IF r = o THEN Idle ELSE operator[r]
       /\ operator' \in [Operator -> [pc : {"idle", "found", "writing"},
                                      on : Pvt \union {None}, when : restate_time_t]]
  BY <1>2, <1>3, <1>4, <1>9, <1>10 DEF LifeInv, AskersKnown
<1>12. \A q \in Pvt : q # p /\ HalfWritten(q) => HalfWritten(q)'
  BY <1>1, <1>11 DEF HalfWritten
<1>13. TableTyped' /\ LocksTyped' /\ WishTyped'
  BY <1>2, <1>11 DEF LifeInv, TableTyped, LocksTyped, WishTyped
<1>14. AskersKnown' /\ Unwished'
  BY <1>2, <1>3, <1>10, <1>11 DEF LifeInv, AskersKnown, Unwished, Listed
<1>15. DevicesSound'
  <2>1. ASSUME NEW q \in Pvt, q # p PROVE Sound(q, pvt[q], wish[q])'
    BY <1>2, <1>11, <1>12, <2>1, SoundDevice DEF Sound, Excused
  <2>2. Sound(p, pvt[p], wish[p])'
    <3>1. pvt'[p] = d /\ wish'[p] = w
      BY <1>3, <1>11
    <3>. QED  BY <1>2, <1>5, <1>6, <1>7, <1>8, <1>9, <3>1 DEF Sound, Excused
  <2>. QED  BY <2>1, <2>2 DEF DevicesSound
<1>16. \A q \in Pvt : /\ pvt'[q].tty = pvt[q].tty /\ pvt'[q].desired = pvt[q].desired
                     /\ pvt'[q].current = pvt[q].current
                     /\ pvt'[q].connected = pvt[q].connected
                     /\ pvt'[q].terminate = pvt[q].terminate /\ pvt'[q].fd = pvt[q].fd
                     /\ wish'[q].event = wish[q].event
  BY <1>6, <1>7, <1>8, <1>9, <1>11
<1>17. JoinKnown'
  BY <1>2, <1>16, JoinStays DEF LifeInv, Onward
<1>18. HeldOnce'
  BY <1>2, <1>16, HeldStays DEF LifeInv, Holds, Listed
<1>19. StopKept'
  BY <1>2, <1>16 DEF LifeInv, StopKept
<1>20. \A q \in Pvt : ToldInTime(q) /\ LeftStopped(q)
  BY <1>16 DEF ToldInTime, LeftStopped, CutOff
<1>. QED  BY <1>13, <1>14, <1>15, <1>17, <1>18, <1>19, <1>20 DEF LifeInv

-----------------------------------------------------------------------------
(* The discovery                                                           *)

LEMMA Started ==
    ASSUME NEW c \in DeviceType
    PROVE  LET b == pvt_start(c)
           IN  /\ b.tty = c.tty /\ b.desired = c.desired /\ b.terminate = c.terminate
               /\ b.busy = c.busy
               /\ \/ /\ Opens(c) /\ b.fd = "open" /\ b.thread = "begun"
                     /\ b.connected /\ b.current = "start"
                  \/ b = c
<1>. DEFINE a == [[c EXCEPT !.fd = "open"] EXCEPT !.thread = "begun"]
            b == [[a EXCEPT !.connected = TRUE] EXCEPT !.current = "start"]
<1>1. /\ a \in DeviceType /\ a.tty = c.tty /\ a.desired = c.desired
      /\ a.terminate = c.terminate /\ a.thread = "begun" /\ a.fd = "open"
      /\ a.busy = c.busy
  BY DEF DeviceType
<1>2. pvt_start(c) = IF Opens(c) THEN b ELSE c
  BY DEF pvt_start
<1>. HIDE DEF a
<1>3. /\ b.tty = a.tty /\ b.desired = a.desired /\ b.terminate = a.terminate
      /\ b.busy = a.busy
      /\ b.thread = "begun" /\ b.fd = "open" /\ b.connected /\ b.current = "start"
  BY <1>1 DEF DeviceType
<1>. HIDE DEF b
<1>. QED  BY <1>1, <1>2, <1>3

\* What is behind pvt_stop: the tty is opened by what had it, or might take it.
LEMMA LifeRestate ==
    ASSUME OwnedInv, LifeInv, discovery.todo # <<>>,
           NEW p, p = Head(discovery.todo), pvt[p].thread \in {"none", "done"},
           NEW state \in dev_state_t, Restate(p, pvt[p], state),
           ~hasty => pvt[p].desired = state \/ state = "stop",
           UNCHANGED <<plugged, usbdevs, devices, unload, operator, dismissed, hasty>>
    PROVE  LifeInv' /\ \A q \in Pvt : ToldInTime(q) /\ LeftStopped(q)
<1>. DEFINE e == [[pvt[p] EXCEPT !.thread = "none"] EXCEPT !.terminate = FALSE]
            f == CASE state = "remove"  -> [e EXCEPT !.must_remove = TRUE]
                   [] state = "stop"    -> e
                   [] state = "start"   -> pvt_start(e)
                   [] state = "restart" -> pvt_start([e EXCEPT !.desired = "start"])
<1>1. /\ pvt' = [pvt EXCEPT ![p] = f]
      /\ lockfile' \in {lockfile, [lockfile EXCEPT ![e.tty] = p]}
      /\ wish' \in {wish, [wish EXCEPT ![p] = NoWish]}
      /\ discovery' = [pc |-> "looking", todo |-> Tail(discovery.todo), doing |-> "start"]
  BY DEF Restate, Switched
<1>2. /\ p \in Pvt /\ pvt[p] \in DeviceType /\ pvt[p].fd = "closed" /\ Listed(p)
      /\ Sound(p, pvt[p], wish[p])
  BY LookedAt, SoundDevice
<1>3. /\ e \in DeviceType /\ e.thread = "none" /\ e.terminate = FALSE /\ e.fd = "closed"
      /\ e.tty = pvt[p].tty /\ e.desired = pvt[p].desired /\ e.busy = {}
      /\ e.current = "start" => e.connected
  BY <1>2 DEF DeviceType, Sound
<1>. HIDE DEF e
<1>4. /\ f.tty = pvt[p].tty /\ f.terminate = FALSE /\ f.busy = {}
      /\ f.current = "start" => f.connected
      /\ f.desired = IF state = "restart" THEN "start" ELSE pvt[p].desired
      /\ \/ /\ f.fd = "open" /\ f.thread = "begun" /\ f.connected /\ f.current = "start"
            /\ f.tty \in plugged /\ state \in {"start", "restart"}
         \/ f.fd = "closed" /\ f.thread = "none"
  <2>1. CASE state = "remove"
    <3>1. f = [e EXCEPT !.must_remove = TRUE]
      BY <2>1
    <3>. HIDE DEF f
    <3>. QED  BY <1>3, <2>1, <3>1 DEF DeviceType
  <2>2. CASE state = "stop"
    <3>1. f = e
      BY <2>2
    <3>. HIDE DEF f
    <3>. QED  BY <1>3, <2>2, <3>1
  <2>3. CASE state = "start"
    <3>1. f = pvt_start(e)
      BY <2>3
    <3>. HIDE DEF f
    <3>. QED  BY <1>3, <2>3, <3>1, Started DEF Opens
  <2>4. CASE state = "restart"
    <3>. DEFINE g == [e EXCEPT !.desired = "start"]
    <3>1. /\ g \in DeviceType /\ g.thread = "none" /\ g.terminate = FALSE
          /\ g.fd = "closed" /\ g.tty = e.tty /\ g.desired = "start" /\ g.busy = {}
          /\ g.current = "start" => g.connected
      BY <1>3 DEF DeviceType, dev_state_t
    <3>2. f = pvt_start(g)
      BY <2>4
    <3>. HIDE DEF f, g
    <3>. QED  BY <1>3, <2>4, <3>1, <3>2, Started DEF Opens
  <2>. QED  BY <2>1, <2>2, <2>3, <2>4 DEF dev_state_t
<1>. HIDE DEF f
<1>5. /\ \A q \in Pvt : pvt'[q] = IF q = p THEN f ELSE pvt[q]
      /\ \A q \in Pvt : wish'[q] = wish[q] \/ (q = p /\ wish'[q] = NoWish)
      /\ WishTyped'
  <2>1. NoWish \in WishType
    BY DEF NoWish, WishType, restate_time_t
  <2>. QED  BY <1>1, <1>2, <2>1 DEF OwnedInv, Typed, LifeInv, WishTyped
<1>6. TableTyped' /\ LocksTyped'
  <2>1. e.tty \in Modem
    BY <1>3 DEF DeviceType
  <2>. QED  BY <1>1, <1>2, <2>1 DEF LifeInv, TableTyped, LocksTyped
<1>7. DevicesSound'
  <2>1. Sound(p, f, wish'[p])
    BY <1>4 DEF Sound, Excused, HalfWritten
  <2>2. \A q \in Pvt : Sound(q, pvt'[q], wish'[q])
    BY <1>5, <2>1, SoundDevice
  <2>. QED  BY <2>2 DEF DevicesSound, Sound, Excused, HalfWritten
<1>8. JoinKnown'
  BY <1>1 DEF JoinKnown
<1>9. HeldOnce'
  <2>1. ASSUME ~hasty', NEW q \in Pvt, Holds(q)' PROVE Holds(q) /\ pvt'[q].tty = pvt[q].tty
    <3>1. CASE q = p
      BY <1>2, <1>4, <1>5, <2>1, <3>1 DEF Holds
    <3>2. CASE q # p
      BY <1>5, <2>1, <3>2 DEF Holds, Listed
    <3>. QED  BY <3>1, <3>2
  <2>. QED  BY <2>1, HeldStays DEF LifeInv
<1>10. AskersKnown' /\ Unwished'
  BY <1>5 DEF LifeInv, AskersKnown, Unwished, Listed
<1>11. StopKept' /\ \A q \in Pvt : LeftStopped(q)
  <2>1. NoWish.event = "none"
    BY DEF NoWish
  <2>2. ASSUME ~hasty', NEW q \in Pvt, wish'[q].event \in {"stop", "remove"}
        PROVE  wish[q].event \in {"stop", "remove"} /\ pvt[q].desired \in {"stop", "remove"}
    BY <1>5, <2>1, <2>2 DEF LifeInv, StopKept
  <2>3. StopKept'
    BY <1>4, <1>5, <2>2 DEF StopKept
  <2>4. ASSUME NEW q \in Pvt, ~hasty', wish[q].event \in {"stop", "remove"}, pvt'[q].fd = "open"
        PROVE  pvt[q].fd = "open"
    <3>1. pvt[q].desired \in {"stop", "remove"}
      BY <2>4 DEF LifeInv, StopKept
    <3>. QED  BY <1>4, <1>5, <2>4, <3>1
  <2>. QED  BY <2>3, <2>4 DEF LeftStopped
<1>12. \A q \in Pvt : ToldInTime(q)
  BY <1>4, <1>5 DEF ToldInTime, CutOff
<1>. QED  BY <1>5, <1>6, <1>7, <1>8, <1>9, <1>10, <1>11, <1>12 DEF LifeInv

LEMMA LifeLooks ==
    ASSUME OwnedInv, LifeInv, NEW p \in Pvt, DiscoveryLooks(p)
    PROVE  LifeInv' /\ \A q \in Pvt : ToldInTime(q) /\ LeftStopped(q)
<1>. DEFINE d == [pvt[p] EXCEPT !.must_remove = FALSE]
<1>1. /\ discovery.pc = "looking" /\ discovery.todo # <<>> /\ p = Head(discovery.todo)
      /\ UNCHANGED <<plugged, usbdevs, devices, unload, operator, dismissed, hasty>>
  BY DEF DiscoveryLooks
<1>2. /\ pvt[p] \in DeviceType /\ pvt[p].must_remove = FALSE /\ Sound(p, pvt[p], wish[p])
      /\ pvt \in [Pvt -> DeviceType]
      /\ discovery \in [pc : {"asleep", "looking", "joining", "ended"},
                        todo : Seq(Pvt), doing : dev_state_t]
  BY <1>1, LookedAt, SoundDevice DEF OwnedInv, Typed
<1>3. d = pvt[p]
  BY <1>2 DEF DeviceType
<1>. HIDE DEF d
<1>4. CASE /\ pvt' = [pvt EXCEPT ![p] = d]
           /\ discovery' = [discovery EXCEPT !.todo = Tail(@)]
           /\ UNCHANGED <<lockfile, wish>>
  <2>1. pvt' = pvt /\ discovery'.pc # "joining"
    BY <1>1, <1>2, <1>3, <1>4
  <2>2. DevicesSound' /\ LocksTyped'
    BY <1>1, <1>4, <2>1 DEF LifeInv, DevicesSound, Sound, Excused, HalfWritten, LocksTyped
  <2>3. \A q \in Pvt : Onward(pvt[q], pvt'[q])
    BY <2>1 DEF Onward
  <2>. QED  BY <1>1, <1>4, <2>1, <2>2, <2>3, AllGoOn
<1>5. CASE NoMonitor(d) /\ Restate(p, d, d.desired)
  <2>1. pvt[p].thread = "none" /\ pvt[p].desired \in dev_state_t
    BY <1>2, <1>3, <1>5 DEF NoMonitor, DeviceType
  <2>2. Restate(p, pvt[p], pvt[p].desired)
    BY <1>3, <1>5
  <2>. QED  BY <1>1, <2>1, <2>2, LifeRestate
<1>6. CASE /\ Acts(d) /\ ~NoMonitor(d) /\ pvt' = [pvt EXCEPT ![p] = Told(d)]
           /\ discovery' = [discovery EXCEPT !.pc = "joining", !.doing = d.desired]
           /\ UNCHANGED <<lockfile, wish>>
  <2>. DEFINE t == [pvt[p] EXCEPT !.terminate = TRUE]
  <2>1. /\ t.tty = pvt[p].tty /\ t.desired = pvt[p].desired /\ t.current = pvt[p].current
        /\ t.connected = pvt[p].connected /\ t.thread = pvt[p].thread /\ t.fd = pvt[p].fd
        /\ t.when = pvt[p].when /\ t.busy = pvt[p].busy
    BY <1>2 DEF DeviceType
  <2>2. /\ pvt[p].thread # "none" /\ pvt[p].when = "now" /\ pvt[p].desired # pvt[p].current
        /\ ~(pvt[p].desired = "start" /\ pvt[p].connected)
    BY <1>3, <1>6 DEF Acts, NoMonitor
  <2>3. \A q \in Pvt : pvt'[q] = IF q = p THEN t ELSE pvt[q]
    <3>1. Told(d) = t
      BY <1>2, <1>3, <2>2 DEF Told, DeviceType
    <3>. QED  BY <1>2, <1>6, <3>1
  <2>. HIDE DEF t
  <2>4. TableTyped' /\ LocksTyped' /\ WishTyped'
    BY <1>1, <1>6 DEF LifeInv, TableTyped, LocksTyped, WishTyped
  <2>5. DevicesSound'
    <3>1. Sound(p, t, wish[p])
      BY <1>2, <2>1 DEF Sound, Excused, HalfWritten
    <3>2. \A q \in Pvt : Sound(q, pvt'[q], wish'[q])
      BY <1>6, <2>3, <3>1, SoundDevice
    <3>. QED  BY <1>1, <3>2 DEF DevicesSound, Sound, Excused, HalfWritten
  <2>6. JoinKnown'
    <3>1. /\ discovery'.pc = "joining" /\ discovery'.doing = pvt[p].desired
          /\ discovery'.todo = discovery.todo
      BY <1>2, <1>3, <1>6
    <3>2. pvt'[p] = t
      BY <2>3
    <3>. QED  BY <1>1, <2>1, <2>2, <3>1, <3>2 DEF JoinKnown
  <2>7. HeldOnce'
    <3>1. \A q \in Pvt : Holds(q)' => Holds(q) /\ pvt'[q].tty = pvt[q].tty
      BY <1>1, <2>1, <2>3 DEF Holds, Listed
    <3>. QED  BY <1>1, <3>1, HeldStays DEF LifeInv
  <2>8. AskersKnown' /\ Unwished'
    BY <1>1, <1>6, KnownStay DEF LifeInv, Listed
  <2>9. StopKept'
    BY <1>1, <1>6, <2>1, <2>3 DEF LifeInv, StopKept
  <2>10. \A q \in Pvt : ToldInTime(q) /\ LeftStopped(q)
    BY <1>2, <2>1, <2>2, <2>3 DEF ToldInTime, LeftStopped, CutOff, Sound
  <2>. QED  BY <2>4, <2>5, <2>6, <2>7, <2>8, <2>9, <2>10 DEF LifeInv
<1>. QED  BY <1>4, <1>5, <1>6 DEF DiscoveryLooks, d

LEMMA LifeJoined ==
    ASSUME OwnedInv, LifeInv, MonitorJoined
    PROVE  LifeInv' /\ \A q \in Pvt : ToldInTime(q) /\ LeftStopped(q)
<1>1. /\ discovery.pc = "joining" /\ pvt[Head(discovery.todo)].thread = "done"
      /\ Restate(Head(discovery.todo), pvt[Head(discovery.todo)], discovery.doing)
      /\ UNCHANGED <<plugged, usbdevs, devices, unload, operator, dismissed, hasty>>
  BY DEF MonitorJoined
<1>2. discovery.todo # <<>> /\ discovery.doing \in dev_state_t
  BY <1>1 DEF OwnedInv, Typed, TodoListed
<1>3. ~hasty => \/ pvt[Head(discovery.todo)].desired = discovery.doing
                \/ discovery.doing = "stop"
  BY <1>1 DEF LifeInv, JoinKnown
<1>. QED  BY <1>1, <1>2, <1>3, LifeRestate

\* The other steps of the discovery and of the unloading that leave the devices
\* alone.
LEMMA LifeRests ==
    ASSUME OwnedInv, LifeInv,
           \/ CannotTrylock \/ DiscoverySleeps \/ DiscoveryEnds
           \/ UnloadBegins \/ DiscoveryJoined \/ UnloadEnds
           \/ UNCHANGED vars
    PROVE  LifeInv' /\ \A q \in Pvt : ToldInTime(q) /\ LeftStopped(q)
<1>1. /\ UNCHANGED <<plugged, usbdevs, devices, pvt, lockfile, operator, wish, dismissed, hasty>>
      /\ unload'.pc = "loaded" => unload.pc = "loaded"
      /\ unload'.on = unload.on
      /\ discovery' = discovery \/ discovery'.pc # "joining"
  <2>1. /\ discovery \in [pc : {"asleep", "looking", "joining", "ended"},
                          todo : Seq(Pvt), doing : dev_state_t]
        /\ unload \in [pc : {"loaded", "joining", "destroying", "unloaded"},
                       on : Pvt \union {None}]
    BY DEF OwnedInv, Typed
  <2>2. CASE CannotTrylock \/ DiscoverySleeps \/ DiscoveryEnds
    BY <2>1, <2>2 DEF CannotTrylock, DiscoverySleeps, DiscoveryEnds, asked
  <2>3. CASE UnloadBegins \/ DiscoveryJoined \/ UnloadEnds
    BY <2>1, <2>3 DEF UnloadBegins, DiscoveryJoined, UnloadEnds, asked
  <2>4. CASE UNCHANGED vars
    BY <2>4 DEF vars
  <2>. QED  BY <2>2, <2>3, <2>4
<1>2. DevicesSound' /\ LocksTyped'
  BY <1>1 DEF LifeInv, DevicesSound, Sound, Excused, HalfWritten, LocksTyped
<1>3. \A q \in Pvt : Onward(pvt[q], pvt'[q])
  BY <1>1 DEF Onward
<1>. QED  BY <1>1, <1>2, <1>3, AllGoOn

\* A device that is freed has let its tty go, and is on the list no more.
LEMMA LifeFreed ==
    ASSUME OwnedInv, LifeInv, NEW p \in Pvt, pvt[p].thread \in {"none", "done"},
           pvt_free(p), ~Listed(p)',
           \A q \in Pvt : Listed(q)' => Listed(q),
           \A q \in Pvt : q # p /\ (Listed(q) \/ unload.on = q) => (Listed(q) \/ unload.on = q)',
           unload'.pc = unload.pc, discovery'.pc # "joining",
           UNCHANGED <<plugged, usbdevs, lockfile, dismissed, hasty>>
    PROVE  LifeInv' /\ \A q \in Pvt : ToldInTime(q) /\ LeftStopped(q)
<1>. DEFINE d == Freed(pvt[p])
            c == pvt_create(pvt[p].tty)
<1>1. /\ pvt' = [pvt EXCEPT ![p] = d] /\ wish' = [wish EXCEPT ![p] = NoWish]
      /\ operator' = [o \in Operator |-> IF operator[o].on = p THEN Idle ELSE operator[o]]
  BY DEF pvt_free
<1>2. /\ d.thread = "none" /\ d.fd = "closed" /\ d.terminate = FALSE
      /\ d.busy = {} /\ d.current = "stop"
  <2>1. d.thread = "none" /\ d.fd = "closed"
    BY FreedDevice
  <2>2. c.terminate = FALSE /\ c.busy = {} /\ c.current = "stop"
    BY DEF pvt_create
  <2>3. d = [[c EXCEPT !.fd = pvt[p].fd]
                EXCEPT !.thread = IF pvt[p].thread = "done" THEN "none" ELSE pvt[p].thread]
    BY DEF Freed
  <2>4. c \in DeviceType
    BY OfDevice, Created DEF DeviceType
  <2>. HIDE DEF c
  <2>5. d.terminate = c.terminate /\ d.busy = c.busy /\ d.current = c.current
    BY <2>3, <2>4 DEF DeviceType
  <2>. QED  BY <2>1, <2>2, <2>5
<1>. HIDE DEF d
<1>3. /\ \A q \in Pvt : pvt'[q] = IF q = p THEN d ELSE pvt[q]
      /\ \A q \in Pvt : wish'[q] = IF q = p THEN NoWish ELSE wish[q]
      /\ WishTyped'
  <2>1. NoWish \in WishType
    BY DEF NoWish, WishType, restate_time_t
  <2>. QED  BY <1>1, <2>1 DEF OwnedInv, Typed, LifeInv, WishTyped
<1>4. TableTyped' /\ LocksTyped'
  BY DEF LifeInv, TableTyped, LocksTyped
<1>5. DevicesSound'
  <2>1. \A q \in Pvt : q # p /\ HalfWritten(q) => HalfWritten(q)'
    BY <1>1 DEF HalfWritten
  <2>2. Sound(p, pvt[p], wish[p])'
    BY <1>2, <1>3 DEF Sound
  <2>3. ASSUME NEW q \in Pvt, q # p PROVE Sound(q, pvt[q], wish[q])'
    BY <1>3, <2>1, <2>3, SoundDevice DEF Sound, Excused
  <2>. QED  BY <2>2, <2>3 DEF DevicesSound
<1>6. JoinKnown'
  BY DEF JoinKnown
<1>7. HeldOnce'
  <2>1. ASSUME NEW q \in Pvt, Holds(q)' PROVE Holds(q) /\ pvt'[q].tty = pvt[q].tty
    <3>1. q # p
      BY <1>2, <1>3, <2>1 DEF Holds
    <3>. QED  BY <1>3, <2>1, <3>1 DEF Holds
  <2>. QED  BY <2>1, HeldStays DEF LifeInv
<1>8. AskersKnown'
  <2>1. Idle \in [pc : {"idle", "found", "writing"}, on : Pvt \union {None}, when : restate_time_t]
        /\ Idle.pc = "idle"
    BY DEF Idle, restate_time_t
  <2>2. \A o \in Operator : operator'[o] = IF operator[o].on = p THEN Idle ELSE operator[o]
    BY <1>1
  <2>3. operator' \in [Operator -> [pc : {"idle", "found", "writing"},
                                   on : Pvt \union {None}, when : restate_time_t]]
    BY <1>1, <2>1 DEF LifeInv, AskersKnown
  <2>. QED  BY <2>1, <2>2, <2>3 DEF LifeInv, AskersKnown
<1>9. Unwished'
  BY <1>3 DEF LifeInv, Unwished
<1>10. StopKept'
  <2>1. NoWish.event = "none"
    BY DEF NoWish
  <2>. QED  BY <1>3, <2>1 DEF LifeInv, StopKept
<1>11. \A q \in Pvt : ToldInTime(q) /\ LeftStopped(q)
  BY <1>2, <1>3 DEF ToldInTime, LeftStopped, CutOff
<1>. QED  BY <1>3, <1>4, <1>5, <1>6, <1>7, <1>8, <1>9, <1>10, <1>11 DEF LifeInv

LEMMA LifeRemoves ==
    ASSUME OwnedInv, LifeInv, NEW i \in DOMAIN devices, DiscoveryRemoves(i)
    PROVE  LifeInv' /\ \A q \in Pvt : ToldInTime(q) /\ LeftStopped(q)
<1>1. /\ discovery.pc = "looking" /\ pvt[devices[i]].must_remove
      /\ devices' = RemoveAt(devices, i) /\ pvt_free(devices[i])
      /\ UNCHANGED <<plugged, usbdevs, lockfile, discovery, unload, dismissed, hasty>>
  BY DEF DiscoveryRemoves
<1>2. devices \in Seq(Pvt) /\ IsInjective(devices)
  BY DEF OwnedInv, Typed
<1>3. /\ devices' \in Seq(Pvt) /\ ToSet(devices') = ToSet(devices) \ {devices[i]}
  BY <1>1, <1>2, Removed
<1>4. PICK p \in Pvt : p = devices[i]
  BY <1>2, LenProperties, ElementOfSeq
<1>5. ~Listed(p)' /\ \A q \in Pvt : q # p => (Listed(q)' <=> Listed(q))
  BY <1>2, <1>3, <1>4, Among DEF Listed
<1>6. pvt[p].thread = "none"
  BY <1>1, <1>4 DEF OwnedInv, RemovedIdle
<1>7. pvt_free(p) /\ unload'.pc = unload.pc /\ discovery'.pc # "joining"
  BY <1>1, <1>4
<1>. QED  BY <1>1, <1>4, <1>5, <1>6, <1>7, LifeFreed

\* The device that is destroyed is on the list no more.
GoneUnlisted == unload.on # None => ~Listed(unload.on)

LEMMA GoneKept ==
    ASSUME OwnedInv, GoneUnlisted, [Next]_vars
    PROVE  GoneUnlisted'
<1>1. CASE pvt_destroy
  <2>1. /\ unload' = [unload EXCEPT !.on = Head(devices)]
        /\ devices # <<>> /\ devices' = Tail(devices)
    BY <1>1 DEF pvt_destroy
  <2>2. unload'.on = Head(devices)
    BY <2>1 DEF OwnedInv, Typed
  <2>3. Tail(devices) \in Seq(Pvt) /\ Head(devices) \notin ToSet(Tail(devices))
    BY <2>1, TailOf DEF OwnedInv, Typed
  <2>4. ~Contains(Tail(devices), Head(devices))
    BY ONLY <2>3, Among
  <2>. QED  BY <2>1, <2>2, <2>4 DEF GoneUnlisted, Listed
<1>2. CASE DiscoveryWakes \/ \E i \in DOMAIN devices : DiscoveryRemoves(i)
  BY <1>2 DEF DiscoveryWakes, DiscoveryRemoves, OwnedInv, DestroyedLast, GoneUnlisted
<1>3. CASE UnloadBegins \/ DiscoveryJoined \/ Destroyed \/ UnloadEnds
  <2>1. devices' = devices /\ unload'.on \in {unload.on, None}
    BY <1>3 DEF UnloadBegins, DiscoveryJoined, Destroyed, UnloadEnds, OwnedInv, Typed
  <2>. QED  BY <2>1 DEF GoneUnlisted, Listed
<1>4. CASE /\ ~pvt_destroy /\ ~Destroyed /\ ~UnloadBegins /\ ~DiscoveryJoined /\ ~UnloadEnds
           /\ ~DiscoveryWakes /\ ~\E i \in DOMAIN devices : DiscoveryRemoves(i)
  <2>1. devices' = devices /\ unload' = unload
    <3>1. CASE \E m \in Modem : Unplug(m) \/ Plug(m)
      BY <3>1 DEF Unplug, Plug
    <3>2. CASE MonitorJoined \/ DiscoverySleeps \/ DiscoveryEnds \/ CannotTrylock
      BY <3>2 DEF MonitorJoined, DiscoverySleeps, DiscoveryEnds, CannotTrylock
    <3>3. CASE \E p \in Pvt : DiscoveryLooks(p)
      BY <3>3 DEF DiscoveryLooks
    <3>4. CASE \E p \in Pvt : Monitor(p) \/ MonitorGivesUp(p)
      BY <3>4 DEF Monitor, MonitorBegins, MonitorTerminates, MonitorLosesModem, MonitorEnds,
                  MonitorUnblocked, MonitorGivesUp, MonitorLeaves
    <3>5. CASE \E p \in Pvt, s \in Service : ServiceBegins(p, s) \/ ServiceEnds(p, s)
      BY <3>5 DEF ServiceBegins, ServiceEnds
    <3>6. CASE \E o \in Operator :
                  \/ \E p \in Pvt : find_device(o, p)
                  \/ \E event \in dev_state_t, when \in restate_time_t :
                        DesiredWritten(o, event, when)
                  \/ RestartTimeWritten(o)
      BY <3>6 DEF find_device, DesiredWritten, RestartTimeWritten
    <3>7. CASE Unloaded \/ Stuck \/ UNCHANGED vars
      BY <3>7 DEF Unloaded, Stuck, vars
    <3>. QED  BY <1>4, <3>1, <3>2, <3>3, <3>4, <3>5, <3>6, <3>7 DEF Next, Discovery, Unloading
  <2>. QED  BY <2>1 DEF GoneUnlisted, Listed
<1>. QED  BY <1>1, <1>2, <1>3, <1>4

LEMMA LifeDestroyed ==
    ASSUME OwnedInv, LifeInv, GoneUnlisted, Destroyed
    PROVE  LifeInv' /\ \A q \in Pvt : ToldInTime(q) /\ LeftStopped(q)
<1>1. /\ unload.on # None /\ pvt[unload.on].thread \in {"none", "done"}
      /\ pvt_free(unload.on) /\ unload' = [unload EXCEPT !.on = None]
      /\ UNCHANGED <<plugged, usbdevs, devices, lockfile, discovery, dismissed, hasty>>
  BY DEF Destroyed
<1>2. unload'.pc = unload.pc /\ discovery.pc = "ended"
  BY <1>1 DEF OwnedInv, Typed, DestroyedLast
<1>3. PICK p \in Pvt : p = unload.on
  BY <1>1 DEF OwnedInv, Typed
<1>4. ~Listed(p)' /\ discovery'.pc # "joining" /\ \A q \in Pvt : Listed(q)' <=> Listed(q)
  BY <1>1, <1>2, <1>3 DEF GoneUnlisted, Listed
<1>5. pvt_free(p) /\ pvt[p].thread \in {"none", "done"}
  BY <1>1, <1>3
<1>. QED  BY <1>1, <1>2, <1>3, <1>4, <1>5, LifeFreed

LEMMA LifeDestroys ==
    ASSUME OwnedInv, LifeInv, pvt_destroy
    PROVE  LifeInv' /\ \A q \in Pvt : ToldInTime(q) /\ LeftStopped(q)
<1>. DEFINE h == Head(devices)
            t == Told(pvt[h])
<1>1. /\ unload.pc = "destroying" /\ devices # <<>>
      /\ devices' = Tail(devices) /\ unload' = [unload EXCEPT !.on = h]
      /\ pvt' = [pvt EXCEPT ![h] = t]
      /\ unload.on = None
      /\ UNCHANGED <<plugged, usbdevs, lockfile, discovery, operator, wish, dismissed, hasty>>
  BY DEF pvt_destroy, asked
<1>2. /\ devices \in Seq(Pvt) /\ pvt \in [Pvt -> DeviceType]
      /\ discovery.pc = "ended" /\ unload'.pc = unload.pc /\ unload'.on = h
  BY <1>1 DEF OwnedInv, Typed, DestroyedLast
<1>3. devices' \in Seq(Pvt) /\ h \in Pvt /\ ToSet(devices) = {h} \union ToSet(devices')
  BY <1>1, <1>2, TailOf
<1>4. /\ t.tty = pvt[h].tty /\ t.desired = pvt[h].desired /\ t.current = pvt[h].current
      /\ t.connected = pvt[h].connected /\ t.thread = pvt[h].thread /\ t.fd = pvt[h].fd
      /\ t.when = pvt[h].when /\ t.busy = pvt[h].busy
  BY <1>2, <1>3 DEF Told, DeviceType
<1>. HIDE DEF h, t
<1>5. \A q \in Pvt : pvt'[q] = IF q = h THEN t ELSE pvt[q]
  BY <1>1, <1>2, <1>3
<1>6. \A q \in Pvt : Listed(q)' => Listed(q)
  BY <1>2, <1>3, Among DEF Listed
<1>7. TableTyped' /\ LocksTyped' /\ WishTyped'
  BY <1>1 DEF LifeInv, TableTyped, LocksTyped, WishTyped
<1>8. DevicesSound'
  <2>1. Sound(h, t, wish[h])
    BY <1>3, <1>4, SoundDevice DEF Sound, Excused, HalfWritten
  <2>2. \A q \in Pvt : Sound(q, pvt'[q], wish'[q])
    BY <1>1, <1>5, <2>1, SoundDevice
  <2>. QED  BY <1>1, <1>2, <2>2 DEF DevicesSound, Sound, Excused, HalfWritten
<1>9. JoinKnown'
  BY <1>1, <1>2 DEF JoinKnown
<1>10. HeldOnce'
  <2>1. \A q \in Pvt : Holds(q)' => Holds(q) /\ pvt'[q].tty = pvt[q].tty
    BY <1>4, <1>5, <1>6 DEF Holds
  <2>. QED  BY <1>1, <2>1, HeldStays DEF LifeInv
<1>11. AskersKnown' /\ Unwished'
  <2>1. \A q \in Pvt : Listed(q) => q = h \/ Listed(q)'
    BY <1>2, <1>3, Among DEF Listed
  <2>. QED  BY <1>1, <1>2, <2>1, KnownStay, LifecycleAssumption DEF LifeInv
<1>12. StopKept'
  BY <1>1, <1>4, <1>5 DEF LifeInv, StopKept
<1>13. \A q \in Pvt : ToldInTime(q) /\ LeftStopped(q)
  BY <1>1, <1>4, <1>5 DEF ToldInTime, LeftStopped, CutOff, Excused
<1>. QED  BY <1>7, <1>8, <1>9, <1>10, <1>11, <1>12, <1>13 DEF LifeInv

\* A new round knows every modem whose tty a device may hold, and makes devices
\* for those it did not know.
LEMMA LifeWakes ==
    ASSUME OwnedInv, LifeInv, DiscoveryWakes
    PROVE  LifeInv' /\ \A q \in Pvt : ToldInTime(q) /\ LeftStopped(q)
<1>. DEFINE swept == Swept(usbdevs)
            lost  == ToSet(usbdevs) \ ToSet(swept)
            found == SetToSeq(Unknown(swept))
            new   == SubSeq(SetToSeq(Fresh), 1, Len(found))
            at(p) == CHOOSE i \in DOMAIN new : new[i] = p
<1>1. /\ unload.pc = "loaded" /\ discovery.pc = "asleep"
      /\ Len(found) <= Cardinality(Fresh)
      /\ usbdevs' = swept \o found /\ devices' = devices \o new
      /\ discovery' = [[discovery EXCEPT !.pc = "looking"] EXCEPT !.todo = devices']
      /\ pvt' = [p \in Pvt |->
            IF Listed(p) /\ pvt[p].tty \in lost THEN usbdev_lost(pvt[p])
            ELSE IF Contains(new, p) THEN pvt_create(found[at(p)]) ELSE pvt[p]]
      /\ dismissed' = dismissed \ ToSet(found)
      /\ UNCHANGED <<plugged, lockfile, unload, operator, wish, hasty>>
  BY DEF DiscoveryWakes, usbdevs_find
<1>2. OnlyGone(swept, usbdevs)
  BY SweptTable DEF LifeInv, TableTyped
<1>3. /\ found \in Seq(Modem) /\ IsInjective(found) /\ Len(found) \in Nat
      /\ ToSet(found) \intersect ToSet(swept) = {}
  <2>1. Unknown(swept) \subseteq Modem /\ IsFiniteSet(Unknown(swept))
    BY LifecycleAssumption, FS_Subset DEF Unknown, OwnedInv, Typed
  <2>2. found \in Seq(Unknown(swept)) /\ IsInjective(found)
    BY <2>1, Enumerated
  <2>. HIDE DEF found
  <2>3. found \in [1 .. Len(found) -> Unknown(swept)] /\ Len(found) \in Nat
    BY <2>2, LenProperties
  <2>4. found \in [1 .. Len(found) -> Modem]
    BY <2>1, <2>3
  <2>5. found \in Seq(Modem)
    BY <2>3, <2>4, SeqDef
  <2>6. ToSet(found) \subseteq Unknown(swept)
    BY <2>2, Among
  <2>7. \A m \in Unknown(swept) : m \notin ToSet(swept)
    BY DEF Unknown
  <2>. QED  BY <2>2, <2>3, <2>5, <2>6, <2>7
<1>. HIDE DEF swept, found
<1>4. new \in Seq(Pvt) /\ Len(new) = Len(found) /\ ToSet(new) \subseteq Fresh
  BY <1>1, <1>3, NewDevices
<1>. HIDE DEF new
<1>5. ASSUME NEW p \in Pvt, Contains(new, p)
      PROVE  /\ at(p) \in 1 .. Len(found) /\ new[at(p)] = p
             /\ found[at(p)] \in Modem /\ found[at(p)] \in ToSet(found)
             /\ ~Listed(p)
  <2>1. at(p) \in DOMAIN new /\ new[at(p)] = p
    BY <1>5 DEF Contains
  <2>. HIDE DEF at
  <2>2. at(p) \in 1 .. Len(found)
    BY <1>4, <2>1, LenProperties
  <2>3. found[at(p)] \in Modem /\ found[at(p)] \in ToSet(found)
    BY <1>3, <2>2, ElementOfSeq, Among
  <2>4. p \in Fresh
    BY <1>4, <1>5, Among
  <2>. QED  BY <2>1, <2>2, <2>3, <2>4 DEF Fresh
<1>6. /\ usbdevs' \in Seq(Modem) /\ IsInjective(usbdevs')
      /\ ToSet(usbdevs') = ToSet(swept) \union ToSet(found)
  BY <1>1, <1>2, <1>3, Appended DEF OnlyGone
<1>7. \A m \in lost : m \notin plugged
  BY <1>2 DEF OnlyGone
<1>8. /\ \A p \in Pvt : Listed(p)' => Listed(p) \/ Contains(new, p)
      /\ \A p \in Pvt : Listed(p) => Listed(p)'
  <2>1. /\ devices \in Seq(Pvt) /\ IsInjective(devices)
    BY DEF OwnedInv, Typed
  <2>2. IsInjective(new)
    BY <1>1, <1>3, NewDevices DEF new
  <2>3. ToSet(devices) \intersect ToSet(new) = {}
    BY <1>4, <2>1, Among DEF Fresh, Listed
  <2>4. devices' \in Seq(Pvt) /\ ToSet(devices') = ToSet(devices) \union ToSet(new)
    BY <1>1, <1>4, <2>1, <2>2, <2>3, Appended
  <2>. QED  BY <1>4, <2>1, <2>4, Among DEF Listed
<1>. HIDE DEF at, lost
\* What becomes of each device: its modem is gone, it is new, or it stays.
<1>9. ASSUME NEW p \in Pvt
      PROVE  \/ /\ Listed(p) /\ pvt[p].tty \in lost /\ pvt'[p].fd # "open"
                /\ pvt'[p].desired = "remove" /\ pvt'[p].terminate = pvt[p].terminate
                /\ Sound(p, pvt'[p], wish[p])
             \/ /\ Contains(new, p) /\ pvt'[p].tty = found[at(p)] /\ pvt'[p].terminate = FALSE
                /\ pvt'[p].fd = "closed" /\ Sound(p, pvt'[p], wish[p])
             \/ /\ ~(Listed(p) /\ pvt[p].tty \in lost) /\ ~Contains(new, p)
                /\ pvt'[p] = pvt[p] /\ Sound(p, pvt[p], wish[p])
  <2>1. pvt[p] \in DeviceType /\ Sound(p, pvt[p], wish[p])
    BY SoundDevice
  <2>2. CASE Listed(p) /\ pvt[p].tty \in lost
    <3>. DEFINE d == [pvt[p] EXCEPT !.desired = "remove"]
    <3>1. pvt'[p] = d
      BY <1>1, <2>2 DEF usbdev_lost
    <3>2. /\ d.tty = pvt[p].tty /\ d.desired = "remove" /\ d.current = pvt[p].current
          /\ d.connected = pvt[p].connected /\ d.thread = pvt[p].thread /\ d.fd = pvt[p].fd
          /\ d.terminate = pvt[p].terminate /\ d.busy = pvt[p].busy
      BY <2>1 DEF DeviceType
    <3>3. pvt[p].fd # "open"
      BY <1>7, <2>1, <2>2 DEF Sound
    <3>4. pvt[p].thread \in {"begun", "reading"} => pvt[p].fd = "hung"
      BY <2>1, <3>3 DEF Sound, DeviceType
    <3>. HIDE DEF d
    <3>5. Sound(p, d, wish[p])
      BY <2>1, <3>2, <3>3, <3>4 DEF Sound, Excused, HalfWritten
    <3>. QED  BY <2>2, <3>1, <3>2, <3>3, <3>5
  <2>3. CASE ~(Listed(p) /\ pvt[p].tty \in lost) /\ Contains(new, p)
    <3>1. pvt'[p] = pvt_create(found[at(p)])
      BY <1>1, <2>3 DEF at
    <3>2. /\ pvt'[p].tty = found[at(p)] /\ pvt'[p].terminate = FALSE
          /\ pvt'[p].fd = "closed" /\ pvt'[p].thread = "none"
          /\ pvt'[p].current = "stop" /\ pvt'[p].busy = {}
      BY <3>1 DEF pvt_create
    <3>. QED  BY <2>3, <3>2 DEF Sound
  <2>4. CASE ~(Listed(p) /\ pvt[p].tty \in lost) /\ ~Contains(new, p)
    BY <1>1, <2>1, <2>4
  <2>. QED  BY <2>2, <2>3, <2>4
<1>10. TableTyped' /\ LocksTyped' /\ WishTyped'
  BY <1>1, <1>6 DEF LifeInv, TableTyped, LocksTyped, WishTyped
<1>11. DevicesSound'
  <2>1. \A p \in Pvt : Sound(p, pvt'[p], wish[p])
    BY <1>9
  <2>. QED  BY <1>1, <2>1 DEF DevicesSound, Sound, Excused, HalfWritten
<1>12. JoinKnown'
  BY <1>1 DEF JoinKnown, OwnedInv, Typed
<1>13. HeldOnce'
  <2>. SUFFICES ASSUME ~hasty'
                PROVE  /\ \A p \in Pvt : Holds(p)' => pvt'[p].tty \in ToSet(usbdevs')
                       /\ \A p, q \in Pvt :
                             Holds(p)' /\ Holds(q)' /\ pvt'[p].tty = pvt'[q].tty => p = q
    BY DEF HeldOnce
  <2>1. /\ \A p \in Pvt : Holds(p) => pvt[p].tty \in ToSet(usbdevs)
        /\ \A p, q \in Pvt : Holds(p) /\ Holds(q) /\ pvt[p].tty = pvt[q].tty => p = q
    BY <1>1 DEF LifeInv, HeldOnce
  <2>2. ASSUME NEW p \in Pvt, Holds(p)'
        PROVE  \/ /\ Contains(new, p) /\ pvt'[p].tty = found[at(p)]
                  /\ pvt'[p].tty \in ToSet(found)
               \/ /\ Holds(p) /\ pvt'[p].tty = pvt[p].tty /\ pvt[p].tty \in ToSet(swept)
    <3>1. CASE pvt'[p].fd # "open" /\ pvt'[p].desired = "remove"
      BY <2>2, <3>1 DEF Holds
    <3>2. CASE Contains(new, p) /\ pvt'[p].tty = found[at(p)]
      BY <1>5, <3>2
    <3>3. CASE ~(Listed(p) /\ pvt[p].tty \in lost) /\ ~Contains(new, p) /\ pvt'[p] = pvt[p]
      <4>1. Listed(p)
        <5>1. CASE Listed(p)'
          BY <1>8, <3>3, <5>1
        <5>2. CASE pvt[p].fd = "open"
          BY <1>1, <5>2, LifecycleAssumption DEF OwnedInv, MonitorsOwned, DestroyedLast
        <5>. QED  BY <2>2, <3>3, <5>1, <5>2 DEF Holds
      <4>2. Holds(p)
        BY <2>2, <3>3, <4>1 DEF Holds
      <4>3. pvt[p].tty \in ToSet(swept)
        BY <2>1, <3>3, <4>1, <4>2 DEF lost
      <4>. QED  BY <3>3, <4>2, <4>3
    <3>. QED  BY <1>9, <3>1, <3>2, <3>3
  <2>3. \A p \in Pvt : Holds(p)' => pvt'[p].tty \in ToSet(usbdevs')
    BY <1>6, <2>2
  <2>4. ASSUME NEW p \in Pvt, NEW q \in Pvt, Holds(p)', Holds(q)', pvt'[p].tty = pvt'[q].tty
        PROVE  p = q
    <3>1. CASE Contains(new, p) /\ pvt'[p].tty = found[at(p)]
      <4>1. Contains(new, q) /\ pvt'[q].tty = found[at(q)]
        BY <1>3, <1>5, <2>2, <2>4, <3>1
      <4>2. at(p) = at(q)
        <5>1. DOMAIN found = 1 .. Len(found)
          BY <1>3, LenProperties
        <5>. QED  BY <1>3, <1>5, <2>4, <3>1, <4>1, <5>1 DEF IsInjective
      <4>. QED  BY <1>5, <3>1, <4>1, <4>2
    <3>2. CASE Holds(p) /\ pvt'[p].tty = pvt[p].tty /\ pvt[p].tty \in ToSet(swept)
      <4>1. Holds(q) /\ pvt'[q].tty = pvt[q].tty
        BY <1>3, <2>2, <2>4, <3>2
      <4>. QED  BY <2>1, <2>4, <3>2, <4>1
    <3>. QED  BY <2>2, <2>4, <3>1, <3>2
  <2>. QED  BY <2>3, <2>4
<1>14. AskersKnown' /\ Unwished'
  BY <1>1, <1>8, KnownStay DEF LifeInv
<1>15. StopKept'
  <2>1. \A p \in Pvt : Contains(new, p) => wish[p].event = "none"
    <3>1. unload.on = None /\ NoWish.event = "none"
      BY <1>1 DEF OwnedInv, DestroyedLast, NoWish
    <3>. QED  BY <1>5, <3>1, LifecycleAssumption DEF LifeInv, Unwished
  <2>. QED  BY <1>1, <1>9, <2>1 DEF LifeInv, StopKept
<1>16. \A q \in Pvt : ToldInTime(q) /\ LeftStopped(q)
  BY <1>9 DEF ToldInTime, LeftStopped, CutOff
<1>. QED  BY <1>10, <1>11, <1>12, <1>13, <1>14, <1>15, <1>16 DEF LifeInv

-----------------------------------------------------------------------------
(* The theorems                                                            *)

LEMMA LifeBegins == Init => LifeInv /\ GoneUnlisted
<1>. SUFFICES ASSUME Init PROVE LifeInv /\ GoneUnlisted
  OBVIOUS
<1>. DEFINE m == CHOOSE m \in Modem : TRUE
<1>1. /\ usbdevs = <<>> /\ devices = <<>> /\ dismissed = {}
      /\ pvt = [p \in Pvt |-> pvt_create(m)]
      /\ lockfile = [n \in Modem |-> None]
      /\ discovery.pc = "asleep" /\ unload.on = None
      /\ operator = [o \in Operator |-> Idle]
      /\ wish = [p \in Pvt |-> NoWish]
  BY DEF Init
<1>. HIDE DEF m
<1>2. \A p \in Pvt : /\ pvt[p].fd = "closed" /\ pvt[p].thread = "none"
                    /\ pvt[p].current = "stop" /\ pvt[p].busy = {}
  BY <1>1 DEF pvt_create
<1>3. \A p \in Pvt : ~Listed(p)
  BY <1>1 DEF Listed, Contains
<1>4. TableTyped
  BY <1>1, EmptySeq DEF TableTyped, IsInjective
<1>5. LocksTyped
  BY <1>1 DEF LocksTyped
<1>6. WishTyped
  BY <1>1 DEF WishTyped, WishType, NoWish, restate_time_t
<1>7. DevicesSound
  BY <1>2 DEF DevicesSound, Sound
<1>8. HeldOnce
  BY <1>2, <1>3 DEF HeldOnce, Holds
<1>9. JoinKnown /\ GoneUnlisted
  BY <1>1 DEF JoinKnown, GoneUnlisted
<1>10. AskersKnown
  BY <1>1 DEF AskersKnown, Idle, restate_time_t
<1>11. StopKept /\ Unwished
  BY <1>1 DEF StopKept, Unwished, NoWish
<1>. QED  BY <1>4, <1>5, <1>6, <1>7, <1>8, <1>9, <1>10, <1>11 DEF LifeInv

LEMMA LifeKept ==
    ASSUME OwnedInv, LifeInv, GoneUnlisted, [Next]_vars
    PROVE  LifeInv' /\ \A q \in Pvt : ToldInTime(q) /\ LeftStopped(q)
<1>. DEFINE Goal == LifeInv' /\ \A q \in Pvt : ToldInTime(q) /\ LeftStopped(q)
<1>1. CASE \E m \in Modem : Unplug(m) \/ Plug(m)
  BY <1>1, LifeUnplug, LifePlug
<1>2. CASE DiscoveryWakes \/ MonitorJoined \/ \E i \in DOMAIN devices : DiscoveryRemoves(i)
  BY <1>2, LifeWakes, LifeJoined, LifeRemoves
<1>3. ASSUME NEW p \in Pvt, DiscoveryLooks(p)
      PROVE  Goal
  BY <1>3, LifeLooks
<1>4. ASSUME NEW p \in Pvt, Monitor(p) \/ MonitorGivesUp(p)
      PROVE  Goal
  BY <1>4, LifeMonitor
<1>5. ASSUME NEW p \in Pvt, NEW s \in Service, ServiceBegins(p, s) \/ ServiceEnds(p, s)
      PROVE  Goal
  BY <1>5, LifeServiceBegins, LifeServiceEnds
<1>6. ASSUME NEW o \in Operator,
             \/ \E p \in Pvt : find_device(o, p)
             \/ \E event \in dev_state_t, when \in restate_time_t :
                   DesiredWritten(o, event, when)
             \/ RestartTimeWritten(o)
      PROVE  Goal
  BY <1>6, LifeFinds, LifeDesired, LifeTime
<1>7. CASE pvt_destroy \/ Destroyed
  BY <1>7, LifeDestroys, LifeDestroyed
<1>8. CASE \/ CannotTrylock \/ DiscoverySleeps \/ DiscoveryEnds
           \/ UnloadBegins \/ DiscoveryJoined \/ UnloadEnds
           \/ Unloaded \/ Stuck \/ UNCHANGED vars
  <2>1. Unloaded \/ Stuck => UNCHANGED vars
    BY DEF Unloaded, Stuck
  <2>. QED  BY <1>8, <2>1, LifeRests
<1>. HIDE DEF Goal
<1>9. Goal
  BY <1>1, <1>2, <1>3, <1>4, <1>5, <1>6, <1>7, <1>8 DEF Next, Discovery, Unloading, Goal
<1>. QED  BY <1>9 DEF Goal

\* With all that the proofs above keep.
KeptInv == OwnedInv /\ LifeInv /\ GoneUnlisted

LEMMA AlwaysKept == Spec => []KeptInv
<1>1. Init => KeptInv
  BY BeginsOwned, LifeBegins DEF KeptInv
<1>2. KeptInv /\ [Next]_vars => KeptInv'
  <2>1. KeptInv => OwnedInv /\ LifeInv /\ GoneUnlisted /\ AskersKnown
    BY DEF KeptInv, LifeInv
  <2>. QED  BY <2>1, StaysOwned, LifeKept, GoneKept DEF KeptInv
<1>. QED  BY <1>1, <1>2, PTL DEF Spec

\* However devices are found, lost, restarted, removed and destroyed: pvt_free,
\* which takes no lock and asks nobody, frees no device whose monitor runs or
\* whose tty is open.
THEOREM NoneFreedUnderMonitor == Spec => []MonitorsOwned
<1>1. KeptInv => MonitorsOwned
  BY DEF KeptInv, OwnedInv
<1>. QED  BY <1>1, AlwaysKept, PTL

\* The threads that share struct pvt, mostly without its lock, leave each field
\* with a value of its type, and no device and no modem is ever listed twice.
THEOREM LifecycleTyped == Spec => []TypeOK
<1>1. KeptInv => TypeOK
  BY DEF KeptInv, OwnedInv, Typed, LifeInv, TableTyped, LocksTyped, WishTyped, WishType,
         AskersKnown, TypeOK
<1>. QED  BY <1>1, AlwaysKept, PTL

\* However modems are pulled out and plugged in, and devices stopped, restarted
\* and removed, the discovery never has a second monitor read a tty, unless a
\* request came before the one before it was done.  The table of modems
\* (usbdevs_find) sees to it, whatever the lock files say.
THEOREM OneReaderAlways == Spec => []OneReader
<1>1. KeptInv => OneReader
  BY DEF KeptInv, LifeInv, HeldOnce, Holds, OneReader
<1>. QED  BY <1>1, AlwaysKept, PTL

\* However requests, calls, SMS and USSD requests follow each other: no monitor
\* is told to end (pvt_stop) while its device serves somebody, unless a request
\* for now, the unplugging of the modem or the unloading is behind it, or a request
\* has written what the device is to become and not yet when, which is the moment
\* in which the code cuts a call off against the request (helpers.c, lines 210 and
\* 211).
THEOREM GracefulAlways == Spec => GracefulWaits
<1>1. KeptInv /\ [Next]_vars => \A p \in Pvt : ToldInTime(p)
  BY LifeKept DEF KeptInv
<1>2. KeptInv /\ [Next]_vars =>
         [\A p \in Pvt : CutOff(p) => Excused(pvt[p], wish[p]) \/ HalfWritten(p)]_vars
  BY <1>1 DEF ToldInTime
<1>. QED  BY <1>2, AlwaysKept, PTL DEF Spec, GracefulWaits

\* However its monitor ends, whatever becomes of its modem, and between any two
\* steps of the discovery: do_discovery opens no tty for a device that an operator
\* has asked to stop or to go, unless a request came before the one before it was
\* done.
THEOREM StoppedStays == Spec => NotUndone
<1>1. KeptInv /\ [Next]_vars => \A p \in Pvt : LeftStopped(p)
  BY LifeKept DEF KeptInv
<1>2. KeptInv /\ [Next]_vars =>
         [\A p \in Pvt :
             /\ wish[p].event \in {"stop", "remove"}
             /\ pvt[p].fd # "open" /\ pvt'[p].fd = "open"
             => hasty']_vars
  BY <1>1 DEF LeftStopped
<1>. QED  BY <1>2, AlwaysKept, PTL DEF Spec, NotUndone
=============================================================================
