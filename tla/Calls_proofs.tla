---------------------------- MODULE Calls_proofs ----------------------------
(***************************************************************************)
(* What the calls of a device keep whatever its threads, the monitor and   *)
(* the modem do, for any number of call contexts, tasks, dialers and call  *)
(* indices and with any of the faults: TypeOK, CountsExact, PointersLive   *)
(* and, on a device with an audio tty, StreamsExact.  That one call is set *)
(* up at a time (OneDialAtATime) needs more, said at its theorem.          *)
(***************************************************************************)
EXTENDS Calls, CallOps_proofs

\* The inductive invariant: what the lemmas of CallOps_proofs need of the
\* calls, and the types of the rest.
IInv == TypeOK /\ Good(CpvtId, pvt)

\* Of a modem that says nothing strange.
ModemOK ==
    /\ events \in Seq(Results)
    /\ mcall \in [CallIdx -> [state : McallStates, dir : {"outgoing", "incoming"}]]
    /\ mdial \in BOOLEAN

\* The threads' notes and the connection.
RestOK ==
    /\ selectbusy \in BOOLEAN
    /\ request \in [Dialer -> Opts \union {NoRequest}]
    /\ number \in [Dialer -> 0 .. MaxCallIdx \union {NoNumber}]
    /\ hanging \subseteq CpvtId
    /\ conn \in {"up", "lost", "off"}

LEMMA IInvParts == IInv <=> ModemOK /\ RestOK /\ Good(CpvtId, pvt)
BY QueueType DEF IInv, TypeOK, ModemOK, RestOK, Good

LEMMA IInvFromParts == ModemOK' /\ RestOK' /\ Good(CpvtId, pvt') => IInv'
BY QueueType DEF IInv, TypeOK, ModemOK, RestOK, Good

LEMMA WriteOutcomesType ==
    ASSUME RestOK
    PROVE  WriteOutcomes \subseteq BOOLEAN
BY DEF RestOK, WriteOutcomes

-----------------------------------------------------------------------------
(* The start                                                               *)

LEMMA NoCallsGood == ASSUME NEW fresh PROVE Good(fresh, NoCalls)
<1>. DEFINE counts == [s \in call_state_t |-> 0]
            f == [c \in CpvtId |-> FreeCpvt]
<1>1. f \in [CpvtId -> Cpvts] /\ \A c \in CpvtId : ~f[c].activated /\ ~f[c].master
  BY NewCpvtTyped
<1>2. counts \in [call_state_t -> Int] /\ \A s \in call_state_t : counts[s] = 0
  OBVIOUS
<1>. HIDE DEF f, counts
<1>3. /\ NoCalls.at_queue = <<>> /\ NoCalls.chans = {} /\ NoCalls.chansno = 0
      /\ NoCalls.cpvt = f /\ NoCalls.chan_count = counts
      /\ NoCalls.last_dialed = NoCpvt /\ NoCalls.streams = [c \in CpvtId |-> 0]
  BY DEF NoCalls, f, counts
<1>4. NoCalls \in Pvts
  <2>1. <<>> \in Seq(Tasks) /\ {} \in SUBSET CpvtId
    OBVIOUS
  <2>2. NoCalls = [at_queue |-> <<>>, at_tasks |-> 0, at_cmds |-> 0, cpvt |-> f,
                   chans |-> {}, chansno |-> 0, chan_count |-> counts, last_dialed |-> NoCpvt,
                   dialing |-> FALSE, ring |-> FALSE, cwaiting |-> FALSE,
                   streams |-> [c \in CpvtId |-> 0]]
    BY DEF NoCalls, f, counts
  <2>. QED  BY <1>1, <1>2, <2>1, <2>2 DEF Pvts
<1>5. CallsOK(NoCalls)
  <2>1. <<>> \in Seq(TasksFor(NoCalls.chans))
    OBVIOUS
  <2>2. \A s : InState(NoCalls, s) = {}
    BY <1>3 DEF InState
  <2>. QED  BY <1>2, <1>3, <1>4, <2>1, <2>2, FS_EmptySet DEF CallsOK
<1>6. StreamsOK(NoCalls)
  BY <1>1, <1>3 DEF StreamsOK
<1>. QED  BY <1>3, <1>5, <1>6 DEF Good, InState

LEMMA InitOK == Init => IInv
<1>. SUFFICES ASSUME Init PROVE IInv
  OBVIOUS
<1>1. ModemOK
  <2>1. NoCall \in [state : McallStates, dir : {"outgoing", "incoming"}]
    BY DEF NoCall, McallStates
  <2>2. mcall \in [CallIdx -> [state : McallStates, dir : {"outgoing", "incoming"}]]
    BY <2>1 DEF Init
  <2>3. <<>> \in Seq(Results) /\ FALSE \in BOOLEAN
    OBVIOUS
  <2>. QED  BY <2>2, <2>3 DEF Init, ModemOK
<1>2. RestOK
  BY DEF Init, RestOK
<1>. QED  BY <1>1, <1>2, NoCallsGood, IInvParts DEF Init

-----------------------------------------------------------------------------
(* Asterisk's threads                                                      *)

LEMMA DialedGood ==
    ASSUME NEW fresh, NEW p, Good(fresh, p), NEW c \in p.chans, NEW clir \in BOOLEAN, NEW ok \in BOOLEAN
    PROVE  Good(fresh, Dialed(p, c, clir, ok))
<1>. DEFINE job == at_enque_dial(p.chan_count["ACTIVE"] > 0 /\ p.cpvt[c].opts # "none", clir)
            q == Insert(p, c, job, ok)
<1>1. IsJob(job)
  BY JobsTyped
<1>2. Dialed(p, c, clir, ok) \in {q, NeedHangup(q, c, TRUE)}
  BY DEF Dialed
<1>. HIDE DEF job
<1>3. Good(fresh, q) /\ q.chans = p.chans
  BY <1>1, InsertGood
<1>. HIDE DEF q
<1>4. Good(fresh, NeedHangup(q, c, TRUE))
  BY <1>3, NeedHangupGood
<1>. QED  BY <1>2, <1>3, <1>4

LEMMA HungUpGood ==
    ASSUME NEW fresh, NEW p, Good(fresh, p), NEW c \in p.chans, NEW ok \in BOOLEAN
    PROVE  Good(fresh, HungUp(p, c, ok))
<1>. DEFINE h == HangupQueued(p, c, ok)
            told == IF ~p.cpvt[c].need_hangup THEN p
                    ELSE IF InsertFails(Undialed(p, c), c, at_enque_hangup, ok)
                    THEN h ELSE NeedHangup(h, c, FALSE)
            d == disactivate_call(told, c)
<1>1. HungUp(p, c, ok) = [d EXCEPT !.cpvt[c].channel = FALSE]
  BY DEF HungUp
<1>2. Good(fresh, h) /\ h.chans = p.chans
  BY HangupGood
<1>3. told \in {p, h, NeedHangup(h, c, FALSE)}
  OBVIOUS
<1>. HIDE DEF h, told
<1>4. Good(fresh, NeedHangup(h, c, FALSE)) /\ NeedHangup(h, c, FALSE).chans = h.chans
  BY <1>2, NeedHangupGood
<1>5. Good(fresh, told) /\ told.chans = p.chans
  BY <1>2, <1>3, <1>4
<1>6. Good(fresh, d) /\ d.chans = p.chans /\ (HasAudio => ~d.cpvt[c].activated)
  BY <1>5, DisactivateGood
<1>. HIDE DEF d
<1>. QED  BY <1>1, <1>6, UnchannelledGood

\* Only channel_request makes a context of a call that has not begun.
LEMMA ThreadStep ==
    ASSUME NEW fresh, ModemOK, RestOK, Good(fresh, pvt), ThreadNext,
           (\E d \in Dialer : channel_request(d)) => fresh = CpvtId
    PROVE  ModemOK' /\ RestOK' /\ Good(fresh, pvt')
<1>1. ModemOK /\ RestOK /\ Good(fresh, pvt) /\ CallsOK(pvt) /\ pvt.chans \subseteq CpvtId
  BY QueueType DEF Good
<1>2. WriteOutcomes \subseteq BOOLEAN
  BY <1>1, WriteOutcomesType
<1>3. ModemOK'
  BY <1>1 DEF ThreadNext, ModemOK, modem, threads, channel_request, NumberRead, SelectDevice,
              channel_call,
              channel_answer, channel_func_write, channel_hangup, channel_hangup_enters,
              FindDeviceExt, OtherJob
<1>4. ASSUME NEW d \in Dialer, NEW opts \in DialOpts, SelectDevice(d, opts)
      PROVE  RestOK' /\ Good(fresh, pvt')
  <2>1. opts \in Opts
    BY DialOptsAssumption
  <2>. QED  BY <1>1, <1>4, <2>1 DEF SelectDevice, RestOK
<1>5. ASSUME NEW d \in Dialer, channel_request(d)
      PROVE  RestOK' /\ Good(fresh, pvt')
  <2>1. RestOK'
    BY <1>1, <1>5 DEF channel_request, RestOK
  <2>2. request[d] \in Opts /\ number[d] \in 0 .. MaxCallIdx /\ fresh = CpvtId
    BY <1>1, <1>5 DEF channel_request, RestOK
  <2>3. ASSUME NEW c \in CpvtId \ pvt.chans
        PROVE  Good(fresh, cpvt_alloc(pvt, c, NewCpvt(number[d], "outgoing", "INIT", request[d])))
    <3>. DEFINE new == NewCpvt(number[d], "outgoing", "INIT", request[d])
    <3>1. "INIT" \in call_state_t
      BY DEF call_state_t
    <3>2. new \in Cpvts /\ ~new.activated /\ ~new.master
      BY <2>2, <3>1, NewCpvtTyped
    <3>. HIDE DEF new
    <3>3. c \in fresh
      BY <2>2
    <3>4. Good(fresh, cpvt_alloc(pvt, c, new))
      BY <1>1, <3>2, <3>3, AllocGood
    <3>. QED  BY <3>4 DEF new
  <2>. QED  BY <1>1, <1>5, <2>1, <2>3 DEF channel_request
<1>6. ASSUME NEW c \in CpvtId, channel_call(c)
      PROVE  RestOK' /\ Good(fresh, pvt')
  <2>. DEFINE q == [pvt EXCEPT !.cpvt[c].called = TRUE]
  <2>1. RestOK'
    BY <1>1, <1>6 DEF channel_call, RestOK, threads
  <2>2. c \in pvt.chans
    BY <1>6 DEF channel_call, HasChannel
  <2>3. Keeps(pvt, q)
    BY <1>1, <2>2, CalledKeeps
  <2>4. PICK clir \in Clir, ok \in WriteOutcomes : pvt' = Dialed(q, c, clir, ok)
    BY <1>6 DEF channel_call
  <2>. HIDE DEF q
  <2>5. Good(fresh, q) /\ q.chans = pvt.chans
    BY <1>1, <2>3, KeepsGood DEF Keeps
  <2>6. Good(fresh, Dialed(q, c, clir, ok))
    BY <1>2, <2>2, <2>5, DialedGood, ClirAssumption
  <2>. QED  BY <2>1, <2>4, <2>6
<1>7. ASSUME NEW c \in CpvtId, channel_answer(c)
      PROVE  RestOK' /\ Good(fresh, pvt')
  <2>. DEFINE q == [pvt EXCEPT !.cpvt[c].called = TRUE]
              job == at_enque_answer(pvt.cpvt[c].state)
  <2>1. RestOK'
    BY <1>1, <1>7 DEF channel_answer, RestOK, threads
  <2>2. c \in pvt.chans
    BY <1>7 DEF channel_answer, HasChannel
  <2>3. Keeps(pvt, q)
    BY <1>1, <2>2, CalledKeeps
  <2>4. PICK ok \in WriteOutcomes : pvt' = Insert(q, c, job, ok)
    BY <1>7 DEF channel_answer
  <2>5. IsJob(job)
    BY JobsTyped
  <2>. HIDE DEF q, job
  <2>6. Good(fresh, q) /\ q.chans = pvt.chans
    BY <1>1, <2>3, KeepsGood DEF Keeps
  <2>7. Good(fresh, Insert(q, c, job, ok))
    BY <1>2, <2>2, <2>5, <2>6, InsertGood
  <2>. QED  BY <2>1, <2>4, <2>7
<1>8. ASSUME NEW c \in CpvtId, channel_func_write(c)
      PROVE  RestOK' /\ Good(fresh, pvt')
  <2>1. RestOK'
    BY <1>1, <1>8 DEF channel_func_write, RestOK, threads
  <2>2. c \in pvt.chans
    BY <1>8 DEF channel_func_write, HasChannel
  <2>3. PICK ok \in WriteOutcomes : pvt' = Insert(pvt, c, at_enque_activate, ok)
    BY <1>8 DEF channel_func_write
  <2>4. Good(fresh, Insert(pvt, c, at_enque_activate, ok))
    BY <1>1, <1>2, <2>2, JobsTyped, InsertGood
  <2>. QED  BY <2>1, <2>3, <2>4
<1>9. ASSUME NEW c \in CpvtId, channel_hangup(c)
      PROVE  RestOK' /\ Good(fresh, pvt')
  <2>1. RestOK'
    BY <1>1, <1>9 DEF channel_hangup, RestOK
  <2>2. c \in pvt.chans
    BY <1>9 DEF channel_hangup, HasChannel
  <2>3. PICK ok \in WriteOutcomes : pvt' = HungUp(pvt, c, ok)
    BY <1>9 DEF channel_hangup
  <2>4. Good(fresh, HungUp(pvt, c, ok))
    BY <1>1, <1>2, <2>2, HungUpGood
  <2>. QED  BY <2>1, <2>3, <2>4
<1>10. ASSUME NEW c \in CpvtId, channel_hangup_enters(c)
       PROVE  RestOK' /\ Good(fresh, pvt')
  BY <1>1, <1>10 DEF channel_hangup_enters, RestOK
<1>11. ASSUME FindDeviceExt
       PROVE  RestOK' /\ Good(fresh, pvt')
  BY <1>1, <1>11 DEF FindDeviceExt, RestOK
<1>12. ASSUME OtherJob
       PROVE  RestOK' /\ Good(fresh, pvt')
  <2>1. RestOK'
    BY <1>1, <1>12 DEF OtherJob, RestOK, threads
  <2>2. PICK ok \in WriteOutcomes : pvt' = Insert(pvt, sys_chan, at_enque_ping, ok)
    BY <1>12 DEF OtherJob
  <2>3. Good(fresh, Insert(pvt, sys_chan, at_enque_ping, ok))
    BY <1>1, <1>2, JobsTyped, InsertGood
  <2>. QED  BY <2>1, <2>2, <2>3
<1>13. ASSUME NEW d \in Dialer, NumberRead(d)
       PROVE  RestOK' /\ Good(fresh, pvt')
  <2>1. pvt_get_pseudo_call_idx(pvt) \in 0 .. MaxCallIdx
    BY <1>1, PseudoIdx
  <2>. QED  BY <1>1, <1>13, <2>1 DEF NumberRead, RestOK
<1>. QED  BY <1>3, <1>4, <1>5, <1>6, <1>7, <1>8, <1>9, <1>10, <1>11, <1>12, <1>13 DEF ThreadNext

-----------------------------------------------------------------------------
(* The monitor                                                             *)

LEMMA AcknowledgedGood ==
    ASSUME NEW fresh, NEW p, Good(fresh, p), NEW c \in p.chans \union {sys_chan}
    PROVE  Good(fresh, Acknowledged(p, c))
<1>. DEFINE on == TRUE
            last == IF c = sys_chan THEN p.last_dialed ELSE c
            q == Reflagged(p, on, p.ring, p.cwaiting, last)
<1>1. /\ p \in Pvts /\ on \in BOOLEAN /\ p.ring \in BOOLEAN /\ p.cwaiting \in BOOLEAN
      /\ last \in p.chans \union {NoCpvt}
  BY DEF Good, CallsOK, Pvts
<1>2. q = [p EXCEPT !.dialing = TRUE, !.last_dialed = IF c = sys_chan THEN @ ELSE c]
  BY <1>1 DEF Reflagged, Pvts
<1>3. Acknowledged(p, c) \in
         {NeedHangup(q, c, TRUE), NeedHangup(p, c, TRUE), NeedHangup(p, c, FALSE), p}
  BY <1>2 DEF Acknowledged
<1>. HIDE DEF on, last
<1>4. Good(fresh, q) /\ q.chans = p.chans
  BY <1>1, ReflaggedGood
<1>. HIDE DEF q
<1>5. Good(fresh, NeedHangup(q, c, TRUE))
  BY <1>4, NeedHangupGood
<1>6. Good(fresh, NeedHangup(p, c, TRUE)) /\ Good(fresh, NeedHangup(p, c, FALSE))
  BY NeedHangupGood
<1>. QED  BY <1>3, <1>5, <1>6

LEMMA OriginatedGood ==
    ASSUME NEW fresh, NEW p, Good(fresh, p), NEW idx \in 0 .. MaxCallIdx, NEW ok \in BOOLEAN
    PROVE  Good(fresh, Originated(p, idx, ok))
<1>. DEFINE c == p.last_dialed
            q == [p EXCEPT !.last_dialed = NoCpvt]
            n == [q EXCEPT !.cpvt[c].idx = idx]
            d == change_channel_state(n, c, "DIALING")
<1>1. Originated(p, idx, ok) = IF c = NoCpvt THEN q ELSE request_clcc(d, ok)
  BY DEF Originated
<1>2. c \in p.chans \union {NoCpvt} /\ p \in Pvts
  BY DEF Good, CallsOK
<1>3. Good(fresh, q) /\ q.chans = p.chans
  <2>1. q = Reflagged(p, p.dialing, p.ring, p.cwaiting, NoCpvt)
    BY <1>2 DEF Reflagged, Pvts
  <2>2. p.dialing \in BOOLEAN /\ p.ring \in BOOLEAN /\ p.cwaiting \in BOOLEAN
    BY <1>2 DEF Pvts
  <2>. HIDE DEF q
  <2>. QED  BY <2>1, <2>2, ReflaggedGood
<1>4. ASSUME c # NoCpvt PROVE Good(fresh, request_clcc(d, ok))
  <2>1. c \in q.chans
    BY <1>2, <1>3, <1>4
  <2>. HIDE DEF c, q
  <2>2. Keeps(q, n)
    BY <1>3, <2>1, NumberedKeeps DEF Good
  <2>. HIDE DEF n
  <2>3. Good(fresh, n) /\ c \in n.chans
    BY <1>3, <2>1, <2>2, KeepsGood DEF Keeps
  <2>4. "DIALING" \in call_state_t
    BY DEF call_state_t
  <2>5. Good(fresh, d)
    BY <2>3, <2>4, ChangeGood
  <2>. HIDE DEF d
  <2>. QED  BY <2>5, clccGood
<1>. HIDE DEF d, q
<1>. QED  BY <1>1, <1>3, <1>4

\* A call of a device is released, with no more need for a hangup.
LEMMA ReleasedGood ==
    ASSUME NEW fresh, NEW p, Good(fresh, p), NEW c \in p.chans
    PROVE  Good(fresh, change_channel_state(NeedHangup(p, c, FALSE), c, "RELEASED"))
<1>. DEFINE q == NeedHangup(p, c, FALSE)
<1>1. Good(fresh, q) /\ q.chans = p.chans
  BY NeedHangupGood
<1>2. "RELEASED" \in call_state_t
  BY DEF call_state_t
<1>. HIDE DEF q
<1>3. Good(fresh, change_channel_state(q, c, "RELEASED"))
  BY <1>1, <1>2, ChangeGood
<1>. QED  BY <1>3 DEF q

\* A search finds a call in use or none.
LEMMA Found ==
    ASSUME NEW p, NEW idx, NEW c \in pvt_find_cpvt(p, idx)
    PROVE  c \in p.chans \union {NoCpvt}
BY DEF pvt_find_cpvt, WithIdx

LEMMA EndedGood ==
    ASSUME NEW fresh, NEW p, Good(fresh, p), NEW c \in p.chans \union {NoCpvt}, NEW ok \in BOOLEAN
    PROVE  Good(fresh, Ended(p, c, ok))
<1>. DEFINE q == request_clcc(p, ok)
<1>1. Ended(p, c, ok) = IF c = NoCpvt THEN q
                        ELSE change_channel_state(NeedHangup(q, c, FALSE), c, "RELEASED")
  BY DEF Ended
<1>2. Good(fresh, q) /\ q.chans = p.chans
  BY clccGood
<1>. HIDE DEF q
<1>3. c # NoCpvt => Good(fresh, change_channel_state(NeedHangup(q, c, FALSE), c, "RELEASED"))
  BY <1>2, ReleasedGood
<1>. QED  BY <1>1, <1>2, <1>3

LEMMA ConnectedGood ==
    ASSUME NEW fresh, NEW p, Good(fresh, p), NEW c \in p.chans \union {NoCpvt}, NEW ok \in BOOLEAN
    PROVE  Good(fresh, Connected(p, c, ok))
<1>. DEFINE q == [p EXCEPT !.ring = FALSE, !.dialing = FALSE, !.cwaiting = FALSE]
            a == change_channel_state(q, c, "ACTIVE")
            l == request_clcc(a, ok)
<1>1. Connected(p, c, ok) =
        IF c = NoCpvt THEN HangupQueued(q, sys_chan, ok)
        ELSE IF Group295 /\ a.cpvt[c].dir = "outgoing" THEN HangupQueued(a, c, ok)
        ELSE IF a.cpvt[c].called /\ a.cpvt[c].opts = "conference"
        THEN Insert(l, c, at_enque_conference, ok)
        ELSE l
  BY DEF Connected
<1>2. Good(fresh, q) /\ q.chans = p.chans
  <2>1. p.last_dialed \in p.chans \union {NoCpvt} /\ p \in Pvts
    BY DEF Good, CallsOK
  <2>2. q = Reflagged(p, FALSE, FALSE, FALSE, p.last_dialed)
    BY <2>1 DEF Reflagged, Pvts
  <2>. HIDE DEF q
  <2>. QED  BY <2>1, <2>2, ReflaggedGood
<1>. HIDE DEF q
<1>3. Good(fresh, HangupQueued(q, sys_chan, ok))
  BY <1>2, HangupGood
<1>4. ASSUME c # NoCpvt
      PROVE  /\ Good(fresh, l) /\ Good(fresh, HangupQueued(a, c, ok))
             /\ Good(fresh, Insert(l, c, at_enque_conference, ok))
  <2>1. "ACTIVE" \in call_state_t /\ "ACTIVE" # "RELEASED" /\ c \in q.chans
    BY <1>2, <1>4 DEF call_state_t
  <2>2. Good(fresh, a) /\ c \in a.chans
    BY <1>2, <2>1, ChangeGood
  <2>. HIDE DEF a
  <2>3. Good(fresh, l) /\ l.chans = a.chans
    BY <2>2, clccGood
  <2>. HIDE DEF l
  <2>4. Good(fresh, HangupQueued(a, c, ok))
    BY <2>2, HangupGood
  <2>5. Good(fresh, Insert(l, c, at_enque_conference, ok))
    BY <2>2, <2>3, JobsTyped, InsertGood
  <2>. QED  BY <2>3, <2>4, <2>5
<1>. HIDE DEF a, l
<1>. QED  BY <1>1, <1>3, <1>4

LEMMA FlagsListedGood ==
    ASSUME NEW fresh, NEW p, Good(fresh, p), NEW s
    PROVE  Good(fresh, FlagsListed(p, s))
<1>. DEFINE w == s = "WAITING"
            r == s = "INCOMING"
            d == s \in {"DIALING", "ALERTING"}
            q == Reflagged(p, d, r, w, p.last_dialed)
<1>1. p.last_dialed \in p.chans \union {NoCpvt} /\ p \in Pvts
  BY DEF Good, CallsOK
<1>2. FlagsListed(p, s) \in {p, q}
  BY <1>1 DEF FlagsListed, Reflagged, Pvts
<1>3. d \in BOOLEAN /\ r \in BOOLEAN /\ w \in BOOLEAN
  OBVIOUS
<1>. HIDE DEF d, r, w
<1>4. Good(fresh, q)
  BY <1>1, <1>3, ReflaggedGood
<1>. HIDE DEF q
<1>. QED  BY <1>2, <1>4

\* The calls a modem lists are in a state of calls.
LEMMA LineType ==
    ASSUME NEW l \in Line
    PROVE  /\ l.idx \in 0 .. MaxCallIdx
           /\ l.state \in call_state_t /\ l.state \notin {"RELEASED", "INIT"}
BY CallIdxAssumption DEF Line, McallStates, CallIdx

LEMMA ListedGood ==
    ASSUME NEW fresh, NEW p, Good(fresh, p), NEW l \in Line, NEW ok \in BOOLEAN, NEW q \in Listed(p, l, ok)
    PROVE  Good(fresh, q)
<1>1. CASE WithIdx(p, l.idx) # {}
  <2>1. PICK c \in WithIdx(p, l.idx) : q \in {p, change_channel_state(p, c, l.state)}
    BY <1>1 DEF Listed
  <2>2. c \in p.chans
    BY DEF WithIdx
  <2>3. Good(fresh, change_channel_state(p, c, l.state))
    BY <2>2, LineType, ChangeGood
  <2>. QED  BY <2>1, <2>3
<1>2. CASE /\ WithIdx(p, l.idx) = {} /\ l.dir = "incoming"
           /\ l.state \in {"INCOMING", "WAITING"}
  <2>1. \/ q \in {p, HangupQueued(p, sys_chan, ok)}
        \/ \E c \in CpvtId \ p.chans :
              q = cpvt_alloc(p, c, [NewCpvt(l.idx, "incoming", l.state, "none")
                                      EXCEPT !.need_hangup = TRUE])
    BY <1>2 DEF Listed, StartPbx
  <2>2. Good(fresh, HangupQueued(p, sys_chan, ok))
    BY HangupGood
  <2>3. ASSUME NEW c \in CpvtId \ p.chans
        PROVE  Good(fresh, cpvt_alloc(p, c, [NewCpvt(l.idx, "incoming", l.state, "none")
                                        EXCEPT !.need_hangup = TRUE]))
    <3>. DEFINE n == NewCpvt(l.idx, "incoming", l.state, "none")
                new == [n EXCEPT !.need_hangup = TRUE]
    <3>1. "none" \in Opts
      BY DEF Opts
    <3>2. n \in Cpvts /\ ~n.activated /\ ~n.master
      BY <3>1, LineType, NewCpvtTyped
    <3>3. n.state # "INIT"
      BY LineType DEF NewCpvt
    <3>. HIDE DEF n
    <3>4. new \in Cpvts /\ ~new.activated /\ ~new.master /\ new.state # "INIT"
      BY <3>2, <3>3 DEF Cpvts
    <3>. HIDE DEF new
    <3>5. Good(fresh, cpvt_alloc(p, c, new))
      BY <3>4, AllocGood
    <3>. QED  BY <3>5 DEF new, n
  <2>. QED  BY <2>1, <2>2, <2>3
<1>3. CASE /\ WithIdx(p, l.idx) = {}
           /\ ~(l.dir = "incoming" /\ l.state \in {"INCOMING", "WAITING"})
  BY <1>3 DEF Listed
<1>. QED  BY <1>1, <1>2, <1>3

\* A result that was handled leaves the queue of results.
LEMMA HandledOK ==
    ASSUME NEW fresh, ModemOK, RestOK, events # <<>>, NEW p, Good(fresh, p), NEW ok \in BOOLEAN, NEW fatal,
           Handled(p, ok, fatal)
    PROVE  ModemOK' /\ RestOK' /\ Good(fresh, pvt')
<1>1. /\ pvt' \in {p, at_queue_run(p, ok)} /\ conn' \in {"up", "lost"}
      /\ events' \in {<<>>, Tail(events)}
      /\ UNCHANGED <<threads, modem>>
  BY DEF Handled
<1>2. Good(fresh, at_queue_run(p, ok))
  BY RunGood
<1>3. events' \in Seq(Results)
  <2>1. events \in Seq(Results) /\ <<>> \in Seq(Results)
    BY DEF ModemOK
  <2>2. Tail(events) \in Seq(Results)
    BY ONLY <2>1, events # <<>>, HeadTailProperties
  <2>. QED  BY <1>1, <2>1, <2>2
<1>. QED  BY <1>1, <1>2, <1>3 DEF ModemOK, RestOK, threads, modem

LEMMA at_response_clccOK ==
    ASSUME NEW fresh, ModemOK, RestOK, Good(fresh, pvt), at_response_clcc
    PROVE  ModemOK' /\ RestOK' /\ Good(fresh, pvt')
<1>. DEFINE h == Head(events)
            rest == {i \in DOMAIN h.lines : i > h.idx}
            n == CHOOSE i \in rest : \A j \in rest : i <= j
            line == h.lines[n]
<1>1. events \in Seq(Results) /\ events # <<>> /\ h \in Results /\ h.res = "CLCC"
  BY DEF at_response_clcc, Reads, ModemOK
<1>2. /\ rest # {} /\ rest \subseteq CallIdx /\ rest \subseteq DOMAIN h.lines
      /\ \A i \in rest : h.lines[i] \in Line
  <2>1. PICK listed \in SUBSET CallIdx : h.lines \in [listed -> Line]
    BY <1>1 DEF Results
  <2>2. \E i \in DOMAIN h.lines : i > h.idx
    BY <1>1 DEF Results
  <2>. QED  BY <2>1, <2>2
<1>. DEFINE Step(ok, q) ==
              IF rest = {n} THEN Handled(FlagsListed(q, line.state), ok, FALSE)
              ELSE /\ pvt' = FlagsListed(q, line.state)
                   /\ events' = [events EXCEPT ![1].idx = n]
                   /\ UNCHANGED <<threads, conn, modem>>
<1>a. PICK ok \in WriteOutcomes : \E q \in Listed(pvt, line, ok) : Step(ok, q)
  BY DEF at_response_clcc
<1>3. PICK q \in Listed(pvt, line, ok) : Step(ok, q)
  BY <1>a
<1>. HIDE DEF h, rest
<1>4. n \in rest /\ \A j \in rest : n <= j
  <2>1. \E i \in rest : \A j \in rest : i <= j
    BY <1>2, LeastOfNat DEF CallIdx
  <2>. QED  BY <2>1
<1>. HIDE DEF n
<1>5. line \in Line /\ ok \in BOOLEAN
  BY <1>2, <1>4, WriteOutcomesType
<1>. HIDE DEF line
<1>. DEFINE p == FlagsListed(q, line.state)
<1>6. Good(fresh, p)
  BY <1>5, ListedGood, FlagsListedGood
<1>7. CASE rest = {n}
  <2>1. Handled(p, ok, FALSE)
    BY <1>3, <1>7
  <2>. HIDE DEF p
  <2>. QED  BY <1>1, <1>5, <1>6, <2>1, HandledOK
<1>8. CASE rest # {n}
  <2>. DEFINE e == [h EXCEPT !.idx = n]
  <2>1. /\ pvt' = p /\ events' = [events EXCEPT ![1].idx = n]
        /\ UNCHANGED <<threads, conn, modem>>
    BY <1>3, <1>8
  <2>. HIDE DEF p
  <2>2. h = events[1] /\ 1 \in 1 .. Len(events)
    BY <1>1 DEF h
  <2>3. events' = [events EXCEPT ![1] = e]
    BY <2>1, <2>2
  <2>4. e \in Results
    <3>1. PICK i \in rest : i # n
      BY <1>4, <1>8
    <3>2. i \in DOMAIN h.lines /\ i > n
      BY <1>2, <1>4, <3>1 DEF CallIdx
    <3>3. e.res = "CLCC" /\ e.idx = n /\ e.lines = h.lines
      BY <1>1 DEF Results
    <3>4. n \in 0 .. MaxCallIdx
      BY <1>2, <1>4, CallIdxAssumption DEF CallIdx
    <3>5. e \in [res : {"OK", "ERROR", "ORIG", "CEND", "CONN", "RING", "CCWA", "CLCC"},
                 idx : 0 .. MaxCallIdx,
                 lines : UNION {[listed -> Line] : listed \in SUBSET CallIdx}]
      BY <1>1, <3>4 DEF Results
    <3>. HIDE DEF e
    <3>. QED  BY <3>2, <3>3, <3>5 DEF Results
  <2>. HIDE DEF e
  <2>5. events' \in Seq(Results)
    BY <1>1, <2>2, <2>3, <2>4, ExceptSeq
  <2>. QED  BY <1>6, <2>1, <2>5 DEF ModemOK, RestOK, threads, modem
<1>. QED  BY <1>7, <1>8

LEMMA MonitorStep ==
    ASSUME NEW fresh, ModemOK, RestOK, Good(fresh, pvt), MonitorNext
    PROVE  ModemOK' /\ RestOK' /\ Good(fresh, pvt')
<1>1. ModemOK /\ RestOK /\ Good(fresh, pvt) /\ CallsOK(pvt) /\ pvt.chans \subseteq CpvtId
  BY QueueType DEF Good
<1>2. WriteOutcomes \subseteq BOOLEAN
  BY <1>1, WriteOutcomesType
<1>3. ASSUME events # <<>>
      PROVE  Head(events) \in Results
  BY <1>1, <1>3 DEF ModemOK
<1>4. ~QueueEmpty(pvt) => at_queue_head_task(pvt).cpvt \in pvt.chans \union {sys_chan}
  BY <1>1, HeadTask
<1>5. ASSUME at_response_ok
      PROVE  ModemOK' /\ RestOK' /\ Good(fresh, pvt')
  <2>. DEFINE a == Acknowledged(pvt, at_queue_head_task(pvt).cpvt)
              r == at_queue_remove_cmd(a, "OK")
              p == IF QueueEmpty(pvt) THEN pvt ELSE r
  <2>1. events # <<>> /\ \E ok \in WriteOutcomes : Handled(p, ok, FALSE)
    BY <1>5 DEF at_response_ok, Reads
  <2>2. Good(fresh, p)
    <3>1. ~QueueEmpty(pvt) => Good(fresh, a)
      BY <1>1, <1>4, AcknowledgedGood
    <3>. HIDE DEF a
    <3>2. ~QueueEmpty(pvt) => Good(fresh, r)
      BY <3>1, RemoveCmdGood
    <3>. QED  BY <1>1, <3>2
  <2>. HIDE DEF p
  <2>. QED  BY <1>1, <1>2, <2>1, <2>2, HandledOK
<1>6. ASSUME at_response_error
      PROVE  ModemOK' /\ RestOK' /\ Good(fresh, pvt')
  <2>1. events # <<>>
    BY <1>6 DEF at_response_error, Reads
  <2>2. CASE QueueEmpty(pvt)
    <3>1. \E ok \in WriteOutcomes : Handled(pvt, ok, FALSE)
      BY <1>6, <2>2 DEF at_response_error
    <3>. QED  BY <1>1, <1>2, <2>1, <3>1, HandledOK
  <2>3. CASE ~QueueEmpty(pvt)
    <3>. DEFINE p(ok) == IF DialFailed(pvt)
                         THEN Insert(pvt, at_queue_head_task(pvt).cpvt, at_enque_cmd_proc, ok)
                         ELSE pvt
                r(ok) == at_queue_remove_cmd(p(ok), "ERROR")
                fatal == at_queue_head_cmd(pvt).cmd \in CriticalCmds
    <3>1. PICK ok \in WriteOutcomes : Handled(r(ok), ok, fatal)
      BY <1>6, <2>3 DEF at_response_error
    <3>2. ok \in BOOLEAN
      BY <1>2
    <3>3. Good(fresh, p(ok))
      BY <1>1, <1>4, <2>3, <3>2, InsertGood, JobsTyped
    <3>. HIDE DEF p, fatal
    <3>4. Good(fresh, r(ok))
      BY <3>3, RemoveCmdGood
    <3>. HIDE DEF r
    <3>. QED  BY <1>1, <2>1, <3>1, <3>2, <3>4, HandledOK
  <2>. QED  BY <2>2, <2>3
<1>7. ASSUME at_response_orig
      PROVE  ModemOK' /\ RestOK' /\ Good(fresh, pvt')
  <2>. DEFINE p(ok) == Originated(pvt, Head(events).idx, ok)
  <2>1. events # <<>> /\ \E ok \in WriteOutcomes : Handled(p(ok), ok, FALSE)
    BY <1>7 DEF at_response_orig, Reads
  <2>2. Head(events).idx \in 0 .. MaxCallIdx
    BY <1>3, <2>1 DEF Results
  <2>3. \A ok \in BOOLEAN : Good(fresh, p(ok))
    BY <1>1, <2>2, OriginatedGood
  <2>. HIDE DEF p
  <2>. QED  BY <1>1, <1>2, <2>1, <2>3, HandledOK
<1>8. ASSUME at_response_cend
      PROVE  ModemOK' /\ RestOK' /\ Good(fresh, pvt')
  <2>. DEFINE p(c, ok) == Ended(pvt, c, ok)
  <2>1. /\ events # <<>>
        /\ \E ok \in WriteOutcomes, c \in pvt_find_cpvt(pvt, Head(events).idx) :
              Handled(p(c, ok), ok, FALSE)
    BY <1>8 DEF at_response_cend, Reads
  <2>2. \A ok \in BOOLEAN, c \in pvt_find_cpvt(pvt, Head(events).idx) : Good(fresh, p(c, ok))
    BY <1>1, Found, EndedGood
  <2>. HIDE DEF p
  <2>. QED  BY <1>1, <1>2, <2>1, <2>2, HandledOK
<1>9. ASSUME at_response_conn
      PROVE  ModemOK' /\ RestOK' /\ Good(fresh, pvt')
  <2>. DEFINE p(c, ok) == Connected(pvt, c, ok)
  <2>1. /\ events # <<>>
        /\ \E ok \in WriteOutcomes, c \in pvt_find_cpvt(pvt, Head(events).idx) :
              Handled(p(c, ok), ok, FALSE)
    BY <1>9 DEF at_response_conn, Reads
  <2>2. \A ok \in BOOLEAN, c \in pvt_find_cpvt(pvt, Head(events).idx) : Good(fresh, p(c, ok))
    BY <1>1, Found, ConnectedGood
  <2>. HIDE DEF p
  <2>. QED  BY <1>1, <1>2, <2>1, <2>2, HandledOK
<1>10. /\ pvt \in Pvts /\ pvt.last_dialed \in pvt.chans \union {NoCpvt}
       /\ pvt.dialing \in BOOLEAN /\ pvt.ring \in BOOLEAN /\ pvt.cwaiting \in BOOLEAN
  BY <1>1 DEF CallsOK, Pvts
<1>11. ASSUME at_response_ring
       PROVE  ModemOK' /\ RestOK' /\ Good(fresh, pvt')
  <2>. DEFINE q == Reflagged(pvt, FALSE, TRUE, FALSE, pvt.last_dialed)
              p(ok) == request_clcc(q, ok)
  <2>1. q = [pvt EXCEPT !.ring = TRUE, !.dialing = FALSE, !.cwaiting = FALSE]
    BY <1>10 DEF Reflagged, Pvts
  <2>2. events # <<>> /\ \E ok \in WriteOutcomes : Handled(p(ok), ok, FALSE)
    BY <1>11, <2>1 DEF at_response_ring, Reads
  <2>3. Good(fresh, q)
    BY <1>1, <1>10, ReflaggedGood
  <2>. HIDE DEF q
  <2>4. \A ok \in BOOLEAN : Good(fresh, p(ok))
    BY <2>3, clccGood
  <2>. HIDE DEF p
  <2>. QED  BY <1>1, <1>2, <2>2, <2>4, HandledOK
<1>12. ASSUME at_response_ccwa
       PROVE  ModemOK' /\ RestOK' /\ Good(fresh, pvt')
  <2>. DEFINE q == Reflagged(pvt, pvt.dialing, pvt.ring, TRUE, pvt.last_dialed)
              p(ok) == request_clcc(q, ok)
  <2>1. q = [pvt EXCEPT !.cwaiting = TRUE]
    BY <1>10 DEF Reflagged, Pvts
  <2>2. events # <<>> /\ \E ok \in WriteOutcomes : Handled(p(ok), ok, FALSE)
    BY <1>12, <2>1 DEF at_response_ccwa, Reads
  <2>3. Good(fresh, q)
    BY <1>1, <1>10, ReflaggedGood
  <2>. HIDE DEF q
  <2>4. \A ok \in BOOLEAN : Good(fresh, p(ok))
    BY <2>3, clccGood
  <2>. HIDE DEF p
  <2>. QED  BY <1>1, <1>2, <2>2, <2>4, HandledOK
<1>13. ASSUME at_response_clcc
       PROVE  ModemOK' /\ RestOK' /\ Good(fresh, pvt')
  BY <1>1, <1>13, at_response_clccOK
<1>14. ASSUME MonitorCleanup
       PROVE  ModemOK' /\ RestOK' /\ Good(fresh, pvt')
  <2>1. <<>> \in Seq(Results)
    OBVIOUS
  <2>. QED  BY <1>1, <1>14, <2>1 DEF MonitorCleanup, ModemOK, RestOK, threads, modem
<1>15. ASSUME NEW c \in CpvtId, DisconnectReleases(c)
       PROVE  ModemOK' /\ RestOK' /\ Good(fresh, pvt')
  <2>1. Good(fresh, pvt')
    BY <1>1, <1>15, ReleasedGood DEF DisconnectReleases
  <2>. QED  BY <1>1, <1>15, <2>1 DEF DisconnectReleases, ModemOK, RestOK, threads, modem
<1>16. ASSUME DisconnectEnds
       PROVE  ModemOK' /\ RestOK' /\ Good(fresh, pvt')
  <2>. DEFINE f == at_queue_flush(pvt)
  <2>1. Good(fresh, f)
    BY <1>1, FlushGood
  <2>2. pvt' = [f EXCEPT !.last_dialed = NoCpvt, !.dialing = FALSE, !.ring = FALSE,
                         !.cwaiting = FALSE]
    BY <1>16 DEF DisconnectEnds
  <2>. HIDE DEF f
  <2>3. pvt' = Reflagged(f, FALSE, FALSE, FALSE, NoCpvt)
    BY <2>1, <2>2 DEF Reflagged, Good, CallsOK, Pvts
  <2>4. Good(fresh, pvt')
    BY <2>1, <2>3, ReflaggedGood
  <2>. QED  BY <1>1, <1>16, <2>4 DEF DisconnectEnds, ModemOK, RestOK, modem
<1>17. ASSUME Reconnect
       PROVE  ModemOK' /\ RestOK' /\ Good(fresh, pvt')
  <2>1. NoCall \in [state : McallStates, dir : {"outgoing", "incoming"}]
    BY DEF NoCall, McallStates
  <2>2. mcall' \in [CallIdx -> [state : McallStates, dir : {"outgoing", "incoming"}]]
    BY <1>1, <1>17, <2>1 DEF Reconnect, ModemOK
  <2>. QED  BY <1>1, <1>17, <2>2 DEF Reconnect, ModemOK, RestOK
<1>. QED  BY <1>5, <1>6, <1>7, <1>8, <1>9, <1>11, <1>12, <1>13, <1>14, <1>15, <1>16, <1>17
          DEF MonitorNext

-----------------------------------------------------------------------------
(* The modem                                                               *)

Mcalls == [CallIdx -> [state : McallStates, dir : {"outgoing", "incoming"}]]

\* What the modem says is typed; nothing else changes.
LEMMA SaysOK ==
    ASSUME NEW fresh, ModemOK, RestOK, Good(fresh, pvt), NEW results \in Seq(Results), Says(results),
           mcall' \in Mcalls, mdial' \in BOOLEAN
    PROVE  ModemOK' /\ RestOK' /\ Good(fresh, pvt')
<1>1. events' = events \o results /\ UNCHANGED <<pvt, threads, conn>>
  BY DEF Says
<1>2. events \in Seq(Results)
  BY DEF ModemOK
<1>3. events' \in Seq(Results)
  BY <1>1, <1>2, ConcatProperties
<1>. QED  BY <1>1, <1>3 DEF ModemOK, RestOK, threads, Mcalls

\* The results without lines.
LEMMA EventType ==
    /\ OK \in Results /\ ERROR \in Results
    /\ \A i \in CallIdx, res \in {"ORIG", "CEND", "CONN"} : Event(res, i) \in Results
    /\ Event("RING", 0) \in Results /\ Event("CCWA", 0) \in Results
<1>1. <<>> \in UNION {[listed -> Line] : listed \in SUBSET CallIdx}
  <2>1. <<>> \in [{} -> Line]
    OBVIOUS
  <2>. QED  BY <2>1
<1>2. 0 \in 0 .. MaxCallIdx /\ CallIdx \subseteq 0 .. MaxCallIdx
  BY CallIdxAssumption DEF CallIdx
<1>3. ASSUME NEW idx \in 0 .. MaxCallIdx,
             NEW res \in {"OK", "ERROR", "ORIG", "CEND", "CONN", "RING", "CCWA"},
             res \in {"ORIG", "CEND", "CONN"} => idx \in CallIdx
      PROVE  Event(res, idx) \in Results
  <2>. DEFINE none == <<>>
  <2>1. Event(res, idx) = [res |-> res, idx |-> idx, lines |-> none]
    BY DEF Event
  <2>2. none \in UNION {[listed -> Line] : listed \in SUBSET CallIdx}
    BY <1>1
  <2>. HIDE DEF none
  <2>. QED  BY <1>3, <2>1, <2>2 DEF Results
<1>. QED  BY <1>2, <1>3 DEF OK, ERROR

\* The states the modem's calls get.
LEMMA MovedType ==
    ASSUME mcall \in Mcalls, NEW S, NEW becomes \in [S -> McallStates]
    PROVE  Moved(becomes) \in Mcalls
<1>1. ASSUME NEW i \in CallIdx
      PROVE  (IF mcall[i].state \in DOMAIN becomes
              THEN [mcall[i] EXCEPT !.state = becomes[@]] ELSE mcall[i])
                \in [state : McallStates, dir : {"outgoing", "incoming"}]
  <2>1. mcall[i] \in [state : McallStates, dir : {"outgoing", "incoming"}]
    BY DEF Mcalls
  <2>2. mcall[i].state \in DOMAIN becomes => becomes[mcall[i].state] \in McallStates
    OBVIOUS
  <2>. QED  BY <2>1, <2>2
<1>. QED  BY <1>1 DEF Moved, Mcalls

LEMMA WithType ==
    ASSUME NEW m \in Mcalls, NEW i \in CallIdx, NEW state \in McallStates
    PROVE  [m EXCEPT ![i].state = state] \in Mcalls
<1>1. m[i] \in [state : McallStates, dir : {"outgoing", "incoming"}]
  BY DEF Mcalls
<1>2. [m[i] EXCEPT !.state = state] \in [state : McallStates, dir : {"outgoing", "incoming"}]
  BY <1>1
<1>. QED  BY <1>2 DEF Mcalls

LEMMA NewIdxType ==
    ASSUME FreeIdx # {}
    PROVE  NewIdx \in CallIdx
<1>1. FreeIdx \in SUBSET Nat /\ FreeIdx \subseteq CallIdx
  BY DEF FreeIdx, ModemCalls, CallIdx
<1>2. \E i \in FreeIdx : \A j \in FreeIdx : i <= j
  BY <1>1, LeastOfNat
<1>. QED  BY <1>1, <1>2 DEF NewIdx

\* The lines of +CLCC.
LEMMA ListType ==
    ASSUME ModemOK, Alive # {}
    PROVE  [Event("CLCC", 0) EXCEPT !.lines = Lines] \in Results
<1>1. Lines \in [Alive -> Line] /\ Alive \subseteq CallIdx
  <2>1. ASSUME NEW i \in Alive
        PROVE  [idx |-> i, state |-> mcall[i].state, dir |-> mcall[i].dir] \in Line
    <3>1. /\ i \in CallIdx
          /\ mcall[i] \in [state : McallStates, dir : {"outgoing", "incoming"}]
          /\ mcall[i].state \in McallStates \ {"none", "ENDING"}
      BY DEF Alive, ModemCalls, ModemOK, McallStates
    <3>. QED  BY <3>1 DEF Line
  <2>. QED  BY <2>1 DEF Lines, Alive, ModemCalls
<1>2. PICK i \in Alive : TRUE
  OBVIOUS
<1>3. i \in DOMAIN Lines /\ i > 0 /\ 0 \in 0 .. MaxCallIdx
  BY <1>1, CallIdxAssumption DEF CallIdx
<1>. DEFINE all == Lines
            e == [res |-> "CLCC", idx |-> 0, lines |-> all]
<1>4. [Event("CLCC", 0) EXCEPT !.lines = Lines] = e
  BY DEF Event
<1>5. all \in UNION {[listed -> Line] : listed \in SUBSET CallIdx}
  BY <1>1
<1>6. i \in DOMAIN all
  BY <1>3
<1>. HIDE DEF all
<1>7. e \in Results
  BY <1>3, <1>5, <1>6 DEF Results
<1>. QED  BY <1>4, <1>7

LEMMA ModemStep ==
    ASSUME NEW fresh, ModemOK, RestOK, Good(fresh, pvt), ModemNext
    PROVE  ModemOK' /\ RestOK' /\ Good(fresh, pvt')
<1>1. ModemOK /\ RestOK /\ Good(fresh, pvt) /\ mcall \in Mcalls /\ mdial \in BOOLEAN
  BY DEF ModemOK, Mcalls
<1>2. /\ <<OK>> \in Seq(Results) /\ <<ERROR>> \in Seq(Results) /\ <<>> \in Seq(Results)
      /\ \A i \in CallIdx : /\ <<Event("CONN", i), OK>> \in Seq(Results)
                            /\ <<OK, Event("CONN", i)>> \in Seq(Results)
                            /\ <<Event("CONN", i)>> \in Seq(Results)
                            /\ <<Event("CEND", i)>> \in Seq(Results)
                            /\ <<Event("ORIG", i)>> \in Seq(Results)
      /\ <<Event("RING", 0)>> \in Seq(Results) /\ <<Event("CCWA", 0)>> \in Seq(Results)
  BY EventType
<1>3. \A s \in {"ENDING", "DIALING", "ALERTING", "ACTIVE", "ONHOLD", "INCOMING", "WAITING"} :
         s \in McallStates
  BY DEF McallStates, call_state_t
<1>4. \A states : ModemCalls(states) \subseteq CallIdx
  BY DEF ModemCalls
<1>5. NoCall \in [state : McallStates, dir : {"outgoing", "incoming"}]
  BY DEF NoCall, McallStates
<1>6. ASSUME NEW results \in Seq(Results), Says(results), UNCHANGED modem
      PROVE  ModemOK' /\ RestOK' /\ Good(fresh, pvt')
  BY <1>1, <1>6, SaysOK DEF modem
<1>7. ASSUME ModemRefuses \/ ModemSetsSomething
      PROVE  ModemOK' /\ RestOK' /\ Good(fresh, pvt')
  BY <1>2, <1>6, <1>7 DEF ModemRefuses, ModemSetsSomething
<1>8. ASSUME ModemDials
      PROVE  ModemOK' /\ RestOK' /\ Good(fresh, pvt')
  <2>1. PICK results \in Seq(Results) : Says(results)
    BY <1>2, <1>8 DEF ModemDials
  <2>2. mcall' \in Mcalls /\ mdial' \in BOOLEAN
    BY <1>1, <1>8 DEF ModemDials, CanDial
  <2>. QED  BY <1>1, <2>1, <2>2, SaysOK
<1>9. ASSUME ModemAccepts
      PROVE  ModemOK' /\ RestOK' /\ Good(fresh, pvt')
  <2>1. mdial' \in BOOLEAN
    BY <1>1, <1>9 DEF ModemAccepts
  <2>2. CASE Says(<<ERROR>>) /\ UNCHANGED mcall
    BY <1>1, <1>2, <2>1, <2>2, SaysOK
  <2>3. ASSUME NEW i \in ModemCalls({"INCOMING"}), mcall' = With(i, "ACTIVE"),
               Says(<<Event("CONN", i), OK>>) \/ Says(<<OK, Event("CONN", i)>>)
        PROVE  ModemOK' /\ RestOK' /\ Good(fresh, pvt')
    <3>1. i \in CallIdx
      BY <1>4
    <3>2. mcall' \in Mcalls
      BY <1>1, <1>3, <2>3, <3>1, WithType DEF With
    <3>. QED  BY <1>1, <1>2, <2>1, <2>3, <3>1, <3>2, SaysOK
  <2>. QED  BY <1>9, <2>2, <2>3 DEF ModemAccepts
<1>10. ASSUME ModemHangsUp
       PROVE  ModemOK' /\ RestOK' /\ Good(fresh, pvt')
  <2>. DEFINE S == {"DIALING", "ALERTING", "ACTIVE", "INCOMING"}
              becomes == [s \in S |-> "ENDING"]
  <2>1. becomes \in [S -> McallStates]
    BY <1>3
  <2>2. mcall' = Moved(becomes) /\ Says(<<OK>>) /\ mdial' = FALSE
    BY <1>10 DEF ModemHangsUp
  <2>. HIDE DEF S, becomes
  <2>3. mcall' \in Mcalls
    BY <1>1, <2>1, <2>2, MovedType
  <2>. QED  BY <1>1, <1>2, <2>2, <2>3, SaysOK
<1>11. ASSUME ModemTakesUp
       PROVE  ModemOK' /\ RestOK' /\ Good(fresh, pvt')
  <2>. DEFINE S == {"ACTIVE"}
              becomes == [s \in S |-> "ONHOLD"]
              m == Moved(becomes)
  <2>1. becomes \in [S -> McallStates]
    BY <1>3
  <2>2. mdial' \in BOOLEAN
    BY <1>1, <1>11 DEF ModemTakesUp
  <2>3. \/ Says(<<ERROR>>) /\ UNCHANGED mcall
        \/ \E i \in CommandIdx \intersect ModemCalls({"WAITING", "ONHOLD"}) :
              /\ mcall' = [m EXCEPT ![i].state = "ACTIVE"]
              /\ \/ Says(<<OK>>)
                 \/ Says(<<Event("CONN", i), OK>>) \/ Says(<<OK, Event("CONN", i)>>)
    BY <1>11 DEF ModemTakesUp
  <2>. HIDE DEF S, becomes
  <2>4. m \in Mcalls
    BY <1>1, <2>1, MovedType
  <2>. HIDE DEF m
  <2>5. CASE Says(<<ERROR>>) /\ UNCHANGED mcall
    BY <1>1, <1>2, <2>2, <2>5, SaysOK
  <2>6. ASSUME NEW i \in CommandIdx \intersect ModemCalls({"WAITING", "ONHOLD"}),
               mcall' = [m EXCEPT ![i].state = "ACTIVE"],
               \/ Says(<<OK>>)
               \/ Says(<<Event("CONN", i), OK>>) \/ Says(<<OK, Event("CONN", i)>>)
        PROVE  ModemOK' /\ RestOK' /\ Good(fresh, pvt')
    <3>1. i \in CallIdx
      BY <1>4
    <3>2. mcall' \in Mcalls
      BY <1>3, <2>4, <2>6, <3>1, WithType
    <3>. QED  BY <1>1, <1>2, <2>2, <2>6, <3>1, <3>2, SaysOK
  <2>. QED  BY <2>3, <2>5, <2>6
<1>12. ASSUME ModemSwaps
       PROVE  ModemOK' /\ RestOK' /\ Good(fresh, pvt')
  <2>. DEFINE S == {"ACTIVE", "ONHOLD"}
              becomes == [s \in S |-> IF s = "ACTIVE" THEN "ONHOLD" ELSE "ACTIVE"]
  <2>1. becomes \in [S -> McallStates]
    BY <1>3
  <2>2. /\ mcall' = Moved(becomes) /\ mdial' = mdial
        /\ Says(<<OK>>) \/ Says(<<ERROR>>)
    BY <1>12 DEF ModemSwaps
  <2>. HIDE DEF S, becomes
  <2>3. mcall' \in Mcalls
    BY <1>1, <2>1, <2>2, MovedType
  <2>. QED  BY <1>1, <1>2, <2>2, <2>3, SaysOK
<1>13. ASSUME ModemJoins
       PROVE  ModemOK' /\ RestOK' /\ Good(fresh, pvt')
  <2>. DEFINE S == {"ONHOLD"}
              becomes == [s \in S |-> "ACTIVE"]
  <2>1. becomes \in [S -> McallStates]
    BY <1>3
  <2>2. mcall' = Moved(becomes) /\ mdial' = mdial /\ Says(<<OK>>)
    BY <1>13 DEF ModemJoins
  <2>. HIDE DEF S, becomes
  <2>3. mcall' \in Mcalls
    BY <1>1, <2>1, <2>2, MovedType
  <2>. QED  BY <1>1, <1>2, <2>2, <2>3, SaysOK
<1>14. ASSUME ModemLists
       PROVE  ModemOK' /\ RestOK' /\ Good(fresh, pvt')
  <2>1. CASE Alive = {}
    BY <1>2, <1>6, <1>14, <2>1 DEF ModemLists
  <2>2. CASE Alive # {}
    <3>. DEFINE e == [Event("CLCC", 0) EXCEPT !.lines = Lines]
    <3>1. e \in Results /\ OK \in Results
      BY <1>1, <2>2, ListType, EventType
    <3>2. Says(<<e, OK>>) /\ UNCHANGED modem
      BY <1>14, <2>2 DEF ModemLists
    <3>. HIDE DEF e
    <3>3. <<e, OK>> \in Seq(Results)
      BY <3>1
    <3>. QED  BY <1>6, <3>2, <3>3
  <2>. QED  BY <2>1, <2>2
<1>15. ASSUME ModemResets
       PROVE  ModemOK' /\ RestOK' /\ Good(fresh, pvt')
  BY <1>1, <1>2, <1>5, <1>15 DEF ModemResets, ModemOK, RestOK, threads
<1>16. ASSUME CallBegins
       PROVE  ModemOK' /\ RestOK' /\ Good(fresh, pvt')
  <2>1. NewIdx \in CallIdx
    BY <1>16, NewIdxType DEF CallBegins
  <2>2. mcall' \in Mcalls
    BY <1>1, <1>3, <1>16 DEF CallBegins, Mcalls
  <2>. QED  BY <1>1, <1>2, <1>16, <2>1, <2>2, SaysOK DEF CallBegins
<1>17. ASSUME RemoteCalls
       PROVE  ModemOK' /\ RestOK' /\ Good(fresh, pvt')
  <2>1. mcall' \in Mcalls
    BY <1>1, <1>3, <1>17 DEF RemoteCalls, Mcalls
  <2>2. Says(<<Event("RING", 0)>>) \/ Says(<<Event("CCWA", 0)>>)
    BY <1>17 DEF RemoteCalls
  <2>. QED  BY <1>1, <1>2, <1>17, <2>1, <2>2, SaysOK DEF RemoteCalls
<1>18. ASSUME NEW i \in CallIdx,
              \/ RemoteRings(i) \/ RemoteAnswers(i) \/ RemoteCallsOn(i)
              \/ CallEnds(i) \/ ModemTellsEnd(i)
       PROVE  ModemOK' /\ RestOK' /\ Good(fresh, pvt')
  <2>1. mdial' \in BOOLEAN
    BY <1>1, <1>18 DEF RemoteRings, RemoteAnswers, RemoteCallsOn, CallEnds, ModemTellsEnd
  <2>2. mcall' \in Mcalls
    <3>1. \A s \in McallStates : With(i, s) \in Mcalls
      BY <1>1, WithType DEF With
    <3>2. [mcall EXCEPT ![i] = NoCall] \in Mcalls
      BY <1>1, <1>5 DEF Mcalls
    <3>. QED  BY <1>3, <1>18, <3>1, <3>2
              DEF RemoteRings, RemoteAnswers, RemoteCallsOn, CallEnds, ModemTellsEnd
  <2>3. PICK results \in Seq(Results) : Says(results)
    BY <1>2, <1>18 DEF RemoteRings, RemoteAnswers, RemoteCallsOn, CallEnds, ModemTellsEnd
  <2>. QED  BY <1>1, <2>1, <2>2, <2>3, SaysOK
<1>. QED  BY <1>7, <1>8, <1>9, <1>10, <1>11, <1>12, <1>13, <1>14, <1>15, <1>16, <1>17, <1>18
          DEF ModemNext

-----------------------------------------------------------------------------
(* The theorems                                                            *)

\* The invariant the other theorems are read off: whatever the threads, the
\* monitor and the modem do next, the calls are as the operations rely on.
THEOREM CallsKept == Spec => []IInv
<1>1. IInv /\ [Next]_vars => IInv'
  <2>. SUFFICES ASSUME IInv, [Next]_vars PROVE ModemOK' /\ RestOK' /\ Good(CpvtId, pvt')
    BY IInvFromParts
  <2>1. ModemOK /\ RestOK /\ Good(CpvtId, pvt)
    BY IInvParts
  <2>2. CASE UNCHANGED vars
    BY <2>1, <2>2 DEF vars, threads, modem, ModemOK, RestOK
  <2>3. CASE ThreadNext
    BY ONLY <2>1, <2>3, ThreadStep
  <2>4. CASE MonitorNext
    BY ONLY <2>1, <2>4, MonitorStep
  <2>5. CASE ModemNext
    BY ONLY <2>1, <2>5, ModemStep
  <2>. QED  BY <2>2, <2>3, <2>4, <2>5 DEF Next
<1>. QED  BY <1>1, InitOK, PTL DEF Spec

\* Types of the calls, of the results and of the modem.
THEOREM CallsTyped == Spec => []TypeOK
<1>1. IInv => TypeOK
  BY DEF IInv
<1>. QED  BY <1>1, CallsKept, PTL

\* The counts of calls agree with the contexts in use, whatever changes their
\* state and releases them, a disconnect included.
THEOREM CountsAlwaysExact == Spec => []CountsExact
<1>1. IInv => CountsExact
  BY DEF IInv, Good, CallsOK, CountsExact
<1>. QED  BY <1>1, CallsKept, PTL

\* No command in the queue and no note of the call dialed last outlives the
\* context it points to.
THEOREM PointersAlwaysLive == Spec => []PointersLive
<1>1. IInv => PointersLive
  <2>. SUFFICES ASSUME CallsOK(pvt) PROVE PointersLive
    BY DEF IInv, Good
  <2>1. \A k \in DOMAIN pvt.at_queue : pvt.at_queue[k] \in TasksFor(pvt.chans)
    BY DEF CallsOK
  <2>2. \A k \in DOMAIN pvt.at_queue : pvt.at_queue[k].cpvt \in pvt.chans \union {sys_chan}
    BY <2>1 DEF TasksFor
  <2>. QED  BY <2>2 DEF CallsOK, PointersLive
<1>. QED  BY <1>1, CallsKept, PTL

\* On a device with an audio tty the mixer has the stream of each activated
\* call once and no other, and one call at most owns the tty.
THEOREM StreamsAlwaysExact ==
    ASSUME HasAudio
    PROVE  Spec => []StreamsExact
<1>1. IInv => StreamsExact
  <2>. SUFFICES ASSUME CallsOK(pvt), StreamsOK(pvt) PROVE StreamsExact
    BY DEF IInv, Good
  <2>1. pvt.chans \subseteq CpvtId
    BY QueueType
  <2>2. \A c \in CpvtId : pvt.streams[c] = IF c \in pvt.chans /\ pvt.cpvt[c].activated
                                           THEN 1 ELSE 0
    BY DEF StreamsOK
  <2>. DEFINE M == {c \in pvt.chans : pvt.cpvt[c].master}
  <2>3. Cardinality(M) <= 1
    <3>1. CASE M = {}
      BY <3>1, FS_EmptySet
    <3>2. CASE M # {}
      <4>1. PICK c \in M : TRUE
        BY <3>2
      <4>2. M = {c}
        BY <2>1, <4>1 DEF StreamsOK
      <4>3. Cardinality({c}) = 1
        BY FS_Singleton
      <4>. HIDE DEF M
      <4>. QED  BY <4>2, <4>3
    <3>. QED  BY <3>1, <3>2
  <2>. QED  BY <2>2, <2>3 DEF StreamsExact
<1>. QED  BY <1>1, CallsKept, PTL

-----------------------------------------------------------------------------
(* One call is set up at a time                                            *)

\* The calls that have not begun.
Fresh == InState(pvt, "INIT")

LEMMA GoodFresh ==
    ASSUME IInv, NEW S, Fresh \subseteq S
    PROVE  ModemOK /\ RestOK /\ Good(S, pvt)
BY IInvParts DEF Good, Fresh

\* A request for a channel begins one call at most.
LEMMA RequestBegins ==
    ASSUME IInv, Fresh = {}, NEW d \in Dialer, channel_request(d)
    PROVE  \A b, c \in Fresh' : b = c
<1>1. RestOK /\ pvt.chans \subseteq CpvtId
  BY IInvParts, QueueType DEF Good
<1>2. CASE UNCHANGED pvt
  BY <1>2 DEF Fresh
<1>3. ASSUME NEW c \in CpvtId \ pvt.chans,
             pvt' = cpvt_alloc(pvt, c, NewCpvt(number[d], "outgoing", "INIT", request[d]))
      PROVE  Fresh' \subseteq {c}
  <2>. DEFINE new == NewCpvt(number[d], "outgoing", "INIT", request[d])
  <2>1. "INIT" \in call_state_t /\ request[d] \in Opts /\ number[d] \in 0 .. MaxCallIdx
    BY <1>1 DEF call_state_t, channel_request, RestOK
  <2>2. Good({c}, pvt)
    BY GoodFresh
  <2>3. new \in Cpvts /\ ~new.activated /\ ~new.master
    BY <2>1, NewCpvtTyped
  <2>. HIDE DEF new
  <2>4. Good({c}, cpvt_alloc(pvt, c, new))
    BY <2>2, <2>3, AllocGood
  <2>5. Good({c}, pvt')
    BY <1>3, <2>4 DEF new
  <2>. QED  BY <2>5 DEF Good, Fresh
<1>. QED  BY <1>2, <1>3 DEF channel_request

\* Nothing else does.
LEMMA NoOtherBegins ==
    ASSUME IInv, Next, ~ \E d \in Dialer : channel_request(d)
    PROVE  Fresh' \subseteq Fresh
<1>1. PICK S : S = Fresh
  OBVIOUS
<1>2. ModemOK /\ RestOK /\ Good(S, pvt)
  BY <1>1, GoodFresh
<1>. SUFFICES Good(S, pvt')
  BY <1>1 DEF Good, Fresh
<1>3. CASE ThreadNext
  BY ONLY <1>2, <1>3, ThreadStep, ~ \E d \in Dialer : channel_request(d)
<1>4. CASE MonitorNext
  BY ONLY <1>2, <1>4, MonitorStep
<1>5. CASE ModemNext
  BY ONLY <1>2, <1>5, ModemStep
<1>. QED  BY <1>3, <1>4, <1>5 DEF Next

\* The device's mark is taken off by those that have put it there, or when no
\* thread has selected it.
LEMMA MarkKept ==
    ASSUME "query" \notin Faults, Next, SelectedIsThere, SelectedIsThere',
           ~ \E d \in Dialer : \/ channel_request(d)
                               \/ \E opts \in DialOpts : SelectDevice(d, opts)
    PROVE  /\ UNCHANGED request
           /\ selectbusy' = selectbusy \/ \A d \in Dialer : request[d] = NoRequest
<1>1. CASE ThreadNext
  BY <1>1 DEF ThreadNext, NumberRead, channel_call, channel_answer, channel_func_write,
              channel_hangup, channel_hangup_enters, FindDeviceExt, OtherJob, threads
<1>2. CASE MonitorNext
  <2>1. CASE DisconnectEnds
    BY <2>1 DEF DisconnectEnds, SelectedIsThere
  <2>2. CASE Reconnect
    BY <2>2 DEF Reconnect, SelectedIsThere
  <2>. QED  BY <1>2, <2>1, <2>2
            DEF MonitorNext, at_response_ok, at_response_error, at_response_orig,
                at_response_cend, at_response_conn, at_response_ring, at_response_ccwa,
                at_response_clcc, Handled, MonitorCleanup, DisconnectReleases, threads
<1>3. CASE ModemNext
  BY <1>3 DEF ModemNext, ModemRefuses, ModemSetsSomething, ModemDials, ModemAccepts,
              ModemHangsUp, ModemTakesUp, ModemSwaps, ModemJoins, ModemLists, ModemResets,
              CallBegins, RemoteCalls, RemoteRings, RemoteAnswers, RemoteCallsOn, CallEnds,
              ModemTellsEnd, Says, threads
<1>. QED  BY <1>1, <1>2, <1>3 DEF Next

LEMMA OneSetUpStep ==
    ASSUME "query" \notin Faults, IInv, OneSetUp, SelectedIsThere, SelectedIsThere', [Next]_vars
    PROVE  OneSetUp'
<1>1. Fresh \subseteq CpvtId /\ RestOK
  BY IInvParts, QueueType DEF Good, Fresh, InState
<1>2. /\ \A d \in Dialer : request[d] # NoRequest => selectbusy /\ Fresh = {}
      /\ \A d, e \in Dialer : request[d] # NoRequest /\ request[e] # NoRequest => d = e
      /\ \A b, c \in Fresh : b = c
  BY DEF OneSetUp, Fresh
<1>. SUFFICES
      /\ \A d \in Dialer : request'[d] # NoRequest => selectbusy' /\ Fresh' = {}
      /\ \A d, e \in Dialer : request'[d] # NoRequest /\ request'[e] # NoRequest => d = e
      /\ \A b, c \in Fresh' : b = c
  BY DEF OneSetUp, Fresh
<1>3. CASE UNCHANGED vars
  BY <1>2, <1>3 DEF vars, threads, Fresh
<1>4. ASSUME NEW d \in Dialer, NEW opts \in DialOpts, SelectDevice(d, opts)
      PROVE  /\ \A e \in Dialer : request'[e] # NoRequest => e = d
             /\ selectbusy' /\ Fresh' = {}
  <2>1. Fresh \subseteq {NoCpvt}
    BY <1>4 DEF SelectDevice, is_dial_possible2, Fresh
  <2>2. Fresh' = {}
    BY <1>1, <1>4, <2>1, NoCpvtAssumption DEF SelectDevice, Fresh
  <2>3. request' = [request EXCEPT ![d] = opts] /\ ~selectbusy /\ selectbusy'
    BY <1>4 DEF SelectDevice
  <2>. QED  BY <1>1, <1>2, <2>2, <2>3 DEF RestOK
<1>5. ASSUME NEW d \in Dialer, channel_request(d)
      PROVE  /\ \A e \in Dialer : request'[e] = NoRequest
             /\ \A b, c \in Fresh' : b = c
  <2>1. request' = [request EXCEPT ![d] = NoRequest] /\ request[d] # NoRequest
    BY <1>5 DEF channel_request
  <2>2. Fresh = {}
    BY <1>2, <2>1
  <2>3. \A b, c \in Fresh' : b = c
    BY ONLY IInv, <1>5, <2>2, RequestBegins
  <2>. QED  BY <1>1, <1>2, <2>1, <2>3 DEF RestOK
<1>6. CASE /\ Next
           /\ ~ \E d \in Dialer : \/ channel_request(d)
                                  \/ \E opts \in DialOpts : SelectDevice(d, opts)
  <2>1. Fresh' \subseteq Fresh
    BY <1>6, NoOtherBegins
  <2>2. /\ UNCHANGED request
        /\ selectbusy' = selectbusy \/ \A d \in Dialer : request[d] = NoRequest
    BY <1>6, MarkKept
  <2>. QED  BY <1>2, <2>1, <2>2
<1>7. CASE \E d \in Dialer, opts \in DialOpts : SelectDevice(d, opts)
  BY <1>4, <1>7
<1>8. CASE \E d \in Dialer : channel_request(d)
  BY <1>5, <1>8
<1>. QED  BY <1>3, <1>6, <1>7, <1>8

LEMMA OneSetUpAtATime == OneSetUp => OneDialAtATime
<1>. SUFFICES ASSUME OneSetUp PROVE Cardinality(Fresh) <= 1
  BY DEF OneDialAtATime, Fresh
<1>1. CASE Fresh = {}
  BY <1>1, FS_EmptySet
<1>2. CASE Fresh # {}
  <2>1. PICK c \in Fresh : TRUE
    BY <1>2
  <2>2. Fresh = {c}
    BY <2>1 DEF OneSetUp, Fresh
  <2>. QED  BY <2>2, FS_Singleton
<1>. QED  BY <1>1, <1>2

LEMMA OneSetUpAlways ==
    ASSUME "query" \notin Faults
    PROVE  Spec /\ []SelectedIsThere => []OneSetUp
<1>1. Init => OneSetUp
  <2>. SUFFICES ASSUME Init PROVE OneSetUp
    OBVIOUS
  <2>1. pvt.chans = {} /\ request = [d \in Dialer |-> NoRequest]
    BY DEF Init, NoCalls
  <2>. QED  BY <2>1 DEF OneSetUp, InState
<1>2. IInv /\ OneSetUp /\ SelectedIsThere /\ SelectedIsThere' /\ [Next]_vars => OneSetUp'
  BY OneSetUpStep
<1>. QED  BY <1>1, <1>2, CallsKept, PTL DEF Spec

\* Only one call of a device is being set up, whichever threads select it,
\* lose their calls or hang up: as long as nobody takes the mark of a selection
\* off for a query and no thread has the device selected while it is gone.
THEOREM OneDialAlways ==
    ASSUME "query" \notin Faults
    PROVE  Spec /\ []SelectedIsThere => []OneDialAtATime
BY OneSetUpAlways, OneSetUpAtATime, PTL
=============================================================================
