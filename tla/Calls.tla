------------------------------- MODULE Calls -------------------------------
(***************************************************************************)
(* The voice calls of one device: the channel callbacks Asterisk's threads *)
(* make (channel.c), the monitor thread that turns the modem's results     *)
(* into changes of the call contexts (at_response.c), the loss of the      *)
(* device (disconnect_dongle), and the modem with the network behind it.   *)
(*                                                                         *)
(* AtQueue shows that the modem works on one command at a time, the        *)
(* written head of the queue, and that its final result is credited to it; *)
(* so there is no line here: the modem answers the head command.  What it  *)
(* says is read in the order it said it (events).  A handler and the       *)
(* at_queue_run after it are one step, +CLCC one step for each line.       *)
(***************************************************************************)
EXTENDS CallOps

CONSTANTS
    Dialer,     \* threads that place calls
    DialOpts,   \* the options they ask for
    Clir,       \* whether they ask for a presentation of the number
    Group295,   \* CONF_SHARED(pvt, group) = 295: calls are hung up when answered
    MaxEvents,  \* bound: results of the modem that were not read yet
    Features,   \* what else goes on: "incoming", "waiting" calls, "ping", "unhold"
    Faults      \* what may go wrong: "write", "memory", "disconnect", the modem
                \* may "refuse" any command, not say that a call ended ("silent");
                \* somebody may "query" the device during a selection, a thread be
                \* "preempted" in channel_hangup

ASSUME DialOptsAssumption  == DialOpts \subseteq Opts
ASSUME ClirAssumption      == Clir \subseteq BOOLEAN
ASSUME Group295Assumption  == Group295 \in BOOLEAN
ASSUME MaxEventsAssumption == MaxEvents \in Nat

NoRequest == "no request"
ASSUME NoRequestAssumption == NoRequest \notin Opts

NoNumber == -1

VARIABLES
    pvt,         \* the device's calls and queue, see CallOps
    selectbusy,  \* pvt->selectbusy: somebody has selected the device
    request,     \* the options of the call each dialer has selected it for
    number,      \* the number each dialer has read for that call
    hanging,     \* contexts a preempted channel_hangup is about to lock
    conn,        \* "up", "lost" (being disconnected) or "off"
    events,      \* results of the modem not read yet
    mcall,       \* the modem's calls, by call index; ENDING: its ^CEND is due
    mdial        \* the modem took an ATD and has not given its call an index

threads == <<selectbusy, request, number, hanging>>
modem   == <<mcall, mdial>>
vars    == <<pvt, threads, conn, events, modem>>

\* A result; idx is the index of its call.  Of +CLCC lines is what it says of
\* each call, by index, and idx the call whose line was handled last.
Event(res, idx) == [res |-> res, idx |-> idx, lines |-> <<>>]
OK     == Event("OK", 0)
ERROR  == Event("ERROR", 0)

NoCall == [state |-> "none", dir |-> "outgoing"]

Init ==
    /\ pvt = NoCalls
    /\ selectbusy = FALSE
    /\ request = [d \in Dialer |-> NoRequest]
    /\ number = [d \in Dialer |-> NoNumber]
    /\ hanging = {}
    /\ conn = "up"
    /\ events = <<>>
    /\ mcall = [i \in CallIdx |-> NoCall]
    /\ mdial = FALSE

\* Whether write() to the tty succeeds.
WriteOutcomes ==
    CASE conn = "off"  -> {FALSE}
      [] conn = "lost" -> BOOLEAN
      [] conn = "up"   -> IF "write" \in Faults THEN BOOLEAN ELSE {TRUE}

-----------------------------------------------------------------------------
(* Asterisk's threads                                                      *)

\* The device is selected for a call: can_dial with the lock held, which is
\* given back at once.
SelectDevice(d, opts) ==
    /\ conn # "off"
    /\ ~selectbusy
    /\ request[d] = NoRequest
    /\ is_dial_possible2(pvt, opts, NoCpvt)
    /\ selectbusy' = TRUE
    /\ request' = [request EXCEPT ![d] = opts]
    /\ UNCHANGED <<pvt, number, hanging, conn, events, modem>>

\* What follows in channel_request is done without the lock.  First the number is
\* read that the call shall have until the modem gives it one ...
NumberRead(d) ==
    /\ request[d] # NoRequest
    /\ number[d] = NoNumber
    /\ number' = [number EXCEPT ![d] = pvt_get_pseudo_call_idx(pvt)]
    /\ UNCHANGED <<pvt, selectbusy, request, hanging, conn, events, modem>>

\* ... then new_channel makes a context of that number, and its channel.  That
\* cpvt_alloc links and counts the context without the lock, and that the channel
\* and selectbusy come a moment later, is left out.
channel_request(d) ==
    /\ request[d] # NoRequest /\ number[d] # NoNumber
    /\ \/ \E c \in CpvtId \ pvt.chans :
             pvt' = cpvt_alloc(pvt, c, NewCpvt(number[d], "outgoing", "INIT", request[d]))
       \/ /\ "memory" \in Faults \/ CpvtId \subseteq pvt.chans
          /\ UNCHANGED pvt
    /\ selectbusy' = FALSE
    /\ request' = [request EXCEPT ![d] = NoRequest]
    /\ number' = [number EXCEPT ![d] = NoNumber]
    /\ UNCHANGED <<hanging, conn, events, modem>>

\* find_device_ext marks the device busy whoever has it, and those that use it
\* (a CLI or manager command, channel_devicestate) take the mark off.
FindDeviceExt ==
    /\ "query" \in Faults
    /\ selectbusy
    /\ selectbusy' = FALSE
    /\ UNCHANGED <<pvt, request, number, hanging, conn, events, modem>>

HasChannel(c) == c \in pvt.chans /\ pvt.cpvt[c].channel

\* at_enque_dial: the call needs a hangup from now on.
Dialed(p, c, clir, ok) ==
    LET job == at_enque_dial(p.chan_count["ACTIVE"] > 0 /\ p.cpvt[c].opts # "none", clir)
    IN  IF InsertFails(p, c, job, ok) THEN Insert(p, c, job, ok)
        ELSE NeedHangup(Insert(p, c, job, ok), c, TRUE)

\* What else ready4voice_call looks at may keep a thread from ever doing this.
channel_call(c) ==
    /\ HasChannel(c)
    /\ pvt.cpvt[c].dir = "outgoing" /\ ~pvt.cpvt[c].called
    /\ conn # "off"
    /\ ~selectbusy
    /\ is_dial_possible2(pvt, pvt.cpvt[c].opts, c)
    /\ \E clir \in Clir, ok \in WriteOutcomes :
          pvt' = Dialed([pvt EXCEPT !.cpvt[c].called = TRUE], c, clir, ok)
    /\ UNCHANGED <<threads, conn, events, modem>>

\* Asterisk is done with the channel; the context stays until ^CEND.
HungUp(p, c, ok) ==
    LET told == IF ~p.cpvt[c].need_hangup THEN p
                ELSE IF InsertFails(Undialed(p, c), c, at_enque_hangup, ok)
                THEN HangupQueued(p, c, ok)
                ELSE NeedHangup(HangupQueued(p, c, ok), c, FALSE)
    IN  [disactivate_call(told, c) EXCEPT !.cpvt[c].channel = FALSE]

channel_hangup(c) ==
    /\ HasChannel(c)
    /\ \E ok \in WriteOutcomes : pvt' = HungUp(pvt, c, ok)
    /\ hanging' = hanging \ {c}
    /\ UNCHANGED <<selectbusy, request, number, conn, events, modem>>

\* channel_hangup reads the channel's context before it takes the lock.
channel_hangup_enters(c) ==
    /\ "preempted" \in Faults
    /\ HasChannel(c)
    /\ hanging' = hanging \union {c}
    /\ UNCHANGED <<pvt, selectbusy, request, number, conn, events, modem>>

channel_answer(c) ==
    /\ HasChannel(c)
    /\ pvt.cpvt[c].dir = "incoming" /\ ~pvt.cpvt[c].called
    /\ pvt.cpvt[c].state \in {"INCOMING", "WAITING"}
    /\ \E ok \in WriteOutcomes :
          pvt' = Insert([pvt EXCEPT !.cpvt[c].called = TRUE], c,
                        at_enque_answer(pvt.cpvt[c].state), ok)
    /\ UNCHANGED <<threads, conn, events, modem>>

\* CHANNEL(callstate)=active
channel_func_write(c) ==
    /\ "unhold" \in Features
    /\ HasChannel(c)
    /\ pvt.cpvt[c].state = "ONHOLD"
    /\ HasMemory(pvt)
    /\ \E ok \in WriteOutcomes : pvt' = Insert(pvt, c, at_enque_activate, ok)
    /\ UNCHANGED <<threads, conn, events, modem>>

\* The monitor's at_enque_ping, or any other command that is about no call.
OtherJob ==
    /\ "ping" \in Features
    /\ conn = "up" /\ QueueEmpty(pvt)
    /\ \E ok \in WriteOutcomes : pvt' = Insert(pvt, sys_chan, at_enque_ping, ok)
    /\ UNCHANGED <<threads, conn, events, modem>>

-----------------------------------------------------------------------------
(* The monitor thread                                                      *)

Reads(res) == conn = "up" /\ events # <<>> /\ Head(events).res = res

\* The handler left the device as p, and failed if fatal; at_queue_run follows
\* one that did not.  What was not read when the connection is lost is dropped.
Handled(p, ok, fatal) ==
    LET lost == fatal \/ RunFails(p, ok)
    IN  /\ pvt' = IF fatal THEN p ELSE at_queue_run(p, ok)
        /\ conn' = IF lost THEN "lost" ELSE "up"
        /\ events' = IF lost THEN <<>> ELSE Tail(events)
        /\ UNCHANGED <<threads, modem>>

\* Mutant: the OK of an ATD takes the mark of its call back, as that of an
\* AT+CHUP does.
Acknowledged_unmarked(p, c) ==
    CASE at_queue_head_cmd(p).cmd = "D" ->
           NeedHangup([p EXCEPT !.dialing = TRUE,
                                !.last_dialed = IF c = sys_chan THEN @ ELSE c], c, FALSE)
      [] at_queue_head_cmd(p).cmd \in {"A", "CHLD_2x"} -> NeedHangup(p, c, TRUE)
      [] at_queue_head_cmd(p).cmd = "CHUP" -> NeedHangup(p, c, FALSE)
      [] OTHER -> p

\* What at_response_ok does for the head command, queued for c.
Acknowledged(p, c) ==
    CASE at_queue_head_cmd(p).cmd = "D" ->
           NeedHangup([p EXCEPT !.dialing = TRUE,
                                !.last_dialed = IF c = sys_chan THEN @ ELSE c], c, TRUE)
      [] at_queue_head_cmd(p).cmd \in {"A", "CHLD_2x"} -> NeedHangup(p, c, TRUE)
      [] at_queue_head_cmd(p).cmd = "CHUP" -> NeedHangup(p, c, FALSE)
      [] OTHER -> p

at_response_ok ==
    /\ Reads("OK")
    /\ \E ok \in WriteOutcomes :
          Handled(IF QueueEmpty(pvt) THEN pvt
                  ELSE at_queue_remove_cmd(Acknowledged(pvt, at_queue_head_task(pvt).cpvt), "OK"),
                  ok, FALSE)

\* A failed ATD, or a failed AT+CHLD=2 before it, makes the driver reset the
\* modem.
DialFailed(p) ==
    LET c == at_queue_head_task(p).cpvt
    IN  \/ at_queue_head_cmd(p).cmd = "D"
        \/ /\ at_queue_head_cmd(p).cmd = "CHLD_2" /\ c # sys_chan
           /\ p.cpvt[c].called /\ p.cpvt[c].opts # "none" /\ p.cpvt[c].state = "INIT"

at_response_error ==
    /\ Reads("ERROR")
    /\ \E ok \in WriteOutcomes :
          IF QueueEmpty(pvt) THEN Handled(pvt, ok, FALSE)
          ELSE LET p == IF DialFailed(pvt)
                        THEN Insert(pvt, at_queue_head_task(pvt).cpvt, at_enque_cmd_proc, ok)
                        ELSE pvt
               IN  Handled(at_queue_remove_cmd(p, "ERROR"), ok,
                           at_queue_head_cmd(pvt).cmd \in CriticalCmds)

\* ^ORIG: the call dialed last has a number.
Originated(p, idx, ok) ==
    LET q == [p EXCEPT !.last_dialed = NoCpvt]
        c == p.last_dialed
    IN  IF c = NoCpvt THEN q
        ELSE request_clcc(change_channel_state([q EXCEPT !.cpvt[c].idx = idx], c, "DIALING"), ok)

at_response_orig ==
    /\ Reads("ORIG")
    /\ \E ok \in WriteOutcomes : Handled(Originated(pvt, Head(events).idx, ok), ok, FALSE)

\* Mutant: a context with a channel is left to channel_hangup.
Ended_without_channel(p, c, ok) ==
    LET q == request_clcc(p, ok)
    IN  IF c = NoCpvt \/ (c # NoCpvt /\ p.cpvt[c].channel) THEN q
        ELSE change_channel_state(NeedHangup(q, c, FALSE), c, "RELEASED")

\* ^CEND: the call is over.
Ended(p, c, ok) ==
    LET q == request_clcc(p, ok)
    IN  IF c = NoCpvt THEN q
        ELSE change_channel_state(NeedHangup(q, c, FALSE), c, "RELEASED")

at_response_cend ==
    /\ Reads("CEND")
    /\ \E ok \in WriteOutcomes, c \in pvt_find_cpvt(pvt, Head(events).idx) :
          Handled(Ended(pvt, c, ok), ok, FALSE)

\* ^CONN: the call is answered.
Connected(p, c, ok) ==
    LET q == [p EXCEPT !.ring = FALSE, !.dialing = FALSE, !.cwaiting = FALSE]
        a == change_channel_state(q, c, "ACTIVE")
    IN  IF c = NoCpvt THEN HangupQueued(q, sys_chan, ok)
        ELSE IF Group295 /\ a.cpvt[c].dir = "outgoing" THEN HangupQueued(a, c, ok)
        ELSE IF a.cpvt[c].called /\ a.cpvt[c].opts = "conference"
        THEN Insert(request_clcc(a, ok), c, at_enque_conference, ok)
        ELSE request_clcc(a, ok)

at_response_conn ==
    /\ Reads("CONN")
    /\ \E ok \in WriteOutcomes, c \in pvt_find_cpvt(pvt, Head(events).idx) :
          Handled(Connected(pvt, c, ok), ok, FALSE)

at_response_ring ==
    /\ Reads("RING")
    /\ \E ok \in WriteOutcomes :
          Handled(request_clcc([pvt EXCEPT !.ring = TRUE, !.dialing = FALSE,
                                           !.cwaiting = FALSE], ok), ok, FALSE)

at_response_ccwa ==
    /\ Reads("CCWA")
    /\ \E ok \in WriteOutcomes :
          Handled(request_clcc([pvt EXCEPT !.cwaiting = TRUE], ok), ok, FALSE)

\* The flags of the device after a call in state s was listed.
FlagsListed(p, s) ==
    IF s \in {"WAITING", "INCOMING", "DIALING", "ALERTING"}
    THEN [p EXCEPT !.cwaiting = (s = "WAITING"),
                   !.ring = (s = "INCOMING"),
                   !.dialing = (s \in {"DIALING", "ALERTING"})]
    ELSE p

\* Mutant: the incoming call is not marked for a hangup.
StartPbx_unmarked(p, l, ok) ==
    {cpvt_alloc(p, c, NewCpvt(l.idx, "incoming", l.state, "none")) : c \in CpvtId \ p.chans}
    \union (IF "memory" \in Faults \/ CpvtId \subseteq p.chans
            THEN {HangupQueued(p, sys_chan, ok)} ELSE {})
    \union (IF "memory" \in Faults THEN {p} ELSE {})

\* start_pbx: an incoming call gets a context and a channel.  There may be no
\* memory for them (the call is hung up then), no pbx to be started, or the
\* device may be about to be restarted (the call is left alone then).
StartPbx(p, l, ok) ==
    {cpvt_alloc(p, c, [NewCpvt(l.idx, "incoming", l.state, "none")
                         EXCEPT !.need_hangup = TRUE]) : c \in CpvtId \ p.chans}
    \union (IF "memory" \in Faults \/ CpvtId \subseteq p.chans
            THEN {HangupQueued(p, sys_chan, ok)} ELSE {})
    \union (IF "memory" \in Faults THEN {p} ELSE {})

\* Mutant: a call that comes in is not searched for.
Listed_anew(p, l, ok) ==
    IF l.dir = "incoming" /\ l.state \in {"INCOMING", "WAITING"}
    THEN StartPbx(p, l, ok)
    ELSE {IF p.cpvt[c].dir = l.dir THEN change_channel_state(p, c, l.state) ELSE p :
             c \in WithIdx(p, l.idx)}
         \union IF WithIdx(p, l.idx) = {} THEN {p} ELSE {}

\* What becomes of the calls by one line of +CLCC.
Listed(p, l, ok) ==
    IF WithIdx(p, l.idx) # {}
    THEN {IF p.cpvt[c].dir = l.dir THEN change_channel_state(p, c, l.state) ELSE p :
             c \in WithIdx(p, l.idx)}
    ELSE IF l.dir = "incoming" /\ l.state \in {"INCOMING", "WAITING"}
    THEN StartPbx(p, l, ok)
    ELSE {p}

\* The lines come in the order of their indices.  Contexts that are not listed
\* stay: the loop over the lines returns from the function.
at_response_clcc ==
    /\ Reads("CLCC")
    /\ LET rest == {i \in DOMAIN Head(events).lines : i > Head(events).idx}
           n    == CHOOSE i \in rest : \A j \in rest : i <= j
           line == Head(events).lines[n]
       IN  \E ok \in WriteOutcomes : \E q \in Listed(pvt, line, ok) :
              LET p == FlagsListed(q, line.state)
              IN  IF rest = {n} THEN Handled(p, ok, FALSE)
                  ELSE /\ pvt' = p
                       /\ events' = [events EXCEPT ![1].idx = n]
                       /\ UNCHANGED <<threads, conn, modem>>

-----------------------------------------------------------------------------
(* Losing the device, and finding it again                                 *)

\* A timeout, a tty that is gone, a request to stop.
MonitorCleanup ==
    /\ "disconnect" \in Faults
    /\ conn = "up"
    /\ conn' = "lost"
    /\ events' = <<>>
    /\ UNCHANGED <<pvt, threads, modem>>

\* disconnect_dongle releases the contexts one after the other.
DisconnectReleases(c) ==
    /\ conn = "lost"
    /\ c \in pvt.chans
    /\ pvt' = change_channel_state(NeedHangup(pvt, c, FALSE), c, "RELEASED")
    /\ UNCHANGED <<threads, conn, events, modem>>

\* The rest of disconnect_dongle.
DisconnectEnds ==
    /\ conn = "lost"
    /\ pvt.chans = {}
    /\ conn' = "off"
    /\ pvt' = [at_queue_flush(pvt) EXCEPT !.last_dialed = NoCpvt, !.dialing = FALSE,
                                          !.ring = FALSE, !.cwaiting = FALSE]
    /\ selectbusy' = FALSE
    /\ UNCHANGED <<request, number, hanging, events, modem>>

\* The device is found and initialised.  The modem may have calls of before;
\* what it said of them is not read.
Reconnect ==
    /\ conn = "off"
    /\ conn' = "up"
    /\ selectbusy' = FALSE
    /\ mdial' = FALSE
    /\ \E kept \in SUBSET {i \in CallIdx : mcall[i].state # "ENDING"} :
          mcall' = [i \in CallIdx |-> IF i \in kept THEN mcall[i] ELSE NoCall]
    /\ UNCHANGED <<pvt, request, number, hanging, events>>

-----------------------------------------------------------------------------
(* The modem and the network                                               *)

ModemCalls(states) == {i \in CallIdx : mcall[i].state \in states}
Alive  == ModemCalls({"DIALING", "ALERTING", "ACTIVE", "ONHOLD", "INCOMING", "WAITING"})
FreeIdx == ModemCalls({"none"})
NewIdx == CHOOSE i \in FreeIdx : \A j \in FreeIdx : i <= j

\* The call states after every call in a state s got the state becomes[s].
Moved(becomes) ==
    [i \in CallIdx |-> IF mcall[i].state \in DOMAIN becomes
                       THEN [mcall[i] EXCEPT !.state = becomes[@]] ELSE mcall[i]]
With(i, state) == [mcall EXCEPT ![i].state = state]

Says(results) ==
    /\ Len(events) + Len(results) <= MaxEvents
    /\ events' = events \o results
    /\ UNCHANGED <<pvt, threads, conn>>

\* The head command is written and not answered.
Working(cmds) ==
    /\ conn = "up"
    /\ HeadWritten(pvt)
    /\ at_queue_head_cmd(pvt).cmd \in cmds
    /\ \A k \in DOMAIN events : events[k].res \notin {"OK", "ERROR"}

ModemRefuses ==
    /\ Working(at_cmd_t)
    /\ "refuse" \in Faults
    /\ Says(<<ERROR>>)
    /\ UNCHANGED modem

ModemSetsSomething ==
    /\ Working({"AT", "CLIR", "DDSETEX"})
    /\ Says(<<OK>>)
    /\ UNCHANGED modem

\* ATD is taken unless the modem has an incoming call or one that begins.
CanDial == /\ ~mdial /\ FreeIdx # {}
           /\ ModemCalls({"DIALING", "ALERTING", "INCOMING", "WAITING"}) = {}

ModemDials ==
    /\ Working({"D"})
    /\ Says(<<IF CanDial THEN OK ELSE ERROR>>)
    /\ mdial' = (mdial \/ CanDial)
    /\ UNCHANGED mcall

\* ATA: the answer may be told before the OK.
ModemAccepts ==
    /\ Working({"A"})
    /\ \/ /\ ModemCalls({"INCOMING"}) = {}
          /\ Says(<<ERROR>>)
          /\ UNCHANGED mcall
       \/ \E i \in ModemCalls({"INCOMING"}) :
             /\ mcall' = With(i, "ACTIVE")
             /\ Says(<<Event("CONN", i), OK>>) \/ Says(<<OK, Event("CONN", i)>>)
    /\ UNCHANGED mdial

\* AT+CHUP ends what is not held or waiting; a call without index just goes.
ModemHangsUp ==
    /\ Working({"CHUP"})
    /\ Says(<<OK>>)
    /\ mcall' = Moved([s \in {"DIALING", "ALERTING", "ACTIVE", "INCOMING"} |-> "ENDING"])
    /\ mdial' = FALSE

\* AT+CHLD=2x takes call x up, the active ones are held.  x is the index the
\* context of the command had, any one if the context is gone.
CommandIdx ==
    LET c == at_queue_head_task(pvt).cpvt
    IN  IF c = sys_chan THEN CallIdx ELSE {pvt.cpvt[c].idx} \intersect CallIdx

ModemTakesUp ==
    /\ Working({"CHLD_2x"})
    /\ \/ \E i \in CommandIdx \intersect ModemCalls({"WAITING", "ONHOLD"}) :
             /\ mcall' = [Moved([s \in {"ACTIVE"} |-> "ONHOLD"]) EXCEPT ![i].state = "ACTIVE"]
             /\ IF mcall[i].state = "ONHOLD" THEN Says(<<OK>>)
                ELSE Says(<<Event("CONN", i), OK>>) \/ Says(<<OK, Event("CONN", i)>>)
       \/ /\ CommandIdx \intersect ModemCalls({"WAITING", "ONHOLD"}) = {}
          /\ Says(<<ERROR>>)
          /\ UNCHANGED mcall
    /\ UNCHANGED mdial

\* AT+CHLD=2: active and held calls change places; AT+CHLD=3 joins them.
ModemSwaps ==
    /\ Working({"CHLD_2"})
    /\ Says(<<IF ModemCalls({"ACTIVE", "ONHOLD"}) = {} THEN ERROR ELSE OK>>)
    /\ mcall' = Moved([s \in {"ACTIVE", "ONHOLD"} |->
                         IF s = "ACTIVE" THEN "ONHOLD" ELSE "ACTIVE"])
    /\ UNCHANGED mdial

ModemJoins ==
    /\ Working({"CHLD_3"})
    /\ Says(<<OK>>)
    /\ mcall' = Moved([s \in {"ONHOLD"} |-> "ACTIVE"])
    /\ UNCHANGED mdial

\* AT+CLCC: one line for each call.
Lines == [i \in Alive |-> [idx |-> i, state |-> mcall[i].state, dir |-> mcall[i].dir]]

ModemLists ==
    /\ Working({"CLCC"})
    /\ IF Alive = {} THEN Says(<<OK>>)
       ELSE Says(<<[Event("CLCC", 0) EXCEPT !.lines = Lines], OK>>)
    /\ UNCHANGED modem

\* AT+CFUN=1,1: the modem resets, its calls and its tty are gone.
ModemResets ==
    /\ Working({"USER"})
    /\ mcall' = [i \in CallIdx |-> NoCall]
    /\ mdial' = FALSE
    /\ conn' = "lost"
    /\ events' = <<>>
    /\ UNCHANGED <<pvt, threads>>

\* The call of the last ATD gets its index.
CallBegins ==
    /\ conn = "up" /\ mdial /\ FreeIdx # {}
    /\ mcall' = [mcall EXCEPT ![NewIdx] = [state |-> "DIALING", dir |-> "outgoing"]]
    /\ mdial' = FALSE
    /\ Says(<<Event("ORIG", NewIdx)>>)

RemoteRings(i) ==
    /\ conn = "up"
    /\ mcall[i].state = "DIALING"
    /\ mcall' = With(i, "ALERTING")
    /\ Says(<<>>)
    /\ UNCHANGED mdial

RemoteAnswers(i) ==
    /\ conn = "up"
    /\ mcall[i].state \in {"DIALING", "ALERTING"}
    /\ mcall' = With(i, "ACTIVE")
    /\ Says(<<Event("CONN", i)>>)
    /\ UNCHANGED mdial

RemoteCalls ==
    /\ "incoming" \in Features
    /\ conn = "up" /\ FreeIdx # {} /\ ~mdial
    /\ ModemCalls({"DIALING", "ALERTING", "INCOMING", "WAITING"}) = {}
    /\ Alive # {} => "waiting" \in Features
    /\ mcall' = [mcall EXCEPT ![NewIdx] =
                   [state |-> IF Alive = {} THEN "INCOMING" ELSE "WAITING", dir |-> "incoming"]]
    /\ Says(<<Event(IF Alive = {} THEN "RING" ELSE "CCWA", 0)>>)
    /\ UNCHANGED mdial

\* A call goes on ringing; one that waited rings when the others are over.
RemoteCallsOn(i) ==
    /\ conn = "up"
    /\ Alive = {i} /\ mcall[i].state \in {"INCOMING", "WAITING"}
    /\ Event("RING", 0) \notin {events[k] : k \in DOMAIN events}
    /\ mcall' = With(i, "INCOMING")
    /\ Says(<<Event("RING", 0)>>)
    /\ UNCHANGED mdial

\* A call is over, for whatever reason, and later the modem says so.
CallEnds(i) ==
    /\ conn = "up"
    /\ i \in Alive
    /\ mcall' = With(i, "ENDING")
    /\ Says(<<>>)
    /\ UNCHANGED mdial

ModemTellsEnd(i) ==
    /\ conn = "up"
    /\ mcall[i].state = "ENDING"
    /\ mcall' = [mcall EXCEPT ![i] = NoCall]
    /\ \/ Says(<<Event("CEND", i)>>)
       \/ "silent" \in Faults /\ Says(<<>>)
    /\ UNCHANGED mdial

-----------------------------------------------------------------------------
ThreadNext ==
    \/ \E d \in Dialer : \/ NumberRead(d) \/ channel_request(d)
                         \/ \E opts \in DialOpts : SelectDevice(d, opts)
    \/ \E c \in CpvtId : \/ channel_call(c) \/ channel_answer(c) \/ channel_func_write(c)
                         \/ channel_hangup(c) \/ channel_hangup_enters(c)
    \/ FindDeviceExt \/ OtherJob

MonitorNext ==
    \/ at_response_ok \/ at_response_error \/ at_response_orig \/ at_response_cend
    \/ at_response_conn \/ at_response_ring \/ at_response_ccwa \/ at_response_clcc
    \/ MonitorCleanup \/ DisconnectEnds \/ Reconnect
    \/ \E c \in CpvtId : DisconnectReleases(c)

ModemNext ==
    \/ ModemRefuses \/ ModemSetsSomething \/ ModemDials \/ ModemAccepts \/ ModemHangsUp
    \/ ModemTakesUp \/ ModemSwaps \/ ModemJoins \/ ModemLists \/ ModemResets
    \/ CallBegins \/ RemoteCalls
    \/ \E i \in CallIdx : \/ RemoteRings(i) \/ RemoteAnswers(i) \/ RemoteCallsOn(i)
                          \/ CallEnds(i) \/ ModemTellsEnd(i)

Next == ThreadNext \/ MonitorNext \/ ModemNext

Spec == Init /\ [][Next]_vars

-----------------------------------------------------------------------------
(* Properties                                                              *)

McallStates == {"none", "ENDING"} \union (call_state_t \ {"RELEASED", "INIT"})

\* What the modem may say.  A result of a call names it; of +CLCC at least one
\* line is left.
Line == [idx : CallIdx, state : McallStates \ {"none", "ENDING"}, dir : {"outgoing", "incoming"}]
Results ==
    {r \in [res : {"OK", "ERROR", "ORIG", "CEND", "CONN", "RING", "CCWA", "CLCC"},
            idx : 0 .. MaxCallIdx,
            lines : UNION {[listed -> Line] : listed \in SUBSET CallIdx}] :
       /\ r.res \in {"ORIG", "CEND", "CONN"} => r.idx \in CallIdx
       /\ r.res = "CLCC" => \E i \in DOMAIN r.lines : i > r.idx}

\* Types of the calls, of the results and of the modem.
TypeOK ==
    /\ pvt \in Pvts
    /\ events \in Seq(Results)
    /\ selectbusy \in BOOLEAN
    /\ request \in [Dialer -> Opts \union {NoRequest}]
    /\ number \in [Dialer -> 0 .. MaxCallIdx \union {NoNumber}]
    /\ hanging \subseteq CpvtId
    /\ conn \in {"up", "lost", "off"}
    /\ mcall \in [CallIdx -> [state : McallStates, dir : {"outgoing", "incoming"}]]
    /\ mdial \in BOOLEAN

\* chan_dongle.h: chansno is the "number of channels in channels list",
\* chan_count the "number of channels number group by state": they agree with
\* the contexts through every change of state, release and disconnect, so that
\* the first and the last call are told.
CountsExact ==
    /\ pvt.chansno = Cardinality(pvt.chans)
    /\ \A s \in call_state_t : pvt.chan_count[s] = Cardinality(InState(pvt, s))

\* No pointer to a context outlives it: neither a command's nor that of the
\* call dialed last, whatever order hangup, ^CEND, answers and disconnect
\* come in.
PointersLive ==
    /\ pvt.last_dialed \in pvt.chans \union {NoCpvt}
    /\ \A k \in DOMAIN pvt.at_queue : pvt.at_queue[k].cpvt \in pvt.chans \union {sys_chan}

\* A search for a call index has at most one answer.  Not so when a call comes in
\* between NumberRead and channel_request, see SharedAcrossDirections.
CallIdxUnique ==
    \A c, d \in pvt.chans : pvt.cpvt[c].idx = pvt.cpvt[d].idx => c = d

\* Of two calls that share a number one was placed and one came in: the search of
\* at_response_clcc, which compares the direction too, takes no call for another of
\* its kind.
SharedAcrossDirections ==
    \A c, d \in pvt.chans :
       pvt.cpvt[c].idx = pvt.cpvt[d].idx /\ pvt.cpvt[c].dir = pvt.cpvt[d].dir => c = d

\* The mixer has exactly the streams of the activated calls, once each, and at
\* most one call owns the audio tty.
StreamsExact ==
    /\ \A c \in CpvtId :
          pvt.streams[c] = IF c \in pvt.chans /\ pvt.cpvt[c].activated THEN 1 ELSE 0
    /\ Cardinality({c \in pvt.chans : pvt.cpvt[c].master}) <= 1

\* The context stands for a call the modem has, or whose ^CEND is on its way.
Backed(c) ==
    LET i == pvt.cpvt[c].idx
    IN  \/ i \in CallIdx /\ mcall[i].state # "none" /\ mcall[i].dir = pvt.cpvt[c].dir
        \/ Event("CEND", i) \in {events[k] : k \in DOMAIN events}

\* While the device is up a context that was given an index by the modem
\* stands for a call: there are no zombies unless the modem keeps an end to
\* itself.
NoZombies ==
    conn = "up" => \A c \in pvt.chans : pvt.cpvt[c].state # "INIT" => Backed(c)

\* The call of a channel will be hung up with the channel.
HangupWillEndCall ==
    conn = "up" => \A c \in pvt.chans :
       /\ pvt.cpvt[c].channel
       /\ pvt.cpvt[c].idx \in Alive
       /\ pvt.cpvt[c].state # "INIT"
       => pvt.cpvt[c].need_hangup

\* Only one call is being set up.
OneDialAtATime == Cardinality(InState(pvt, "INIT")) <= 1

\* An outgoing call that rings or is connected was dialed: what is said of
\* another call of the modem is not taken for it.
OnlyDialedConnect ==
    \A c \in pvt.chans :
       pvt.cpvt[c].dir = "outgoing" /\ pvt.cpvt[c].state # "INIT" => pvt.cpvt[c].called

\* Nothing is to be said, written or dialed.
Quiet == conn = "up" /\ events = <<>> /\ QueueEmpty(pvt) /\ ~mdial

\* at_command.c:887 marks a call for a hangup early "because ATD may be still
\* in queue while local hangup called": when all is quiet, each call the modem
\* dialed has a channel that can end it.
NoOrphanCalls ==
    Quiet => \A i \in Alive : mcall[i].dir = "outgoing" =>
                \E c \in WithIdx(pvt, i) : pvt.cpvt[c].channel

\* A selection is alone and keeps the device from being selected again until its
\* context is made, and a context that is not dialed yet is alone: what keeps
\* OneDialAtATime, as long as the device does not go while it is selected.
OneSetUp ==
    /\ \A d \in Dialer : request[d] # NoRequest => selectbusy /\ InState(pvt, "INIT") = {}
    /\ \A d, e \in Dialer : request[d] # NoRequest /\ request[e] # NoRequest => d = e
    /\ \A b, c \in InState(pvt, "INIT") : b = c

\* No thread has selected a device that is gone.
SelectedIsThere == conn = "off" => \A d \in Dialer : request[d] = NoRequest

-----------------------------------------------------------------------------
(* Liveness: the monitor handles what it reads, the modem answers, gives    *)
(* the calls it dials an index and tells their end.                        *)

MonitorReads ==
    \/ at_response_ok \/ at_response_error \/ at_response_orig \/ at_response_cend
    \/ at_response_conn \/ at_response_ring \/ at_response_ccwa \/ at_response_clcc

ModemAnswers ==
    \/ ModemRefuses \/ ModemSetsSomething \/ ModemDials \/ ModemAccepts \/ ModemHangsUp
    \/ ModemTakesUp \/ ModemSwaps \/ ModemJoins \/ ModemLists \/ ModemResets

Fairness ==
    /\ WF_vars(MonitorReads)
    /\ SF_vars(ModemAnswers)
    /\ SF_vars(CallBegins)
    /\ \A i \in CallIdx : SF_vars(ModemTellsEnd(i))

FairSpec == Spec /\ Fairness

\* The context of a call that is over goes, whether its channel is gone or not,
\* and with it what would keep the device from dialing.
EndedCallsReleased ==
    \A c \in CpvtId :
       (/\ c \in pvt.chans /\ pvt.cpvt[c].state # "INIT"
        /\ pvt.cpvt[c].idx \in CallIdx /\ mcall[pvt.cpvt[c].idx].state = "ENDING")
       ~> c \notin pvt.chans
=============================================================================
