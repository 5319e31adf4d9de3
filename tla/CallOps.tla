------------------------------ MODULE CallOps ------------------------------
(***************************************************************************)
(* The operations of cpvt.c, channel.c and chan_dongle.c on the calls of   *)
(* one device, as functions of the part of struct pvt they touch.  p is a  *)
(* record with the fields of AtQueueOps and                                *)
(*                                                                         *)
(*   cpvt         what is at each address a call context may live at       *)
(*   chans        the addresses of the contexts in use (pvt->chans)        *)
(*   chansno      PVT_STATE(pvt, chansno)                                  *)
(*   chan_count   PVT_STATE(pvt, chan_count), by state                     *)
(*   last_dialed  pvt->last_dialed_cpvt                                    *)
(*   dialing, ring, cwaiting                                               *)
(*   streams      how often the stream of each context hangs in the mixer  *)
(*                (a_write_mixb.streams)                                   *)
(*                                                                         *)
(* The order of pvt->chans is left out: it is told apart only by a search  *)
(* for a call_idx two contexts have (see CallIdxUnique in Calls).          *)
(***************************************************************************)
EXTENDS AtCommands, AtQueueOps

CONSTANTS
    CpvtId,      \* addresses the heap may give to a call context
    TaskId,      \* addresses it may give to a task: when all are in use,
                 \* ast_malloc fails
    sys_chan,    \* pvt->sys_chan, the context of commands of no call
    MaxCallIdx,  \* MAX_CALL_IDX
    HasAudio     \* pvt->audio_fd >= 0: the device has an audio tty

call_state_t == {"ACTIVE", "ONHOLD", "DIALING", "ALERTING", "INCOMING", "WAITING",
                 "RELEASED", "INIT"}

CallIdx == 1 .. MaxCallIdx

\* How a call was asked for: the options of the dial string.
Opts == {"none", "holdother", "conference"}

ASSUME CpvtIdAssumption   == IsFiniteSet(CpvtId)
ASSUME TaskIdAssumption   == TaskId \subseteq Nat
ASSUME SysChanAssumption  == sys_chan \notin CpvtId
ASSUME CallIdxAssumption  == MaxCallIdx \in Nat \ {0}
ASSUME HasAudioAssumption == HasAudio \in BOOLEAN

\* A NULL pointer to a call context.
NoCpvt == "NULL"
ASSUME NoCpvtAssumption == NoCpvt \notin CpvtId

\* A context: device call ID, direction, state, whether a channel is linked to
\* it (channel), the dial string's options, whether the dialplan has called
\* or answered that channel, and the flags NEED_HANGUP, ACTIVATED, MASTER.
NewCpvt(idx, dir, state, opts) ==
    [idx |-> idx, dir |-> dir, state |-> state, channel |-> TRUE, opts |-> opts,
     called |-> FALSE, need_hangup |-> FALSE, activated |-> FALSE, master |-> FALSE]

FreeCpvt == [NewCpvt(0, "outgoing", "RELEASED", "none") EXCEPT !.channel = FALSE]

\* A device without calls.
NoCalls ==
    [at_queue |-> <<>>, at_tasks |-> 0, at_cmds |-> 0,
     cpvt |-> [c \in CpvtId |-> FreeCpvt], chans |-> {}, chansno |-> 0,
     chan_count |-> [s \in call_state_t |-> 0], last_dialed |-> NoCpvt,
     dialing |-> FALSE, ring |-> FALSE, cwaiting |-> FALSE,
     streams |-> [c \in CpvtId |-> 0]]

\* Their types.
Commands == [cmd : at_cmd_t, res : {"OK"}, ign : BOOLEAN, length : {0, 1}]
Tasks == [id : TaskId, cpvt : CpvtId \union {sys_chan}, cindex : Nat, cmds : Seq(Commands)]
Cpvts == [idx : 0 .. MaxCallIdx, dir : {"outgoing", "incoming"}, state : call_state_t,
          channel : BOOLEAN, opts : Opts, called : BOOLEAN, need_hangup : BOOLEAN,
          activated : BOOLEAN, master : BOOLEAN]
Pvts  == [at_queue : Seq(Tasks), at_tasks : Int, at_cmds : Int,
          cpvt : [CpvtId -> Cpvts], chans : SUBSET CpvtId, chansno : Int,
          chan_count : [call_state_t -> Int], last_dialed : CpvtId \union {NoCpvt},
          dialing : BOOLEAN, ring : BOOLEAN, cwaiting : BOOLEAN,
          streams : [CpvtId -> Int]]

InState(p, s) == {c \in p.chans : p.cpvt[c].state = s}

-----------------------------------------------------------------------------
(* Queueing commands for a call                                            *)

FreeTaskIds(p) == TaskId \ {p.at_queue[i].id : i \in DOMAIN p.at_queue}
HasMemory(p) == FreeTaskIds(p) # {}
NextTaskId(p) == CHOOSE i \in FreeTaskIds(p) : \A j \in FreeTaskIds(p) : i <= j

Added(p, c, job) == at_queue_add(p, NewTask(NextTaskId(p), c, job), job.athead)

\* at_queue_insert and at_queue_insert_const; ok says whether a write to the
\* tty succeeds.
Insert(p, c, job, ok) ==
    IF HasMemory(p) THEN at_queue_run(Added(p, c, job), ok) ELSE p

InsertFails(p, c, job, ok) == ~HasMemory(p) \/ RunFails(Added(p, c, job), ok)

request_clcc(p, ok) == Insert(p, sys_chan, at_enque_clcc, ok)

\* at_enque_hangup on a call that was not begun: its ^ORIG is not waited for.
Undialed(p, c) ==
    IF c # sys_chan /\ p.cpvt[c].state = "INIT" THEN [p EXCEPT !.last_dialed = NoCpvt] ELSE p

HangupQueued(p, c, ok) == Insert(Undialed(p, c), c, at_enque_hangup, ok)

NeedHangup(p, c, need) ==
    IF c = sys_chan THEN p ELSE [p EXCEPT !.cpvt[c].need_hangup = need]

-----------------------------------------------------------------------------
(* cpvt.c                                                                  *)

\* The first context sets up the mixer anew (pvt_on_create_1st_channel).
cpvt_alloc(p, c, new) ==
    [p EXCEPT !.cpvt[c] = new,
              !.chans = @ \union {c},
              !.chansno = @ + 1,
              !.chan_count[new.state] = @ + 1,
              !.streams = IF p.chansno = 0 THEN [d \in CpvtId |-> 0] ELSE @]

\* Mutant: the commands of the context keep their pointer to it.
Unlinked_not(q, c) == q

\* The commands queued for a context that is freed go on as sys_chan's.
Unlinked(q, c) ==
    [i \in DOMAIN q |-> IF q[i].cpvt = c THEN [q[i] EXCEPT !.cpvt = sys_chan] ELSE q[i]]

\* Mutant: the call dialed last is remembered when it is gone.
cpvt_free_remembered(p, c) ==
    [p EXCEPT !.cpvt[c] = FreeCpvt,
              !.chans = @ \ {c},
              !.chansno = @ - 1,
              !.chan_count[p.cpvt[c].state] = @ - 1,
              !.at_queue = Unlinked(@, c)]

cpvt_free(p, c) ==
    [p EXCEPT !.cpvt[c] = FreeCpvt,
              !.chans = @ \ {c},
              !.chansno = @ - 1,
              !.chan_count[p.cpvt[c].state] = @ - 1,
              !.at_queue = Unlinked(@, c),
              !.last_dialed = IF @ = c THEN NoCpvt ELSE @]

WithIdx(p, idx) == {c \in p.chans : p.cpvt[c].idx = idx}

\* The contexts a search for a call_idx may find.
pvt_find_cpvt(p, idx) == IF WithIdx(p, idx) = {} THEN {NoCpvt} ELSE WithIdx(p, idx)

\* Mutant: every call that was not begun gets the same number.
pvt_get_pseudo_call_idx_always_1(p) == 1

\* The number of a call the modem has not numbered yet: the lowest one no
\* context has, or 0.
pvt_get_pseudo_call_idx(p) ==
    LET unused == {i \in CallIdx : WithIdx(p, i) = {}}
    IN  IF unused = {} THEN 0 ELSE CHOOSE i \in unused : \A j \in unused : i <= j

-----------------------------------------------------------------------------
(* Whether a call may be made                                              *)

\* Mutant: a call that is not dialed yet keeps no other from the device.
is_dial_possible2_undialed(p, opts, ignore) ==
    /\ ~p.ring /\ ~p.cwaiting /\ ~p.dialing
    /\ \A s \in {"DIALING", "ALERTING", "INCOMING", "WAITING"} : InState(p, s) = {}
    /\ InState(p, "ACTIVE") \union InState(p, "ONHOLD") # {} => opts # "none"
    /\ InState(p, "ACTIVE") = {} \/ InState(p, "ONHOLD") = {}

\* ignore is the context the call is for, if there is one yet.
is_dial_possible2(p, opts, ignore) ==
    /\ ~p.ring /\ ~p.cwaiting /\ ~p.dialing
    /\ InState(p, "INIT") \subseteq {ignore}
    /\ \A s \in {"DIALING", "ALERTING", "INCOMING", "WAITING"} : InState(p, s) = {}
    /\ InState(p, "ACTIVE") \union InState(p, "ONHOLD") # {} => opts # "none"
    /\ InState(p, "ACTIVE") = {} \/ InState(p, "ONHOLD") = {}

-----------------------------------------------------------------------------
(* Changing the state of a call                                            *)

\* Mutant: the stream of a call that loses the channel stays in the mixer.
disactivate_call_attached(p, c) ==
    [p EXCEPT !.cpvt[c].activated = FALSE, !.cpvt[c].master = FALSE]

disactivate_call(p, c) ==
    IF p.cpvt[c].channel /\ p.cpvt[c].activated
    THEN [p EXCEPT !.streams[c] = @ - 1,
                   !.cpvt[c].activated = FALSE,
                   !.cpvt[c].master = FALSE]
    ELSE p

\* Mutant: a call is attached again by every change of its state.
activate_call_again(p, c) ==
    [p EXCEPT
       !.streams[c] = @ + 1,
       !.cpvt = [d \in CpvtId |->
                   IF d = c
                   THEN [p.cpvt[d] EXCEPT !.activated = p.cpvt[d].activated \/ HasAudio,
                                          !.master = HasAudio]
                   ELSE [p.cpvt[d] EXCEPT !.master = FALSE]]]

\* The call takes the device's audio over from whichever had it.  Left out: the
\* descriptors on which the channels are polled (channel.c, lines 345 to 353, where
\* the flags of cpvt are tested and those of cpvt2 are meant).
activate_call(p, c) ==
    IF p.cpvt[c].master THEN p
    ELSE [p EXCEPT
            !.streams[c] = IF p.cpvt[c].activated THEN @ ELSE @ + 1,
            !.cpvt = [d \in CpvtId |->
                        IF d = c
                        THEN [p.cpvt[d] EXCEPT !.activated = p.cpvt[d].activated \/ HasAudio,
                                               !.master = HasAudio]
                        ELSE [p.cpvt[d] EXCEPT !.master = FALSE]]]

\* A call that becomes active or ends takes the flag of its old state back.
FlagsAfter(p, old) ==
    [p EXCEPT !.dialing  = @ /\ old \notin {"INIT", "DIALING", "ALERTING"},
              !.ring     = @ /\ old # "INCOMING",
              !.cwaiting = @ /\ old # "WAITING"]

\* Mutant: the count of the old state is not taken down.
Restated_counted_twice(p, c, new) ==
    [p EXCEPT !.cpvt[c].state = new, !.chan_count[new] = @ + 1]

\* The context is in state new, and counted there.
Restated(p, c, new) ==
    LET old   == p.cpvt[c].state
        moved == [p EXCEPT !.cpvt[c].state = new,
                           !.chan_count[old] = @ - 1,
                           !.chan_count[new] = @ + 1]
    IN  IF new \in {"ACTIVE", "RELEASED"} THEN FlagsAfter(moved, old) ELSE moved

\* A released context is freed, with its channel (which is told to hang up) or
\* without.
change_channel_state(p, c, new) ==
    LET q == Restated(p, c, new)
    IN  IF new = p.cpvt[c].state THEN p
        ELSE CASE new = "RELEASED" -> cpvt_free(disactivate_call(q, c), c)
               [] new \in {"DIALING", "ALERTING", "ACTIVE"} /\ p.cpvt[c].channel ->
                    activate_call(q, c)
               [] new = "ONHOLD" -> disactivate_call(q, c)
               [] OTHER -> q

-----------------------------------------------------------------------------
(* What the operations rely on and keep: the inductive invariant of Calls  *)
(* is made of it                                                           *)

\* Commands that were queued for a call of these, or for none.
TasksFor(calls) == {task \in Tasks : task.cpvt \in calls \union {sys_chan}}

\* Counts agree with the contexts, and pointers name one that is in use.
CallsOK(p) ==
    /\ p \in Pvts
    /\ p.at_queue \in Seq(TasksFor(p.chans))
    /\ p.last_dialed \in p.chans \union {NoCpvt}
    /\ p.chansno = Cardinality(p.chans)
    /\ \A s \in call_state_t : p.chan_count[s] = Cardinality(InState(p, s))

\* The mixer has the streams of activated calls, which have a channel, and one
\* call at most owns the audio tty.
StreamsOK(p) ==
    /\ \A c \in CpvtId : p.streams[c] = IF p.cpvt[c].activated THEN 1 ELSE 0
    /\ \A c \in CpvtId : p.cpvt[c].activated => c \in p.chans /\ p.cpvt[c].channel
    /\ \A c, d \in CpvtId : p.cpvt[c].master /\ p.cpvt[d].master => c = d
=============================================================================
