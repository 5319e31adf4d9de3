-------------------------- MODULE CallOps_proofs --------------------------
(***************************************************************************)
(* Lemmas about the operations on calls (CallOps) and on the queue they    *)
(* share, for any number of call contexts and tasks: each keeps CallsOK    *)
(* and, on a device with an audio tty, StreamsOK.                          *)
(***************************************************************************)
EXTENDS CallOps, SequenceTheorems, FiniteSetTheorems, WellFoundedInduction, TLAPS

\* q has the calls of p, in the same states and with the same streams; what it
\* has queued is for them.
Keeps(p, q) ==
    /\ q \in Pvts
    /\ q.at_queue \in Seq(TasksFor(p.chans))
    /\ q.last_dialed \in p.chans \union {NoCpvt}
    /\ q.chans = p.chans
    /\ q.chansno = p.chansno
    /\ q.chan_count = p.chan_count
    /\ q.streams = p.streams
    /\ \A c \in CpvtId :
          /\ q.cpvt[c].state = p.cpvt[c].state
          /\ q.cpvt[c].channel = p.cpvt[c].channel
          /\ q.cpvt[c].activated = p.cpvt[c].activated
          /\ q.cpvt[c].master = p.cpvt[c].master

LEMMA KeepsOK ==
    ASSUME NEW p, NEW q, CallsOK(p), Keeps(p, q)
    PROVE  CallsOK(q) /\ (StreamsOK(p) => StreamsOK(q))
<1>1. p.chans \subseteq CpvtId
  BY DEF CallsOK, Pvts
<1>2. \A s : InState(q, s) = InState(p, s)
  BY <1>1 DEF InState, Keeps
<1>3. CallsOK(q)
  BY <1>2 DEF CallsOK, Keeps
<1>4. StreamsOK(p) => StreamsOK(q)
  BY DEF StreamsOK, Keeps
<1>. QED  BY <1>3, <1>4

LEMMA KeepsItself ==
    ASSUME NEW p, CallsOK(p)
    PROVE  Keeps(p, p)
BY DEF CallsOK, Keeps

LEMMA KeepsTransitive ==
    ASSUME NEW p, NEW q, NEW r, Keeps(p, q), Keeps(q, r)
    PROVE  Keeps(p, r)
BY DEF Keeps

-----------------------------------------------------------------------------
(* Queueing                                                                *)

LEMMA TasksForTasks ==
    ASSUME NEW C
    PROVE  /\ TasksFor(C) \subseteq Tasks
           /\ Seq(TasksFor(C)) \subseteq Seq(Tasks)
<1>1. TasksFor(C) \subseteq Tasks
  BY DEF TasksFor
<1>. QED  BY <1>1, SeqMonotonic

\* The record with other tasks and counters.
Requeued(p, tasks, m, n) ==
    [p EXCEPT !.at_queue = tasks, !.at_tasks = m, !.at_cmds = n]

LEMMA RequeuedKeeps ==
    ASSUME NEW p, CallsOK(p), NEW tasks \in Seq(TasksFor(p.chans)), NEW m \in Int, NEW n \in Int
    PROVE  LET q == Requeued(p, tasks, m, n)
           IN  /\ Keeps(p, q)
               /\ q.at_queue = tasks /\ q.at_tasks = m /\ q.at_cmds = n
               /\ q.cpvt = p.cpvt
<1>. DEFINE q == Requeued(p, tasks, m, n)
<1>1. p \in Pvts /\ tasks \in Seq(Tasks)
  BY TasksForTasks DEF CallsOK
<1>2. /\ q \in Pvts /\ q.at_queue = tasks /\ q.last_dialed = p.last_dialed
      /\ q.chans = p.chans /\ q.chansno = p.chansno /\ q.chan_count = p.chan_count
      /\ q.streams = p.streams /\ q.cpvt = p.cpvt
      /\ q.at_tasks = m /\ q.at_cmds = n
  BY <1>1 DEF Pvts, Requeued
<1>. QED  BY <1>2 DEF Keeps, CallsOK

LEMMA QueueType ==
    ASSUME NEW p, CallsOK(p)
    PROVE  /\ p \in Pvts /\ p.at_tasks \in Int /\ p.at_cmds \in Int
           /\ p.at_queue \in Seq(TasksFor(p.chans))
           /\ p.chans \subseteq CpvtId
BY DEF CallsOK, Pvts

\* A job of commands that were not begun, which all wait for OK.
IsJob(job) == job.cmds \in Seq(Commands) /\ job.athead \in BOOLEAN

LEMMA InsertedTyped ==
    ASSUME NEW S, NEW q \in Seq(S), NEW task \in S, NEW athead
    PROVE  Inserted(q, task, athead) \in Seq(S)
<1>1. CASE athead /\ q # <<>>
  <2>1. <<Head(q), task>> \in Seq(S) /\ Tail(q) \in Seq(S)
    BY <1>1
  <2>2. <<Head(q), task>> \o Tail(q) \in Seq(S)
    BY <2>1, ConcatProperties
  <2>. QED  BY <1>1, <2>2 DEF Inserted
<1>2. CASE ~(athead /\ q # <<>>)
  BY <1>2 DEF Inserted
<1>. QED  BY <1>1, <1>2

LEMMA AddKeeps ==
    ASSUME NEW p, CallsOK(p), NEW c \in p.chans \union {sys_chan}, NEW id \in TaskId,
           NEW job, IsJob(job), NEW athead
    PROVE  Keeps(p, at_queue_add(p, NewTask(id, c, job), athead))
<1>. DEFINE task == NewTask(id, c, job)
            tasks == Inserted(p.at_queue, task, athead)
            m == p.at_tasks + 1
            n == p.at_cmds + Len(task.cmds)
<1>1. task \in Tasks /\ task.cpvt = c /\ Len(task.cmds) \in Nat
  <2>1. p.chans \subseteq CpvtId
    BY QueueType
  <2>. QED  BY <2>1 DEF NewTask, Tasks, IsJob
<1>2. task \in TasksFor(p.chans)
  BY <1>1 DEF TasksFor
<1>. HIDE DEF task
<1>3. tasks \in Seq(TasksFor(p.chans)) /\ m \in Int /\ n \in Int
  BY <1>1, <1>2, InsertedTyped, QueueType
<1>4. at_queue_add(p, task, athead) = Requeued(p, tasks, m, n)
  BY DEF at_queue_add, Requeued
<1>. HIDE DEF tasks, m, n
<1>. QED  BY <1>3, <1>4, RequeuedKeeps DEF task

\* The head task of a queue.
LEMMA HeadTask ==
    ASSUME NEW p, CallsOK(p), ~QueueEmpty(p)
    PROVE  /\ at_queue_head_task(p) = p.at_queue[1]
           /\ p.at_queue[1] \in TasksFor(p.chans)
           /\ p.at_queue[1].cindex \in Nat
           /\ p.at_queue[1].cmds \in Seq(Commands)
           /\ p.at_queue[1].cpvt \in p.chans \union {sys_chan}
           /\ 1 \in DOMAIN p.at_queue
<1>1. p.at_queue \in Seq(TasksFor(p.chans)) /\ p.at_queue # <<>>
  BY QueueType DEF QueueEmpty
<1>2. 1 \in DOMAIN p.at_queue /\ p.at_queue[1] \in TasksFor(p.chans)
  BY <1>1
<1>. QED  BY <1>1, <1>2 DEF at_queue_head_task, TasksFor, Tasks

\* Another head task of the same call.
LEMMA HeadReplaced ==
    ASSUME NEW p, CallsOK(p), ~QueueEmpty(p), NEW t \in Tasks, t.cpvt = p.at_queue[1].cpvt
    PROVE  [p.at_queue EXCEPT ![1] = t] \in Seq(TasksFor(p.chans))
<1>1. t \in TasksFor(p.chans)
  BY HeadTask DEF TasksFor
<1>. QED  BY <1>1, QueueType, HeadTask, ExceptSeq

LEMMA RemoveKeeps ==
    ASSUME NEW p, CallsOK(p)
    PROVE  Keeps(p, at_queue_remove(p))
<1>1. CASE QueueEmpty(p)
  BY <1>1, KeepsItself DEF at_queue_remove
<1>2. CASE ~QueueEmpty(p)
  <2>. DEFINE tasks == Tail(p.at_queue)
              m == p.at_tasks - 1
              n == p.at_cmds - (Len(at_queue_head_task(p).cmds) - at_queue_head_task(p).cindex)
  <2>1. tasks \in Seq(TasksFor(p.chans))
    <3>1. p.at_queue \in Seq(TasksFor(p.chans)) /\ p.at_queue # <<>>
      BY <1>2, QueueType DEF QueueEmpty
    <3>. QED  BY ONLY <3>1, HeadTailProperties
  <2>2. m \in Int /\ n \in Int
    <3>. DEFINE t == at_queue_head_task(p)
    <3>1. t = p.at_queue[1]
      BY <1>2, HeadTask
    <3>. HIDE DEF t
    <3>2. Len(t.cmds) \in Nat /\ t.cindex \in Nat
      BY <1>2, <3>1, HeadTask
    <3>3. p.at_tasks \in Int /\ p.at_cmds \in Int
      BY QueueType
    <3>4. p.at_cmds - (Len(t.cmds) - t.cindex) \in Int
      BY <3>2, <3>3
    <3>. QED  BY <3>3, <3>4 DEF t
  <2>3. at_queue_remove(p) = Requeued(p, tasks, m, n)
    BY <1>2 DEF at_queue_remove, Requeued
  <2>. HIDE DEF tasks, m, n
  <2>. QED  BY <2>1, <2>2, <2>3, RequeuedKeeps
<1>. QED  BY <1>1, <1>2

LEMMA RemoveCmdKeeps ==
    ASSUME NEW p, CallsOK(p), NEW res
    PROVE  Keeps(p, at_queue_remove_cmd(p, res))
<1>1. CASE QueueEmpty(p)
  BY <1>1, KeepsItself DEF at_queue_remove_cmd
<1>2. CASE ~QueueEmpty(p)
  <2>. DEFINE k == p.at_queue[1].cindex + 1
              t == [p.at_queue[1] EXCEPT !.cindex = k]
              tasks == [p.at_queue EXCEPT ![1] = t]
              m == p.at_tasks
              n == p.at_cmds - 1
              done == Requeued(p, tasks, m, n)
  <2>1. t \in Tasks /\ t.cpvt = p.at_queue[1].cpvt
    <3>1. p.at_queue[1] \in Tasks /\ k \in Nat
      BY <1>2, HeadTask DEF TasksFor
    <3>. HIDE DEF k
    <3>. QED  BY <3>1 DEF Tasks
  <2>2. done = [p EXCEPT !.at_queue[1].cindex = @ + 1, !.at_cmds = @ - 1]
    BY QueueType DEF Pvts, Requeued
  <2>3. at_queue_remove_cmd(p, res) = IF TaskOver(p, res) THEN at_queue_remove(done) ELSE done
    BY <1>2, <2>2 DEF at_queue_remove_cmd
  <2>. HIDE DEF t
  <2>4. tasks \in Seq(TasksFor(p.chans)) /\ m \in Int /\ n \in Int
    BY <1>2, <2>1, HeadReplaced, QueueType
  <2>. HIDE DEF tasks, m, n
  <2>5. Keeps(p, done)
    BY <2>4, RequeuedKeeps
  <2>. HIDE DEF done
  <2>6. Keeps(p, at_queue_remove(done))
    BY <2>5, KeepsOK, RemoveKeeps, KeepsTransitive
  <2>. QED  BY <2>3, <2>5, <2>6
<1>. QED  BY <1>1, <1>2

LEMMA MarkWrittenKeeps ==
    ASSUME NEW p, CallsOK(p), ~QueueEmpty(p)
    PROVE  Keeps(p, MarkWritten(p))
<1>. DEFINE k == p.at_queue[1].cindex + 1
            cmd == [p.at_queue[1].cmds[k] EXCEPT !.length = 0]
            cmds == [p.at_queue[1].cmds EXCEPT ![k] = cmd]
            t == [p.at_queue[1] EXCEPT !.cmds = cmds]
            tasks == [p.at_queue EXCEPT ![1] = t]
<1>1. p.at_queue[1] \in Tasks /\ p.at_queue[1].cmds \in Seq(Commands)
  BY HeadTask DEF TasksFor
<1>2. cmds \in Seq(Commands)
  <2>1. CASE k \in 1 .. Len(p.at_queue[1].cmds)
    <3>1. p.at_queue[1].cmds[k] \in Commands
      BY <1>1, <2>1
    <3>. HIDE DEF k
    <3>2. cmd \in Commands
      BY <3>1 DEF Commands
    <3>. HIDE DEF cmd
    <3>. QED  BY <1>1, <2>1, <3>2, ExceptSeq
  <2>2. CASE k \notin 1 .. Len(p.at_queue[1].cmds)
    <3>1. k \notin DOMAIN p.at_queue[1].cmds
      BY <1>1, <2>2
    <3>. HIDE DEF k, cmd
    <3>2. cmds = p.at_queue[1].cmds
      BY <1>1, <3>1
    <3>. QED  BY <1>1, <3>2
  <2>. QED  BY <2>1, <2>2
<1>3. MarkWritten(p) = Requeued(p, tasks, p.at_tasks, p.at_cmds)
  BY QueueType DEF MarkWritten, Pvts, Requeued
<1>. HIDE DEF cmds
<1>4. t \in Tasks /\ t.cpvt = p.at_queue[1].cpvt
  BY <1>1, <1>2 DEF Tasks
<1>. HIDE DEF t
<1>5. tasks \in Seq(TasksFor(p.chans)) /\ p.at_tasks \in Int /\ p.at_cmds \in Int
  BY <1>4, HeadReplaced, QueueType
<1>. HIDE DEF tasks
<1>. QED  BY <1>3, <1>5, RequeuedKeeps

LEMMA RunKeeps ==
    ASSUME NEW p, CallsOK(p), NEW ok \in BOOLEAN
    PROVE  Keeps(p, at_queue_run(p, ok))
<1>1. CASE HeadUnwritten(p) /\ ok
  BY <1>1, MarkWrittenKeeps DEF at_queue_run, HeadUnwritten
<1>2. CASE HeadUnwritten(p) /\ ~ok
  BY <1>2, RemoveCmdKeeps DEF at_queue_run
<1>3. CASE ~HeadUnwritten(p)
  BY <1>3, KeepsItself DEF at_queue_run
<1>. QED  BY <1>1, <1>2, <1>3

\* Any set of addresses that is not empty has a lowest one.
LEMMA LeastOfNat ==
    ASSUME NEW S \in SUBSET Nat, S # {}
    PROVE  \E i \in S : \A j \in S : i <= j
<1>1. PICK i \in S : \A j \in S : ~(<<j, i>> \in OpToRel(<, Nat))
  BY NatLessThanWellFounded, WFMin
<1>2. \A j \in S : ~(j < i)
  BY <1>1 DEF OpToRel
<1>. QED  BY <1>2

LEMMA InsertKeeps ==
    ASSUME NEW p, CallsOK(p), NEW c \in p.chans \union {sys_chan}, NEW job, IsJob(job),
           NEW ok \in BOOLEAN
    PROVE  Keeps(p, Insert(p, c, job, ok))
<1>1. CASE ~HasMemory(p)
  BY <1>1, KeepsItself DEF Insert
<1>2. CASE HasMemory(p)
  <2>1. FreeTaskIds(p) \in SUBSET Nat /\ FreeTaskIds(p) # {} /\ FreeTaskIds(p) \subseteq TaskId
    BY <1>2, TaskIdAssumption DEF HasMemory, FreeTaskIds
  <2>2. NextTaskId(p) \in TaskId
    BY <2>1, LeastOfNat DEF NextTaskId
  <2>3. Keeps(p, Added(p, c, job))
    BY <2>2, AddKeeps DEF Added
  <2>4. Keeps(p, at_queue_run(Added(p, c, job), ok))
    BY <2>3, KeepsOK, RunKeeps, KeepsTransitive
  <2>. QED  BY <1>2, <2>4 DEF Insert
<1>. QED  BY <1>1, <1>2

\* The jobs of calls.
LEMMA JobsTyped ==
    /\ \A hold, clir \in BOOLEAN : IsJob(at_enque_dial(hold, clir))
    /\ \A s : IsJob(at_enque_answer(s))
    /\ IsJob(at_enque_hangup) /\ IsJob(at_enque_clcc) /\ IsJob(at_enque_conference)
    /\ IsJob(at_enque_activate) /\ IsJob(at_enque_ping) /\ IsJob(at_enque_cmd_proc)
<1>1. \A s \in {"USER", "AT", "A", "CHUP", "CLIR", "D", "DDSETEX", "CHLD_2x", "CHLD_2",
                "CHLD_3", "CLCC"} : ST(s) \in Commands /\ STI(s) \in Commands
  BY DEF ST, STI, Command, Commands, at_cmd_t
<1>2. ASSUME NEW hold \in BOOLEAN, NEW clir \in BOOLEAN
      PROVE  IsJob(at_enque_dial(hold, clir))
  <2>. DEFINE first  == IF hold THEN <<ST("CHLD_2")>> ELSE <<>>
              second == IF clir THEN <<STI("CLIR")>> ELSE <<>>
              third  == <<STI("D"), ST("CLCC"), ST("DDSETEX")>>
  <2>1. first \in Seq(Commands) /\ second \in Seq(Commands) /\ third \in Seq(Commands)
    BY <1>1
  <2>2. at_enque_dial(hold, clir) = [cmds |-> first \o second \o third, athead |-> TRUE]
    BY DEF at_enque_dial, Job
  <2>. HIDE DEF first, second, third
  <2>3. first \o second \o third \in Seq(Commands)
    BY <2>1, ConcatProperties
  <2>. QED  BY <2>2, <2>3 DEF IsJob
<1>3. ASSUME NEW s PROVE IsJob(at_enque_answer(s))
  BY <1>1 DEF at_enque_answer, Job, IsJob
<1>4. IsJob(at_enque_hangup) /\ IsJob(at_enque_clcc) /\ IsJob(at_enque_conference)
  BY <1>1 DEF at_enque_hangup, at_enque_clcc, at_enque_conference, Job, IsJob
<1>5. IsJob(at_enque_activate) /\ IsJob(at_enque_ping) /\ IsJob(at_enque_cmd_proc)
  BY <1>1 DEF at_enque_activate, at_enque_ping, at_enque_cmd_proc, Job, IsJob
<1>. QED  BY <1>2, <1>3, <1>4, <1>5

LEMMA clccKeeps ==
    ASSUME NEW p, CallsOK(p), NEW ok \in BOOLEAN
    PROVE  Keeps(p, request_clcc(p, ok))
BY InsertKeeps, JobsTyped DEF request_clcc

LEMMA UndialedKeeps ==
    ASSUME NEW p, CallsOK(p), NEW c
    PROVE  Keeps(p, Undialed(p, c))
<1>1. Undialed(p, c) \in {p, [p EXCEPT !.last_dialed = NoCpvt]}
  BY DEF Undialed
<1>2. p \in Pvts
  BY QueueType
<1>3. Keeps(p, [p EXCEPT !.last_dialed = NoCpvt])
  BY <1>2 DEF Keeps, CallsOK, Pvts
<1>. QED  BY <1>1, <1>3, KeepsItself

LEMMA HangupKeeps ==
    ASSUME NEW p, CallsOK(p), NEW c \in p.chans \union {sys_chan}, NEW ok \in BOOLEAN
    PROVE  Keeps(p, HangupQueued(p, c, ok))
<1>. DEFINE q == Undialed(p, c)
<1>1. Keeps(p, q)
  BY UndialedKeeps
<1>. HIDE DEF q
<1>2. CallsOK(q) /\ c \in q.chans \union {sys_chan}
  BY <1>1, KeepsOK DEF Keeps
<1>3. Keeps(q, Insert(q, c, at_enque_hangup, ok))
  BY <1>2, InsertKeeps, JobsTyped
<1>. QED  BY <1>1, <1>3, KeepsTransitive DEF HangupQueued, q

\* A context with another note about it, of those that no count or stream
\* depends on.
LEMMA NotedKeeps ==
    ASSUME NEW p, CallsOK(p), NEW c \in CpvtId, NEW x \in Cpvts,
           x.state = p.cpvt[c].state, x.channel = p.cpvt[c].channel,
           x.activated = p.cpvt[c].activated, x.master = p.cpvt[c].master
    PROVE  Keeps(p, [p EXCEPT !.cpvt[c] = x])
<1>. DEFINE f == [p.cpvt EXCEPT ![c] = x]
            q == [p EXCEPT !.cpvt = f]
<1>1. p \in Pvts /\ p.cpvt \in [CpvtId -> Cpvts]
  BY DEF CallsOK, Pvts
<1>2. f \in [CpvtId -> Cpvts] /\ \A d \in CpvtId : f[d] = IF d = c THEN x ELSE p.cpvt[d]
  BY <1>1
<1>. HIDE DEF f
<1>3. /\ q \in Pvts /\ q.at_queue = p.at_queue /\ q.last_dialed = p.last_dialed
      /\ q.chans = p.chans /\ q.chansno = p.chansno /\ q.chan_count = p.chan_count
      /\ q.streams = p.streams /\ q.cpvt = f
  BY <1>1, <1>2 DEF Pvts
<1>. HIDE DEF q
<1>4. Keeps(p, q)
  BY <1>2, <1>3 DEF Keeps, CallsOK
<1>5. q = [p EXCEPT !.cpvt[c] = x]
  BY DEF q, f
<1>. QED  BY <1>4, <1>5

LEMMA NeedHangupKeeps ==
    ASSUME NEW p, CallsOK(p), NEW c \in CpvtId \union {sys_chan}, NEW need \in BOOLEAN
    PROVE  Keeps(p, NeedHangup(p, c, need))
<1>1. CASE c = sys_chan
  BY <1>1, KeepsItself DEF NeedHangup
<1>2. CASE c # sys_chan
  <2>. DEFINE x == [p.cpvt[c] EXCEPT !.need_hangup = need]
  <2>1. c \in CpvtId /\ p.cpvt[c] \in Cpvts
    BY <1>2 DEF CallsOK, Pvts
  <2>2. /\ x \in Cpvts
        /\ x.state = p.cpvt[c].state /\ x.channel = p.cpvt[c].channel
        /\ x.activated = p.cpvt[c].activated /\ x.master = p.cpvt[c].master
    BY <2>1 DEF Cpvts
  <2>3. NeedHangup(p, c, need) = [p EXCEPT !.cpvt[c] = x]
    BY <1>2 DEF NeedHangup
  <2>. HIDE DEF x
  <2>. QED  BY <2>1, <2>2, <2>3, NotedKeeps
<1>. QED  BY <1>1, <1>2

\* The flags of the device and the call dialed last are in no count either.
Reflagged(p, dialing, ring, cwaiting, last) ==
    [p EXCEPT !.dialing = dialing, !.ring = ring, !.cwaiting = cwaiting,
              !.last_dialed = last]

LEMMA FlagsKeep ==
    ASSUME NEW p, CallsOK(p), NEW dialing \in BOOLEAN, NEW ring \in BOOLEAN,
           NEW cwaiting \in BOOLEAN, NEW last \in p.chans \union {NoCpvt}
    PROVE  Keeps(p, Reflagged(p, dialing, ring, cwaiting, last))
<1>. DEFINE q == Reflagged(p, dialing, ring, cwaiting, last)
<1>1. p \in Pvts /\ p.chans \subseteq CpvtId
  BY QueueType
<1>2. /\ q \in Pvts /\ q.at_queue = p.at_queue /\ q.last_dialed = last
      /\ q.chans = p.chans /\ q.chansno = p.chansno /\ q.chan_count = p.chan_count
      /\ q.streams = p.streams /\ q.cpvt = p.cpvt
  BY <1>1 DEF Pvts, Reflagged
<1>. HIDE DEF q
<1>3. Keeps(p, q)
  BY <1>2 DEF Keeps, CallsOK
<1>. QED  BY <1>3 DEF q

\* What is left of a queue is a finite number of commands.
LEMMA PendingFinite ==
    ASSUME NEW q \in Seq(Tasks)
    PROVE  Cardinality(PendingCmds(q)) \in Nat
<1>. DEFINE I == DOMAIN q
            S == {TaskPending(q[i]) : i \in I}
            f == [i \in I |-> TaskPending(q[i])]
<1>1. IsFiniteSet(I)
  BY FS_Interval
<1>2. f \in Surjection(I, S)
  BY DEF Surjection
<1>3. IsFiniteSet(S)
  BY <1>1, <1>2, FS_Surjection
<1>4. \A T \in S : IsFiniteSet(T)
  <2>. SUFFICES ASSUME NEW i \in I PROVE IsFiniteSet(TaskPending(q[i]))
    OBVIOUS
  <2>. DEFINE a == q[i].cindex + 1
              b == Len(q[i].cmds)
  <2>1. q[i] \in Tasks
    OBVIOUS
  <2>2. a \in Int /\ b \in Int
    BY <2>1 DEF Tasks
  <2>3. IsFiniteSet(a .. b)
    BY <2>2, FS_Interval
  <2>4. IsFiniteSet({q[i].id})
    BY FS_Singleton
  <2>. HIDE DEF a, b
  <2>5. IsFiniteSet({q[i].id} \X (a .. b))
    BY <2>3, <2>4, FS_Product
  <2>. QED  BY <2>5 DEF TaskPending, a, b
<1>5. IsFiniteSet(UNION S)
  BY <1>3, <1>4, FS_UNION
<1>. QED  BY <1>5, FS_CardinalityType DEF PendingCmds

LEMMA FlushKeeps ==
    ASSUME NEW p, CallsOK(p)
    PROVE  Keeps(p, at_queue_flush(p))
<1>. DEFINE tasks == <<>>
            m == p.at_tasks - Len(p.at_queue)
            n == p.at_cmds - Cardinality(PendingCmds(p.at_queue))
<1>1. p.at_queue \in Seq(Tasks)
  BY QueueType, TasksForTasks
<1>2. m \in Int /\ n \in Int
  BY <1>1, QueueType, PendingFinite
<1>3. at_queue_flush(p) = Requeued(p, tasks, m, n)
  BY DEF at_queue_flush, Requeued
<1>4. tasks \in Seq(TasksFor(p.chans))
  OBVIOUS
<1>. HIDE DEF tasks, m, n
<1>. QED  BY <1>2, <1>3, <1>4, RequeuedKeeps

-----------------------------------------------------------------------------
(* Numbers of calls                                                        *)

LEMMA LowestUnused ==
    ASSUME NEW p, NEW unused \in SUBSET CallIdx,
           unused = {i \in CallIdx : WithIdx(p, i) = {}}
    PROVE  /\ unused = {} => pvt_get_pseudo_call_idx(p) = 0
           /\ unused # {} => pvt_get_pseudo_call_idx(p) \in unused
<1>1. unused # {} => \E i \in unused : \A j \in unused : i <= j
  BY LeastOfNat, CallIdxAssumption DEF CallIdx
<1>. QED  BY <1>1 DEF pvt_get_pseudo_call_idx

\* A call that is not numbered gets 0 or a number no context has.
LEMMA PseudoIdx ==
    ASSUME NEW p
    PROVE  /\ pvt_get_pseudo_call_idx(p) \in 0 .. MaxCallIdx
           /\ pvt_get_pseudo_call_idx(p) # 0 => WithIdx(p, pvt_get_pseudo_call_idx(p)) = {}
<1>. DEFINE unused == {i \in CallIdx : WithIdx(p, i) = {}}
<1>1. /\ unused = {} => pvt_get_pseudo_call_idx(p) = 0
      /\ unused # {} => pvt_get_pseudo_call_idx(p) \in unused
  BY LowestUnused
<1>. QED  BY <1>1, CallIdxAssumption DEF CallIdx

-----------------------------------------------------------------------------
(* Contexts that come, go and change their state                           *)

\* What every operation on calls keeps; fresh are the contexts that may be of
\* calls that have not begun.
Good(fresh, p) ==
    /\ CallsOK(p)
    /\ HasAudio => StreamsOK(p)
    /\ InState(p, "INIT") \subseteq fresh

\* No other call goes back to where it has not begun.
LEMMA StaysGood ==
    ASSUME NEW fresh, NEW p, NEW q, Good(fresh, p), CallsOK(q), HasAudio => StreamsOK(q),
           q.chans \subseteq p.chans,
           \A c \in q.chans : q.cpvt[c].state = "INIT" => p.cpvt[c].state = "INIT"
    PROVE  Good(fresh, q)
BY DEF Good, InState

LEMMA KeepsGood ==
    ASSUME NEW fresh, NEW p, NEW q, Good(fresh, p), Keeps(p, q)
    PROVE  Good(fresh, q)
<1>1. /\ CallsOK(p) /\ CallsOK(q) /\ (HasAudio => StreamsOK(q))
      /\ p.chans \subseteq CpvtId
  BY KeepsOK, QueueType DEF Good
<1>2. /\ q.chans = p.chans
      /\ \A c \in CpvtId : q.cpvt[c].state = p.cpvt[c].state
  BY DEF Keeps
<1>. QED  BY <1>1, <1>2, StaysGood

\* The record with other contexts and counts.
Recounted(p, f, calls, n, counts, streams) ==
    [p EXCEPT !.cpvt = f, !.chans = calls, !.chansno = n, !.chan_count = counts,
              !.streams = streams]

LEMMA RecountedFields ==
    ASSUME NEW p, p \in Pvts, NEW f \in [CpvtId -> Cpvts], NEW calls \in SUBSET CpvtId,
           NEW n \in Int, NEW counts \in [call_state_t -> Int], NEW streams \in [CpvtId -> Int]
    PROVE  LET q == Recounted(p, f, calls, n, counts, streams)
           IN  /\ q \in Pvts
               /\ q.cpvt = f /\ q.chans = calls /\ q.chansno = n /\ q.chan_count = counts
               /\ q.streams = streams
               /\ q.at_queue = p.at_queue /\ q.last_dialed = p.last_dialed
BY DEF Pvts, Recounted

\* There are finitely many calls.
LEMMA CallsFinite ==
    ASSUME NEW p, CallsOK(p)
    PROVE  /\ IsFiniteSet(p.chans) /\ Cardinality(p.chans) \in Nat
           /\ \A s : IsFiniteSet(InState(p, s)) /\ Cardinality(InState(p, s)) \in Nat
<1>1. p.chans \subseteq CpvtId
  BY QueueType
<1>2. \A T \in SUBSET CpvtId : IsFiniteSet(T) /\ Cardinality(T) \in Nat
  BY FS_Subset, FS_CardinalityType, CpvtIdAssumption
<1>3. \A s : InState(p, s) \in SUBSET CpvtId
  BY <1>1 DEF InState
<1>. QED  BY <1>1, <1>2, <1>3

\* A task for one of some calls is one for one of more.
LEMMA TasksForMore ==
    ASSUME NEW C, NEW D, C \subseteq D
    PROVE  Seq(TasksFor(C)) \subseteq Seq(TasksFor(D))
<1>1. TasksFor(C) \subseteq TasksFor(D)
  BY DEF TasksFor
<1>. QED  BY <1>1, SeqMonotonic

LEMMA AllocGood ==
    ASSUME NEW fresh, NEW p, Good(fresh, p), NEW c \in CpvtId \ p.chans, NEW new \in Cpvts,
           ~new.activated, ~new.master, new.state = "INIT" => c \in fresh
    PROVE  Good(fresh, cpvt_alloc(p, c, new))
<1>. DEFINE f == [p.cpvt EXCEPT ![c] = new]
            calls == p.chans \union {c}
            n == p.chansno + 1
            counts == [p.chan_count EXCEPT ![new.state] = @ + 1]
            streams == IF p.chansno = 0 THEN [d \in CpvtId |-> 0] ELSE p.streams
            q == Recounted(p, f, calls, n, counts, streams)
<1>1. p \in Pvts /\ CallsOK(p) /\ p.chans \subseteq CpvtId /\ new.state \in call_state_t
  BY QueueType DEF Good, Cpvts
<1>2. cpvt_alloc(p, c, new) = q
  BY <1>1 DEF cpvt_alloc, Recounted, Pvts
<1>3. /\ f \in [CpvtId -> Cpvts] /\ calls \in SUBSET CpvtId /\ n \in Int
      /\ counts \in [call_state_t -> Int] /\ streams \in [CpvtId -> Int]
      /\ \A d \in CpvtId : f[d] = IF d = c THEN new ELSE p.cpvt[d]
      /\ \A s \in call_state_t :
            counts[s] = IF s = new.state THEN p.chan_count[s] + 1 ELSE p.chan_count[s]
  BY <1>1 DEF Pvts
<1>. HIDE DEF f, counts
<1>4. /\ q \in Pvts /\ q.cpvt = f /\ q.chans = calls /\ q.chansno = n
      /\ q.chan_count = counts /\ q.streams = streams
      /\ q.at_queue = p.at_queue /\ q.last_dialed = p.last_dialed
  BY <1>1, <1>3, RecountedFields
<1>. HIDE DEF q
<1>5. q.chansno = Cardinality(q.chans)
  <2>1. p.chansno = Cardinality(p.chans) /\ IsFiniteSet(p.chans)
    BY <1>1, CallsFinite DEF CallsOK
  <2>2. Cardinality(p.chans \union {c}) = Cardinality(p.chans) + 1
    BY <2>1, FS_AddElement
  <2>. QED  BY <1>4, <2>1, <2>2
<1>6. ASSUME NEW s \in call_state_t PROVE q.chan_count[s] = Cardinality(InState(q, s))
  <2>1. c \notin InState(p, s) /\ p.chan_count[s] = Cardinality(InState(p, s))
    BY <1>1 DEF InState, CallsOK
  <2>2. InState(q, s) = IF s = new.state THEN InState(p, s) \union {c} ELSE InState(p, s)
    BY <1>1, <1>3, <1>4 DEF InState
  <2>3. Cardinality(InState(p, s) \union {c}) = Cardinality(InState(p, s)) + 1
    BY <1>1, <2>1, CallsFinite, FS_AddElement
  <2>. QED  BY <1>3, <1>4, <2>1, <2>2, <2>3
<1>7. CallsOK(q)
  <2>1. q.at_queue \in Seq(TasksFor(q.chans))
    BY <1>1, <1>4, TasksForMore DEF CallsOK
  <2>. QED  BY <1>1, <1>4, <1>5, <1>6, <2>1 DEF CallsOK
<1>8. ASSUME StreamsOK(p) PROVE StreamsOK(q)
  <2>1. CASE p.chansno = 0
    <3>1. p.chans = {}
      BY <1>1, <2>1, CallsFinite, FS_EmptySet DEF CallsOK
    <3>. QED  BY <1>3, <1>4, <1>8, <2>1, <3>1 DEF StreamsOK
  <2>2. CASE p.chansno # 0
    BY <1>3, <1>4, <1>8, <2>2 DEF StreamsOK
  <2>. QED  BY <2>1, <2>2
<1>9. InState(q, "INIT") \subseteq fresh
  BY <1>1, <1>3, <1>4 DEF Good, InState
<1>. QED  BY <1>2, <1>7, <1>8, <1>9 DEF Good

\* The queue without pointers to a context that is freed.
LEMMA UnlinkedTyped ==
    ASSUME NEW C, NEW q \in Seq(TasksFor(C)), NEW c
    PROVE  Unlinked(q, c) \in Seq(TasksFor(C \ {c}))
<1>. DEFINE g(i) == IF q[i].cpvt = c THEN [q[i] EXCEPT !.cpvt = sys_chan] ELSE q[i]
<1>1. ASSUME NEW i \in 1 .. Len(q) PROVE g(i) \in TasksFor(C \ {c})
  <2>1. q[i] \in Tasks /\ q[i].cpvt \in C \union {sys_chan}
    BY DEF TasksFor
  <2>2. CASE q[i].cpvt = c
    <3>1. g(i) \in Tasks /\ g(i).cpvt = sys_chan
      BY <2>1, <2>2 DEF Tasks
    <3>. QED  BY <3>1 DEF TasksFor
  <2>3. CASE q[i].cpvt # c
    BY <2>1, <2>3 DEF TasksFor
  <2>. QED  BY <2>2, <2>3
<1>2. Unlinked(q, c) = [i \in 1 .. Len(q) |-> g(i)] /\ Len(q) \in Nat
  BY DEF Unlinked
<1>3. Unlinked(q, c) \in [1 .. Len(q) -> TasksFor(C \ {c})]
  BY <1>1, <1>2
<1>. QED  BY <1>2, <1>3, SeqDef

LEMMA NewCpvtTyped ==
    /\ \A idx \in 0 .. MaxCallIdx, dir \in {"outgoing", "incoming"}, state \in call_state_t,
         opts \in Opts :
         LET new == NewCpvt(idx, dir, state, opts)
         IN  new \in Cpvts /\ ~new.activated /\ ~new.master
    /\ FreeCpvt \in Cpvts /\ ~FreeCpvt.activated /\ ~FreeCpvt.master
<1>1. ASSUME NEW idx \in 0 .. MaxCallIdx, NEW dir \in {"outgoing", "incoming"},
             NEW state \in call_state_t, NEW opts \in Opts
      PROVE  LET new == NewCpvt(idx, dir, state, opts)
             IN  new \in Cpvts /\ ~new.activated /\ ~new.master
  BY DEF NewCpvt, Cpvts
<1>2. 0 \in 0 .. MaxCallIdx /\ "RELEASED" \in call_state_t /\ "none" \in Opts
  BY CallIdxAssumption DEF call_state_t, Opts
<1>. DEFINE new == NewCpvt(0, "outgoing", "RELEASED", "none")
<1>3. new \in Cpvts /\ ~new.activated /\ ~new.master
  BY <1>1, <1>2
<1>4. FreeCpvt = [new EXCEPT !.channel = FALSE]
  BY DEF FreeCpvt
<1>. HIDE DEF new
<1>5. FreeCpvt \in Cpvts /\ ~FreeCpvt.activated /\ ~FreeCpvt.master
  BY <1>3, <1>4 DEF Cpvts
<1>. QED  BY <1>1, <1>5

LEMMA FreeGood ==
    ASSUME NEW fresh, NEW p, Good(fresh, p), NEW c \in p.chans, HasAudio => ~p.cpvt[c].activated
    PROVE  Good(fresh, cpvt_free(p, c)) /\ cpvt_free(p, c).chans = p.chans \ {c}
<1>. DEFINE old == p.cpvt[c].state
            f == [p.cpvt EXCEPT ![c] = FreeCpvt]
            calls == p.chans \ {c}
            n == p.chansno - 1
            counts == [p.chan_count EXCEPT ![old] = @ - 1]
            streams == p.streams
            r == Recounted(p, f, calls, n, counts, streams)
            last == IF p.last_dialed = c THEN NoCpvt ELSE p.last_dialed
            q == [r EXCEPT !.at_queue = Unlinked(p.at_queue, c), !.last_dialed = last]
<1>1. /\ p \in Pvts /\ CallsOK(p) /\ p.chans \subseteq CpvtId /\ c \in CpvtId
      /\ p.cpvt[c] \in Cpvts /\ old \in call_state_t
      /\ p.at_queue \in Seq(TasksFor(p.chans))
  BY QueueType DEF Good, Cpvts, Pvts
<1>2. cpvt_free(p, c) = q
  BY <1>1 DEF cpvt_free, Recounted, Pvts
<1>3. /\ FreeCpvt \in Cpvts /\ ~FreeCpvt.activated /\ ~FreeCpvt.master
  BY NewCpvtTyped DEF FreeCpvt
<1>. HIDE DEF old
<1>4. /\ f \in [CpvtId -> Cpvts] /\ calls \in SUBSET CpvtId /\ n \in Int
      /\ counts \in [call_state_t -> Int] /\ streams \in [CpvtId -> Int]
      /\ \A d \in CpvtId : f[d] = IF d = c THEN FreeCpvt ELSE p.cpvt[d]
      /\ \A s \in call_state_t :
            counts[s] = IF s = old THEN p.chan_count[s] - 1 ELSE p.chan_count[s]
  BY <1>1, <1>3 DEF Pvts
<1>5. /\ Unlinked(p.at_queue, c) \in Seq(TasksFor(calls))
      /\ Unlinked(p.at_queue, c) \in Seq(Tasks)
      /\ last \in calls \union {NoCpvt} /\ last \in CpvtId \union {NoCpvt}
  BY <1>1, UnlinkedTyped, TasksForTasks DEF CallsOK
<1>. HIDE DEF f, calls, n, counts, streams, last
<1>6. /\ r \in Pvts /\ r.cpvt = f /\ r.chans = calls /\ r.chansno = n
      /\ r.chan_count = counts /\ r.streams = streams
  <2>1. p \in Pvts
    BY <1>1
  <2>2. f \in [CpvtId -> Cpvts]
    BY <1>4
  <2>3. calls \in SUBSET CpvtId
    BY <1>4
  <2>4. n \in Int /\ streams \in [CpvtId -> Int]
    BY <1>4
  <2>5. counts \in [call_state_t -> Int]
    BY <1>4
  <2>. QED  BY <2>1, <2>2, <2>3, <2>4, <2>5, RecountedFields
<1>. HIDE DEF r
<1>7. /\ q \in Pvts /\ q.cpvt = f /\ q.chans = calls /\ q.chansno = n
      /\ q.chan_count = counts /\ q.streams = streams
      /\ q.at_queue = Unlinked(p.at_queue, c) /\ q.last_dialed = last
  BY <1>5, <1>6 DEF Pvts
<1>. HIDE DEF q
<1>. USE DEF calls, n
<1>8. q.chansno = Cardinality(q.chans)
  <2>1. p.chansno = Cardinality(p.chans) /\ IsFiniteSet(p.chans)
    BY <1>1, CallsFinite DEF CallsOK
  <2>2. Cardinality(p.chans \ {c}) = Cardinality(p.chans) - 1
    BY <2>1, FS_RemoveElement
  <2>. QED  BY <1>7, <2>1, <2>2
<1>9. ASSUME NEW s \in call_state_t PROVE q.chan_count[s] = Cardinality(InState(q, s))
  <2>1. /\ p.chan_count[s] = Cardinality(InState(p, s))
        /\ c \in InState(p, s) <=> s = old
    BY <1>1 DEF InState, CallsOK, old
  <2>2. InState(q, s) = InState(p, s) \ {c}
    BY <1>1, <1>4, <1>7 DEF InState
  <2>3. Cardinality(InState(p, s) \ {c}) =
           IF s = old THEN Cardinality(InState(p, s)) - 1 ELSE Cardinality(InState(p, s))
    BY <1>1, <2>1, CallsFinite, FS_RemoveElement
  <2>. QED  BY <1>4, <1>7, <2>1, <2>2, <2>3
<1>10. CallsOK(q)
  BY <1>5, <1>7, <1>8, <1>9 DEF CallsOK
<1>11. ASSUME HasAudio PROVE StreamsOK(q)
  <2>1. StreamsOK(p) /\ ~p.cpvt[c].activated
    BY <1>11 DEF Good
  <2>2. \A d \in CpvtId : q.cpvt[d] = IF d = c THEN FreeCpvt ELSE p.cpvt[d]
    BY <1>4, <1>7
  <2>3. q.streams = p.streams /\ q.chans = p.chans \ {c}
    BY <1>7 DEF streams
  <2>. HIDE DEF q, calls, n
  <2>4. \A d \in CpvtId : q.streams[d] = IF q.cpvt[d].activated THEN 1 ELSE 0
    BY <1>1, <1>3, <2>1, <2>2, <2>3 DEF StreamsOK
  <2>5. \A d \in CpvtId : q.cpvt[d].activated => d \in q.chans /\ q.cpvt[d].channel
    BY <1>1, <1>3, <2>1, <2>2, <2>3 DEF StreamsOK
  <2>6. \A d, e \in CpvtId : q.cpvt[d].master /\ q.cpvt[e].master => d = e
    BY <1>1, <1>3, <2>1, <2>2 DEF StreamsOK
  <2>. QED  BY <2>4, <2>5, <2>6 DEF StreamsOK
<1>12. \A d \in q.chans : d \in p.chans /\ q.cpvt[d].state = p.cpvt[d].state
  BY <1>1, <1>4, <1>7
<1>. QED  BY <1>2, <1>7, <1>10, <1>11, <1>12, StaysGood

\* The record with other audio of its calls.
Revoiced(p, f, streams) == [p EXCEPT !.streams = streams, !.cpvt = f]

LEMMA AudioGood ==
    ASSUME NEW p, CallsOK(p), NEW f \in [CpvtId -> Cpvts], NEW streams \in [CpvtId -> Int],
           \A c \in CpvtId : f[c].state = p.cpvt[c].state
    PROVE  LET q == Revoiced(p, f, streams)
           IN  /\ CallsOK(q) /\ q.chans = p.chans
               /\ q.cpvt = f /\ q.streams = streams
               /\ \A c \in q.chans : q.cpvt[c].state = p.cpvt[c].state
<1>. DEFINE q == Revoiced(p, f, streams)
<1>1. p \in Pvts /\ p.chans \subseteq CpvtId
  BY QueueType
<1>2. /\ q \in Pvts /\ q.at_queue = p.at_queue /\ q.last_dialed = p.last_dialed
      /\ q.chans = p.chans /\ q.chansno = p.chansno /\ q.chan_count = p.chan_count
      /\ q.streams = streams /\ q.cpvt = f
  BY <1>1 DEF Pvts, Revoiced
<1>. HIDE DEF q
<1>3. \A s : InState(q, s) = InState(p, s)
  BY <1>1, <1>2 DEF InState
<1>4. CallsOK(q)
  BY <1>2, <1>3 DEF CallsOK
<1>5. \A c \in q.chans : q.cpvt[c].state = p.cpvt[c].state
  BY <1>1, <1>2
<1>. QED  BY <1>2, <1>4, <1>5 DEF q

\* The stream of a call leaves the mixer; no call that has no channel has one.
LEMMA DisactivateGood ==
    ASSUME NEW fresh, NEW p, Good(fresh, p), NEW c \in p.chans
    PROVE  LET q == disactivate_call(p, c)
           IN  /\ Good(fresh, q) /\ q.chans = p.chans
               /\ HasAudio => ~q.cpvt[c].activated
<1>. DEFINE x == [p.cpvt[c] EXCEPT !.activated = FALSE, !.master = FALSE]
            f == [p.cpvt EXCEPT ![c] = x]
            streams == [p.streams EXCEPT ![c] = @ - 1]
            q == Revoiced(p, f, streams)
<1>1. /\ CallsOK(p) /\ p \in Pvts /\ c \in CpvtId /\ p.cpvt \in [CpvtId -> Cpvts]
      /\ p.cpvt[c] \in Cpvts
  BY QueueType DEF Good, Pvts
<1>2. CASE p.cpvt[c].channel /\ p.cpvt[c].activated
  <2>1. x \in Cpvts /\ ~x.activated /\ ~x.master
        /\ x.state = p.cpvt[c].state /\ x.channel = p.cpvt[c].channel
    BY <1>1 DEF Cpvts
  <2>2. disactivate_call(p, c) = q
    BY <1>1, <1>2 DEF disactivate_call, Pvts, Revoiced
  <2>. HIDE DEF x
  <2>3. /\ f \in [CpvtId -> Cpvts] /\ streams \in [CpvtId -> Int]
        /\ \A d \in CpvtId : f[d] = IF d = c THEN x ELSE p.cpvt[d]
        /\ \A d \in CpvtId : streams[d] = IF d = c THEN p.streams[d] - 1 ELSE p.streams[d]
    BY <1>1, <2>1 DEF Pvts
  <2>4. \A d \in CpvtId : f[d].state = p.cpvt[d].state
    BY <2>1, <2>3
  <2>. HIDE DEF f, streams
  <2>5. /\ CallsOK(q) /\ q.chans = p.chans /\ q.cpvt = f /\ q.streams = streams
        /\ \A d \in q.chans : q.cpvt[d].state = p.cpvt[d].state
    BY <1>1, <2>3, <2>4, AudioGood
  <2>. HIDE DEF q
  <2>6. ASSUME HasAudio PROVE StreamsOK(q)
    BY <1>1, <1>2, <2>1, <2>3, <2>5, <2>6 DEF Good, StreamsOK
  <2>7. Good(fresh, q)
    BY <2>5, <2>6, StaysGood
  <2>. QED  BY <1>1, <2>1, <2>2, <2>3, <2>5, <2>7
<1>3. CASE ~(p.cpvt[c].channel /\ p.cpvt[c].activated)
  <2>1. HasAudio => ~p.cpvt[c].activated
    BY <1>1, <1>3 DEF Good, StreamsOK
  <2>. QED  BY <1>3, <2>1 DEF disactivate_call
<1>. QED  BY <1>2, <1>3

\* A call that has a channel takes the audio over.
LEMMA ActivateGood ==
    ASSUME NEW fresh, NEW p, Good(fresh, p), NEW c \in p.chans, p.cpvt[c].channel
    PROVE  LET q == activate_call(p, c) IN Good(fresh, q) /\ q.chans = p.chans
<1>. DEFINE x == [p.cpvt[c] EXCEPT !.activated = @ \/ HasAudio, !.master = HasAudio]
            y(d) == [p.cpvt[d] EXCEPT !.master = FALSE]
            f == [d \in CpvtId |->
                    IF d = c
                    THEN [p.cpvt[d] EXCEPT !.activated = @ \/ HasAudio, !.master = HasAudio]
                    ELSE [p.cpvt[d] EXCEPT !.master = FALSE]]
            streams == [p.streams EXCEPT ![c] = IF p.cpvt[c].activated THEN @ ELSE @ + 1]
            q == Revoiced(p, f, streams)
<1>1. /\ CallsOK(p) /\ p \in Pvts /\ c \in CpvtId /\ p.cpvt \in [CpvtId -> Cpvts]
      /\ p.cpvt[c] \in Cpvts
  BY QueueType DEF Good, Pvts
<1>2. CASE p.cpvt[c].master
  BY <1>2 DEF activate_call
<1>3. CASE ~p.cpvt[c].master
  <2>1. /\ x \in Cpvts /\ (HasAudio => x.activated)
        /\ x.state = p.cpvt[c].state /\ x.channel = p.cpvt[c].channel
    BY <1>1, HasAudioAssumption DEF Cpvts
  <2>2. ASSUME NEW d \in CpvtId
        PROVE  /\ y(d) \in Cpvts /\ y(d).activated = p.cpvt[d].activated /\ ~y(d).master
               /\ y(d).state = p.cpvt[d].state /\ y(d).channel = p.cpvt[d].channel
    <3>1. p.cpvt[d] \in Cpvts
      BY <1>1
    <3>. QED  BY <3>1 DEF Cpvts
  <2>3. activate_call(p, c) = q
    BY <1>3 DEF activate_call, Revoiced
  <2>9. f = [d \in CpvtId |-> IF d = c THEN x ELSE y(d)]
    OBVIOUS
  <2>. HIDE DEF x, y, f
  <2>4. /\ f \in [CpvtId -> Cpvts]
        /\ \A d \in CpvtId : f[d] = IF d = c THEN x ELSE y(d)
        /\ \A d \in CpvtId : f[d].state = p.cpvt[d].state
    BY <1>1, <2>1, <2>2, <2>9
  <2>5. /\ streams \in [CpvtId -> Int]
        /\ \A d \in CpvtId : streams[d] =
              IF d = c /\ ~p.cpvt[c].activated THEN p.streams[d] + 1 ELSE p.streams[d]
    BY <1>1 DEF Pvts
  <2>. HIDE DEF streams
  <2>6. /\ CallsOK(q) /\ q.chans = p.chans /\ q.cpvt = f /\ q.streams = streams
        /\ \A d \in q.chans : q.cpvt[d].state = p.cpvt[d].state
    BY <1>1, <2>4, <2>5, AudioGood
  <2>. HIDE DEF q
  <2>7. ASSUME HasAudio PROVE StreamsOK(q)
    <3>1. StreamsOK(p)
      BY <2>7 DEF Good
    <3>2. \A d \in CpvtId : q.streams[d] = IF q.cpvt[d].activated THEN 1 ELSE 0
      <4>. SUFFICES ASSUME NEW d \in CpvtId
                    PROVE  q.streams[d] = IF q.cpvt[d].activated THEN 1 ELSE 0
        OBVIOUS
      <4>1. p.streams[d] = IF p.cpvt[d].activated THEN 1 ELSE 0
        BY <3>1 DEF StreamsOK
      <4>2. CASE d = c
        BY <2>1, <2>4, <2>5, <2>6, <2>7, <4>1, <4>2
      <4>3. CASE d # c
        BY <2>2, <2>4, <2>5, <2>6, <4>1, <4>3
      <4>. QED  BY <4>2, <4>3
    <3>3. \A d \in CpvtId : q.cpvt[d].activated => d \in q.chans /\ q.cpvt[d].channel
      <4>. SUFFICES ASSUME NEW d \in CpvtId, q.cpvt[d].activated
                    PROVE  d \in q.chans /\ q.cpvt[d].channel
        OBVIOUS
      <4>1. CASE d = c
        <5>1. q.cpvt[d].channel = p.cpvt[c].channel
          BY <2>1, <2>4, <2>6, <4>1
        <5>. QED  BY <2>6, <4>1, <5>1
      <4>2. CASE d # c
        <5>1. q.cpvt[d].activated = p.cpvt[d].activated /\ q.cpvt[d].channel = p.cpvt[d].channel
          BY <2>2, <2>4, <2>6, <4>2
        <5>2. d \in p.chans /\ p.cpvt[d].channel
          BY <3>1, <5>1 DEF StreamsOK
        <5>. QED  BY <2>6, <5>1, <5>2
      <4>. QED  BY <4>1, <4>2
    <3>4. \A d \in CpvtId : q.cpvt[d].master => d = c
      BY <2>2, <2>4, <2>6
    <3>. QED  BY <3>2, <3>3, <3>4 DEF StreamsOK
  <2>8. Good(fresh, q)
    BY <2>6, <2>7, StaysGood
  <2>. QED  BY <2>3, <2>6, <2>8
<1>. QED  BY <1>2, <1>3

\* A call in another state, and counted there.
MovedTo(p, c, new) ==
    [p EXCEPT !.cpvt[c].state = new,
              !.chan_count[p.cpvt[c].state] = @ - 1,
              !.chan_count[new] = @ + 1]

LEMMA MovedGood ==
    ASSUME NEW fresh, NEW p, Good(fresh, p), NEW c \in p.chans, NEW new \in call_state_t,
           new # p.cpvt[c].state, new # "INIT"
    PROVE  LET q == MovedTo(p, c, new)
           IN  Good(fresh, q) /\ q.chans = p.chans /\ q.cpvt[c].channel = p.cpvt[c].channel
<1>. DEFINE old == p.cpvt[c].state
            x == [p.cpvt[c] EXCEPT !.state = new]
            f == [p.cpvt EXCEPT ![c] = x]
            counts == [p.chan_count EXCEPT ![old] = @ - 1, ![new] = @ + 1]
            chans == p.chans
            n == p.chansno
            streams == p.streams
            q == Recounted(p, f, chans, n, counts, streams)
<1>1. /\ CallsOK(p) /\ p \in Pvts /\ p.chans \subseteq CpvtId /\ c \in CpvtId
      /\ p.cpvt \in [CpvtId -> Cpvts] /\ p.cpvt[c] \in Cpvts /\ old \in call_state_t
      /\ p.chan_count \in [call_state_t -> Int]
  <2>1. CallsOK(p)
    BY DEF Good
  <2>2. p \in Pvts /\ p.chans \subseteq CpvtId
    BY <2>1, QueueType
  <2>3. p.cpvt \in [CpvtId -> Cpvts] /\ p.chan_count \in [call_state_t -> Int]
    BY <2>2 DEF Pvts
  <2>4. c \in CpvtId /\ p.cpvt[c] \in Cpvts
    BY <2>2, <2>3
  <2>. QED  BY <2>1, <2>2, <2>3, <2>4 DEF Cpvts
<1>2. MovedTo(p, c, new) = q
  <2>1. p \in Pvts
    BY <1>1
  <2>. QED  BY ONLY <2>1 DEF Recounted, Pvts, MovedTo
<1>3. /\ x \in Cpvts /\ x.state = new /\ x.channel = p.cpvt[c].channel
      /\ x.activated = p.cpvt[c].activated /\ x.master = p.cpvt[c].master
  BY <1>1 DEF Cpvts
<1>. HIDE DEF old, x
<1>4. /\ f \in [CpvtId -> Cpvts]
      /\ \A d \in CpvtId : f[d] = IF d = c THEN x ELSE p.cpvt[d]
  BY <1>1, <1>3
<1>5. /\ counts \in [call_state_t -> Int]
      /\ \A s \in call_state_t : counts[s] =
            IF s = new THEN p.chan_count[s] + 1
            ELSE IF s = old THEN p.chan_count[s] - 1 ELSE p.chan_count[s]
  BY <1>1 DEF old
<1>6. chans \in SUBSET CpvtId /\ n \in Int /\ streams \in [CpvtId -> Int]
  BY <1>1 DEF Pvts
<1>. HIDE DEF f, counts, chans, n, streams
<1>7. /\ q \in Pvts /\ q.cpvt = f /\ q.chans = chans /\ q.chansno = n
      /\ q.chan_count = counts /\ q.streams = streams
      /\ q.at_queue = p.at_queue /\ q.last_dialed = p.last_dialed
  <2>1. p \in Pvts /\ f \in [CpvtId -> Cpvts] /\ counts \in [call_state_t -> Int]
    BY <1>1, <1>4, <1>5
  <2>. QED  BY <1>6, <2>1, RecountedFields
<1>. HIDE DEF q
<1>. USE DEF chans, n, streams
<1>8. ASSUME NEW s \in call_state_t PROVE q.chan_count[s] = Cardinality(InState(q, s))
  <2>1. /\ p.chan_count[s] = Cardinality(InState(p, s))
        /\ (c \in InState(p, s)) <=> (s = old)
    BY <1>1 DEF InState, CallsOK, old
  <2>2. InState(q, s) = IF s = new THEN InState(p, s) \union {c} ELSE InState(p, s) \ {c}
    BY <1>1, <1>3, <1>4, <1>7 DEF InState
  <2>3. IsFiniteSet(InState(p, s)) /\ Cardinality(InState(p, s)) \in Nat
    BY <1>1, CallsFinite
  <2>4. CASE s = new
    <3>1. Cardinality(InState(p, s) \union {c}) = Cardinality(InState(p, s)) + 1
      BY <2>1, <2>3, <2>4, FS_AddElement DEF old
    <3>. QED  BY <1>5, <1>7, <2>1, <2>2, <2>4, <3>1
  <2>5. CASE s # new
    <3>1. Cardinality(InState(p, s) \ {c}) =
             IF s = old THEN Cardinality(InState(p, s)) - 1 ELSE Cardinality(InState(p, s))
      BY <2>1, <2>3, FS_RemoveElement
    <3>. QED  BY <1>5, <1>7, <2>1, <2>2, <2>5, <3>1
  <2>. QED  BY <2>4, <2>5
<1>9. CallsOK(q)
  BY <1>1, <1>7, <1>8 DEF CallsOK
<1>10. StreamsOK(p) => StreamsOK(q)
  BY <1>3, <1>4, <1>7 DEF StreamsOK
<1>11. \A d \in q.chans : q.cpvt[d].state = "INIT" => p.cpvt[d].state = "INIT"
  BY <1>1, <1>3, <1>4, <1>7
<1>12. HasAudio => StreamsOK(q)
  BY <1>10 DEF Good
<1>13. Good(fresh, q)
  BY <1>7, <1>9, <1>11, <1>12, StaysGood
<1>14. q.chans = p.chans /\ q.cpvt[c].channel = p.cpvt[c].channel
  BY <1>1, <1>3, <1>4, <1>7
<1>. QED  BY <1>2, <1>13, <1>14 DEF old

LEMMA FlagsAfterKeep ==
    ASSUME NEW p, CallsOK(p), NEW old
    PROVE  Keeps(p, FlagsAfter(p, old))
<1>. DEFINE d == p.dialing /\ old \notin {"INIT", "DIALING", "ALERTING"}
            r == p.ring /\ old # "INCOMING"
            w == p.cwaiting /\ old # "WAITING"
            l == p.last_dialed
<1>1. d \in BOOLEAN /\ r \in BOOLEAN /\ w \in BOOLEAN /\ l \in p.chans \union {NoCpvt}
  BY DEF CallsOK
<1>2. FlagsAfter(p, old) = Reflagged(p, d, r, w, l)
  BY QueueType DEF FlagsAfter, Pvts, Reflagged
<1>. HIDE DEF d, r, w, l
<1>. QED  BY <1>1, <1>2, FlagsKeep

LEMMA RestatedGood ==
    ASSUME NEW fresh, NEW p, Good(fresh, p), NEW c \in p.chans, NEW new \in call_state_t,
           new # p.cpvt[c].state, new # "INIT"
    PROVE  LET q == Restated(p, c, new)
           IN  Good(fresh, q) /\ q.chans = p.chans /\ q.cpvt[c].channel = p.cpvt[c].channel
<1>. DEFINE old == p.cpvt[c].state
            m == MovedTo(p, c, new)
<1>1. Good(fresh, m) /\ m.chans = p.chans /\ m.cpvt[c].channel = p.cpvt[c].channel
  BY MovedGood
<1>2. Restated(p, c, new) \in {m, FlagsAfter(m, old)}
  BY DEF Restated, MovedTo
<1>. HIDE DEF m
<1>3. Keeps(m, FlagsAfter(m, old))
  BY <1>1, FlagsAfterKeep DEF Good
<1>4. Good(fresh, FlagsAfter(m, old))
  BY <1>1, <1>3, KeepsGood
<1>5. /\ FlagsAfter(m, old).chans = m.chans
      /\ FlagsAfter(m, old).cpvt[c].channel = m.cpvt[c].channel
  <2>1. c \in CpvtId
    BY QueueType DEF Good
  <2>. QED  BY <1>3, <2>1 DEF Keeps
<1>. QED  BY <1>1, <1>2, <1>4, <1>5

LEMMA ChangeGood ==
    ASSUME NEW fresh, NEW p, Good(fresh, p), NEW c \in p.chans, NEW new \in call_state_t,
           new # "INIT"
    PROVE  LET q == change_channel_state(p, c, new)
           IN  /\ Good(fresh, q)
               /\ new # "RELEASED" => q.chans = p.chans
               /\ q.chans \subseteq p.chans
<1>. DEFINE q == Restated(p, c, new)
<1>1. CASE new = p.cpvt[c].state
  BY <1>1 DEF change_channel_state
<1>2. CASE new # p.cpvt[c].state
  <2>1. Good(fresh, q) /\ q.chans = p.chans /\ q.cpvt[c].channel = p.cpvt[c].channel
    BY <1>2, RestatedGood
  <2>2. change_channel_state(p, c, new) =
          CASE new = "RELEASED" -> cpvt_free(disactivate_call(q, c), c)
            [] new \in {"DIALING", "ALERTING", "ACTIVE"} /\ p.cpvt[c].channel ->
                 activate_call(q, c)
            [] new = "ONHOLD" -> disactivate_call(q, c)
            [] OTHER -> q
    BY <1>2 DEF change_channel_state
  <2>. HIDE DEF q
  <2>3. /\ Good(fresh, disactivate_call(q, c)) /\ disactivate_call(q, c).chans = p.chans
        /\ HasAudio => ~disactivate_call(q, c).cpvt[c].activated
    BY <2>1, DisactivateGood
  <2>4. CASE new = "RELEASED"
    <3>. DEFINE d == disactivate_call(q, c)
    <3>1. change_channel_state(p, c, new) = cpvt_free(d, c)
      BY <2>2, <2>4
    <3>. HIDE DEF d
    <3>2. Good(fresh, cpvt_free(d, c)) /\ cpvt_free(d, c).chans = d.chans \ {c}
      BY <2>3, FreeGood DEF d
    <3>. QED  BY <2>3, <2>4, <3>1, <3>2 DEF d
  <2>5. CASE new \in {"DIALING", "ALERTING", "ACTIVE"} /\ p.cpvt[c].channel
    <3>1. Good(fresh, activate_call(q, c)) /\ activate_call(q, c).chans = p.chans
      BY <2>1, <2>5, ActivateGood
    <3>. QED  BY <2>2, <2>5, <3>1
  <2>6. CASE new = "ONHOLD"
    BY <2>2, <2>3, <2>6
  <2>7. CASE /\ new # "RELEASED" /\ new # "ONHOLD"
             /\ ~(new \in {"DIALING", "ALERTING", "ACTIVE"} /\ p.cpvt[c].channel)
    BY <2>1, <2>2, <2>7
  <2>. QED  BY <2>4, <2>5, <2>6, <2>7
<1>. QED  BY <1>1, <1>2

-----------------------------------------------------------------------------
(* Notes made of a call                                                    *)

\* The dialplan has called or answered the channel.
LEMMA CalledKeeps ==
    ASSUME NEW p, CallsOK(p), NEW c \in p.chans
    PROVE  Keeps(p, [p EXCEPT !.cpvt[c].called = TRUE])
<1>. DEFINE x == [p.cpvt[c] EXCEPT !.called = TRUE]
<1>1. c \in CpvtId /\ p.cpvt[c] \in Cpvts
  BY QueueType DEF Pvts
<1>2. /\ x \in Cpvts
      /\ x.state = p.cpvt[c].state /\ x.channel = p.cpvt[c].channel
      /\ x.activated = p.cpvt[c].activated /\ x.master = p.cpvt[c].master
  BY <1>1 DEF Cpvts
<1>3. [p EXCEPT !.cpvt[c].called = TRUE] = [p EXCEPT !.cpvt[c] = x]
  OBVIOUS
<1>. HIDE DEF x
<1>. QED  BY <1>1, <1>2, <1>3, NotedKeeps

\* The modem has numbered the call.
LEMMA NumberedKeeps ==
    ASSUME NEW p, CallsOK(p), NEW c \in p.chans, NEW idx \in 0 .. MaxCallIdx
    PROVE  Keeps(p, [p EXCEPT !.cpvt[c].idx = idx])
<1>. DEFINE x == [p.cpvt[c] EXCEPT !.idx = idx]
<1>1. c \in CpvtId /\ p.cpvt[c] \in Cpvts
  BY QueueType DEF Pvts
<1>2. /\ x \in Cpvts
      /\ x.state = p.cpvt[c].state /\ x.channel = p.cpvt[c].channel
      /\ x.activated = p.cpvt[c].activated /\ x.master = p.cpvt[c].master
  BY <1>1 DEF Cpvts
<1>3. [p EXCEPT !.cpvt[c].idx = idx] = [p EXCEPT !.cpvt[c] = x]
  OBVIOUS
<1>. HIDE DEF x
<1>. QED  BY <1>1, <1>2, <1>3, NotedKeeps

\* A call without audio loses its channel.
LEMMA UnchannelledGood ==
    ASSUME NEW fresh, NEW p, Good(fresh, p), NEW c \in p.chans, HasAudio => ~p.cpvt[c].activated
    PROVE  LET q == [p EXCEPT !.cpvt[c].channel = FALSE]
           IN  Good(fresh, q) /\ q.chans = p.chans
<1>. DEFINE x == [p.cpvt[c] EXCEPT !.channel = FALSE]
            f == [p.cpvt EXCEPT ![c] = x]
            streams == p.streams
            q == Revoiced(p, f, streams)
<1>1. /\ CallsOK(p) /\ p \in Pvts /\ c \in CpvtId /\ p.cpvt \in [CpvtId -> Cpvts]
      /\ p.cpvt[c] \in Cpvts /\ streams \in [CpvtId -> Int]
  BY QueueType DEF Good, Pvts
<1>2. [p EXCEPT !.cpvt[c].channel = FALSE] = q
  BY <1>1 DEF Revoiced, Pvts
<1>3. /\ x \in Cpvts /\ x.state = p.cpvt[c].state
      /\ x.activated = p.cpvt[c].activated /\ x.master = p.cpvt[c].master
  BY <1>1 DEF Cpvts
<1>. HIDE DEF x
<1>4. /\ f \in [CpvtId -> Cpvts]
      /\ \A d \in CpvtId : f[d] = IF d = c THEN x ELSE p.cpvt[d]
      /\ \A d \in CpvtId : f[d].state = p.cpvt[d].state
  BY <1>1, <1>3
<1>. HIDE DEF f, streams
<1>5. /\ CallsOK(q) /\ q.chans = p.chans /\ q.cpvt = f /\ q.streams = streams
      /\ \A d \in q.chans : q.cpvt[d].state = p.cpvt[d].state
  BY <1>1, <1>4, AudioGood
<1>. HIDE DEF q
<1>6. ASSUME HasAudio PROVE StreamsOK(q)
  BY <1>1, <1>3, <1>4, <1>5, <1>6 DEF Good, StreamsOK, streams
<1>7. Good(fresh, q)
  BY <1>5, <1>6, StaysGood
<1>. QED  BY <1>2, <1>5, <1>7

-----------------------------------------------------------------------------
(* The same of devices that are Good                                       *)

LEMMA RunGood ==
    ASSUME NEW fresh, NEW p, Good(fresh, p), NEW ok \in BOOLEAN
    PROVE  Good(fresh, at_queue_run(p, ok))
BY RunKeeps, KeepsGood DEF Good

LEMMA RemoveCmdGood ==
    ASSUME NEW fresh, NEW p, Good(fresh, p), NEW res
    PROVE  Good(fresh, at_queue_remove_cmd(p, res))
BY RemoveCmdKeeps, KeepsGood DEF Good

LEMMA InsertGood ==
    ASSUME NEW fresh, NEW p, Good(fresh, p), NEW c \in p.chans \union {sys_chan}, NEW job, IsJob(job),
           NEW ok \in BOOLEAN
    PROVE  LET q == Insert(p, c, job, ok) IN Good(fresh, q) /\ q.chans = p.chans
<1>1. Keeps(p, Insert(p, c, job, ok))
  BY InsertKeeps DEF Good
<1>. QED  BY <1>1, KeepsGood DEF Keeps

LEMMA clccGood ==
    ASSUME NEW fresh, NEW p, Good(fresh, p), NEW ok \in BOOLEAN
    PROVE  LET q == request_clcc(p, ok) IN Good(fresh, q) /\ q.chans = p.chans
<1>1. Keeps(p, request_clcc(p, ok))
  BY clccKeeps DEF Good
<1>. QED  BY <1>1, KeepsGood DEF Keeps

LEMMA HangupGood ==
    ASSUME NEW fresh, NEW p, Good(fresh, p), NEW c \in p.chans \union {sys_chan}, NEW ok \in BOOLEAN
    PROVE  LET q == HangupQueued(p, c, ok) IN Good(fresh, q) /\ q.chans = p.chans
<1>1. Keeps(p, HangupQueued(p, c, ok))
  BY HangupKeeps DEF Good
<1>. QED  BY <1>1, KeepsGood DEF Keeps

LEMMA NeedHangupGood ==
    ASSUME NEW fresh, NEW p, Good(fresh, p), NEW c \in p.chans \union {sys_chan}, NEW need \in BOOLEAN
    PROVE  LET q == NeedHangup(p, c, need) IN Good(fresh, q) /\ q.chans = p.chans
<1>1. c \in CpvtId \union {sys_chan} /\ CallsOK(p)
  BY QueueType DEF Good
<1>2. Keeps(p, NeedHangup(p, c, need))
  BY <1>1, NeedHangupKeeps
<1>. QED  BY <1>2, KeepsGood DEF Keeps

LEMMA ReflaggedGood ==
    ASSUME NEW fresh, NEW p, Good(fresh, p), NEW dialing \in BOOLEAN, NEW ring \in BOOLEAN,
           NEW cwaiting \in BOOLEAN, NEW last \in p.chans \union {NoCpvt}
    PROVE  LET q == Reflagged(p, dialing, ring, cwaiting, last)
           IN  Good(fresh, q) /\ q.chans = p.chans
<1>. DEFINE q == Reflagged(p, dialing, ring, cwaiting, last)
<1>1. Keeps(p, q)
  BY FlagsKeep DEF Good
<1>. HIDE DEF q
<1>2. Good(fresh, q) /\ q.chans = p.chans
  BY <1>1, KeepsGood DEF Keeps
<1>. QED  BY <1>2 DEF q

LEMMA FlushGood ==
    ASSUME NEW fresh, NEW p, Good(fresh, p)
    PROVE  Good(fresh, at_queue_flush(p)) /\ at_queue_flush(p).chans = p.chans
<1>1. Keeps(p, at_queue_flush(p))
  BY FlushKeeps DEF Good
<1>. QED  BY <1>1, KeepsGood DEF Keeps
===========================================================================
