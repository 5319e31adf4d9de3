----------------------------- MODULE AtQueueOps -----------------------------
(***************************************************************************)
(* The operations of at_queue.c on the command queue of one device, as     *)
(* functions of the part of struct pvt they touch:                         *)
(*                                                                         *)
(*   at_queue  the tasks, head first; a task is the address it lives at    *)
(*             (id), the call context it was queued for (cpvt), its        *)
(*             commands and cindex, the number of commands it is done with *)
(*   at_tasks  PVT_STATE(pvt, at_tasks)                                    *)
(*   at_cmds   PVT_STATE(pvt, at_cmds)                                     *)
(*                                                                         *)
(* p is any record with these fields.  The command a task is at is number  *)
(* cindex + 1, because TLA+ sequences begin at 1.                          *)
(***************************************************************************)
EXTENDS Integers, Sequences, FiniteSets

\* at_queue_task_cmd: the command the task is at.
at_queue_task_cmd(task) == task.cmds[task.cindex + 1]

at_queue_head_task(p) == Head(p.at_queue)

\* Only meaningful when the queue is not empty (the code returns NULL).
at_queue_head_cmd(p) == at_queue_task_cmd(at_queue_head_task(p))

QueueEmpty(p) == p.at_queue = <<>>

\* Mutant: at_queue_run does not look whether the command was written before.
HeadUnwritten_written_too(p) == ~QueueEmpty(p)

\* The head command still has its text: the next at_queue_run writes it.
HeadUnwritten(p) == ~QueueEmpty(p) /\ at_queue_head_cmd(p).length > 0

\* The head command was written and waits for its result.
HeadWritten(p) == ~QueueEmpty(p) /\ at_queue_head_cmd(p).length = 0

NewTask(id, cpvt, job) ==
    [id |-> id, cpvt |-> cpvt, cmds |-> job.cmds, cindex |-> 0]

\* Mutant: a prio task goes before the head.
Inserted_before_head(q, task, athead) ==
    IF athead THEN <<task>> \o q ELSE Append(q, task)

\* A prio task goes directly behind the head, any other one to the tail.
Inserted(q, task, athead) ==
    IF athead /\ q # <<>> THEN <<Head(q), task>> \o Tail(q) ELSE Append(q, task)

at_queue_add(p, task, athead) ==
    [p EXCEPT !.at_queue = Inserted(@, task, athead),
              !.at_tasks = @ + 1,
              !.at_cmds  = @ + Len(task.cmds)]

\* Mutant: the commands the task was done with are counted off again.
at_queue_remove_counting_all(p) ==
    IF QueueEmpty(p) THEN p
    ELSE [p EXCEPT !.at_queue = Tail(@),
                   !.at_tasks = @ - 1,
                   !.at_cmds  = @ - Len(at_queue_head_task(p).cmds)]

\* The head task leaves the queue with all the commands it has left.
at_queue_remove(p) ==
    IF QueueEmpty(p) THEN p
    ELSE LET task == at_queue_head_task(p)
         IN  [p EXCEPT !.at_queue = Tail(@),
                       !.at_tasks = @ - 1,
                       !.at_cmds  = @ - (Len(task.cmds) - task.cindex)]

\* Mutant: a task goes on whatever the result was.
TaskOver_at_end_only(p, res) ==
    at_queue_head_task(p).cindex + 1 >= Len(at_queue_head_task(p).cmds)

\* After result res the head task has nothing more to do: it is at its last
\* command, or it did not get what it waits for and does not ignore that.
TaskOver(p, res) ==
    LET task == at_queue_head_task(p)
        cmd  == at_queue_task_cmd(task)
    IN  \/ task.cindex + 1 >= Len(task.cmds)
        \/ cmd.res # res /\ ~cmd.ign

\* Mutant: the command counter of the task runs backwards.
at_queue_remove_cmd_backwards(p, res) ==
    IF QueueEmpty(p) THEN p
    ELSE LET done == [p EXCEPT !.at_queue[1].cindex = @ - 1,
                               !.at_cmds = @ - 1]
         IN  IF TaskOver(p, res) THEN at_queue_remove(done) ELSE done

\* The head command is done with; its task follows when it is over.
at_queue_remove_cmd(p, res) ==
    IF QueueEmpty(p) THEN p
    ELSE LET done == [p EXCEPT !.at_queue[1].cindex = @ + 1,
                               !.at_cmds = @ - 1]
         IN  IF TaskOver(p, res) THEN at_queue_remove(done) ELSE done

\* The text of the head command was written and is freed: length 0 is what
\* marks a command that waits for its result.
MarkWritten(p) ==
    [p EXCEPT !.at_queue[1].cmds[p.at_queue[1].cindex + 1].length = 0]

\* The "result" a command gets whose write failed: res + 1, never the
\* expected one.
WRITE_FAILED == "WRITE_FAILED"

\* The pvt after at_queue_run; ok says whether write_all() would succeed.
at_queue_run(p, ok) ==
    CASE HeadUnwritten(p) /\ ok  -> MarkWritten(p)
      [] HeadUnwritten(p) /\ ~ok -> at_queue_remove_cmd(p, WRITE_FAILED)
      [] OTHER                   -> p

\* at_queue_run put the head command on the wire / returned non-zero.
RunWrites(p, ok) == HeadUnwritten(p) /\ ok
RunFails(p, ok)  == HeadUnwritten(p) /\ ~ok

\* The commands queued and not done with, as <<task, number>> pairs.
TaskPending(task)   == {task.id} \X ((task.cindex + 1) .. Len(task.cmds))
PendingCmds(q) == UNION {TaskPending(q[i]) : i \in DOMAIN q}

\* Mutant: the queue survives a disconnect.
at_queue_flush_nothing(p) == p

\* at_queue_remove until nothing is left, in closed form.
at_queue_flush(p) ==
    [p EXCEPT !.at_queue = <<>>,
              !.at_tasks = @ - Len(p.at_queue),
              !.at_cmds  = @ - Cardinality(PendingCmds(p.at_queue))]
=============================================================================
