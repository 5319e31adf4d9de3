------------------------------ MODULE AtQueue ------------------------------
(***************************************************************************)
(* The AT command channel of one device: its command queue (at_queue.c),   *)
(* the threads that queue jobs, the monitor thread that reads the modem's  *)
(* results and moves the queue on (do_monitor_phone and the final-result   *)
(* handlers of at_response.c), and the modem behind the tty.               *)
(*                                                                         *)
(* The monitor's main loop does not hold the pvt lock, so any other thread *)
(* may queue a job between a handler and the at_queue_run that follows it: *)
(* these are two steps here.                                               *)
(***************************************************************************)
EXTENDS AtCommands, AtQueueOps

CONSTANTS
    TaskId,     \* addresses the heap may give to a task
    Cpvt,       \* call contexts jobs are queued for, the system's among them
    sys_chan,   \* pvt->sys_chan
    Jobs,       \* the jobs threads may queue
    InitJob,    \* at_enque_initialization's job
    MaxLate,    \* bound: commands that survive a reconnect unanswered
    Faults      \* what may go wrong: "write" a write() to the tty fails,
                \* "late" the modem answers what it was told before a reconnect,
                \* "chatty" it says things nobody asked for (^RSSI, RING...)

\* A command of the queue; one that nobody has written yet has length 1.
CommandsOfLength(lengths) ==
    [cmd : at_cmd_t, res : {"OK", "CMGR", "SMS_PROMPT"}, ign : BOOLEAN, length : lengths]

\* The text of an SMS waits for OK and follows a command that waits for the
\* prompt; that one has a text behind it and puts up with nothing but the prompt.
TextsPrompted(cmds) ==
    \A k \in DOMAIN cmds :
       /\ cmds[k].cmd = "SMSTEXT" => /\ cmds[k].res = "OK"
                                     /\ k > 1
                                     /\ cmds[k - 1].res = "SMS_PROMPT"
       /\ cmds[k].res = "SMS_PROMPT" => /\ ~cmds[k].ign
                                        /\ k < Len(cmds)
                                        /\ cmds[k + 1].cmd = "SMSTEXT"

IsJob(job) == /\ job.cmds \in Seq(CommandsOfLength({1}))
              /\ job.cmds # <<>>
              /\ job.athead \in BOOLEAN
              /\ TextsPrompted(job.cmds)

ASSUME MaxLateAssumption == MaxLate \in Nat
ASSUME SysChanAssumption == sys_chan \in Cpvt
ASSUME JobsAssumption    == \A job \in Jobs : IsJob(job)
ASSUME InitJobAssumption == IsJob(InitJob)

\* What stands for the owner of the line when it has none.
NoTask == "none"
ASSUME NoTaskAssumption == NoTask \notin TaskId

VARIABLES
    pvt,        \* the queue and its counters, see AtQueueOps
    monitor,    \* where the monitor thread is: "off" (no connection), "top" of
                \* its loop, "wait" (in at_wait), "read" (before the next
                \* result), "run" (before at_queue_run), "timeout" (at_wait
                \* returned 0), "cleanup"
    timer,      \* what at_wait waits for: the head command's "deadline", or
                \* the "idle" timeout pvt->timeout
    expired,    \* the deadline of the written head command has passed
    line,       \* commands written to data_fd the modem has not answered
    answers,    \* final results the modem gave that were not read yet
    prompt      \* the modem showed "> " and waits for the text of an SMS

vars == <<pvt, monitor, timer, expired, line, answers, prompt>>

Init ==
    /\ pvt = [at_queue |-> <<>>, at_tasks |-> 0, at_cmds |-> 0]
    /\ monitor = "off"
    /\ timer = "idle"
    /\ expired = FALSE
    /\ line = <<>>
    /\ answers = <<>>
    /\ prompt = FALSE

-----------------------------------------------------------------------------
(* Queueing and writing                                                    *)

LiveIds(q) == {q[i].id : i \in DOMAIN q}

\* The command at_write puts on the line: which one of which task it is.
OnLine(p) ==
    LET task == at_queue_head_task(p)
    IN  [id  |-> task.id, no |-> task.cindex + 1,
         cmd |-> at_queue_task_cmd(task).cmd, res |-> at_queue_task_cmd(task).res]

\* The queue becomes p: what is kept about tasks that left it goes with them.
\* A command's deadline is set anew when it is written.
QueueBecomes(p) ==
    /\ pvt' = p
    /\ expired' = (expired /\ HeadWritten(p))

\* The line after at_queue_run on the queue p.
LineAfter(p, ok) == IF RunWrites(p, ok) THEN Append(line, OnLine(p)) ELSE line

\* at_queue_run on the queue p, with the write succeeding (ok) or not.
Run(p, ok) ==
    /\ ok \/ "write" \in Faults
    /\ QueueBecomes(at_queue_run(p, ok))
    /\ line' = LineAfter(p, ok)

\* at_queue_insert_task, at_queue_insert, at_queue_insert_const: add and run.
\* What the caller is told is about the run, which may have been of another
\* task's command.
Insert(cpvt, job, id, ok) ==
    Run(at_queue_add(pvt, NewTask(id, cpvt, job), job.athead), ok)

FreshIds == TaskId \ LiveIds(pvt.at_queue)

\* Any thread with a job for a connected device, the monitor's own handlers
\* of unsolicited results among them.
InsertJob ==
    /\ monitor # "off"
    /\ \E cpvt \in Cpvt, job \in Jobs, id \in FreshIds, ok \in BOOLEAN :
          Insert(cpvt, job, id, ok)
    /\ UNCHANGED <<monitor, timer, answers, prompt>>

\* ast_malloc failed in at_queue_add: at_queue_insert_task runs the queue
\* all the same, at_queue_insert_const does not (then nothing changes).
InsertNoMemory ==
    /\ monitor # "off"
    /\ \E ok \in BOOLEAN : Run(pvt, ok)
    /\ UNCHANGED <<monitor, timer, answers, prompt>>

-----------------------------------------------------------------------------
(* The monitor thread                                                      *)

\* pvt_start opened the tty; the new thread drops what the modem said before
\* (clean_read_data) and queues the initialisation.  at_enque_initialization
\* ends without a return statement: what it returns is any value, and a
\* non-zero one is taken for an error.
MonitorStart ==
    /\ monitor = "off"
    /\ \E id \in FreshIds, ok \in BOOLEAN : Insert(sys_chan, InitJob, id, ok)
    /\ monitor' \in {"top", "cleanup"}
    /\ answers' = <<>>
    /\ UNCHANGED <<timer, prompt>>

\* The top of the loop: how long to wait.  at_queue_timeout returns -1 unless
\* the head command is written, and a negative number when its deadline has
\* passed already; both give pvt->timeout.
MonitorTop ==
    /\ monitor = "top"
    /\ monitor' = "wait"
    /\ timer' = IF HeadWritten(pvt) /\ ~expired THEN "deadline" ELSE "idle"
    /\ UNCHANGED <<pvt, expired, line, answers, prompt>>

\* The top of the loop: the tty is gone or pvt_stop asks the thread to end.
MonitorStop ==
    /\ monitor = "top"
    /\ monitor' = "cleanup"
    /\ UNCHANGED <<pvt, timer, expired, line, answers, prompt>>

\* at_wait returned because there is something to read; reading may fail.
MonitorWakes ==
    /\ monitor = "wait"
    /\ answers # <<>> \/ "chatty" \in Faults
    /\ monitor' \in {"read", "cleanup"}
    /\ UNCHANGED <<pvt, timer, expired, line, answers, prompt>>

\* Nothing is left in the read buffer.
MonitorDrained ==
    /\ monitor = "read"
    /\ monitor' = "top"
    /\ UNCHANGED <<pvt, timer, expired, line, answers, prompt>>

\* A result that has nothing to do with the queue: at_queue_run follows it all
\* the same, unless its handler fails (it cannot be parsed, an ^ORIG for no
\* call...).  What its handler queues is InsertJob.
MonitorUnsolicited ==
    /\ monitor = "read"
    /\ "chatty" \in Faults
    /\ monitor' \in {"run", "cleanup"}
    /\ UNCHANGED <<pvt, timer, expired, line, answers, prompt>>

\* at_response_ok
ResponseOk ==
    /\ QueueBecomes(IF ~QueueEmpty(pvt) /\ at_queue_head_cmd(pvt).res \in {"OK", "CMGR"}
                    THEN at_queue_remove_cmd(pvt, "OK") ELSE pvt)
    /\ monitor' = "run"
    /\ UNCHANGED line

\* at_response_sms_prompt
ResponseSmsPrompt ==
    /\ QueueBecomes(IF ~QueueEmpty(pvt) /\ at_queue_head_cmd(pvt).res = "SMS_PROMPT"
                    THEN at_queue_remove_cmd(pvt, "SMS_PROMPT") ELSE pvt)
    /\ monitor' = "run"
    /\ UNCHANGED line

\* at_response_cmgr
ResponseCmgr ==
    /\ QueueBecomes(IF ~QueueEmpty(pvt) /\ (\/ at_queue_head_cmd(pvt).res = "CMGR"
                                            \/ at_queue_head_cmd(pvt).cmd = "USER")
                    THEN at_queue_remove_cmd(pvt, "CMGR") ELSE pvt)
    /\ monitor' = "run"
    /\ UNCHANGED line

\* A failed ATD or AT+CGSN, and a failed AT+CHLD=2 before an ATD, make
\* at_response_error queue AT+CFUN=1,1 (if there is memory) before it moves the
\* queue on.
ResetAfterError ==
    /\ at_queue_head_cmd(pvt).cmd \in {"D", "CGSN", "CHLD_2"}
    /\ \E id \in FreshIds, ok \in BOOLEAN :
          LET added == at_queue_add(pvt, NewTask(id, at_queue_head_task(pvt).cpvt,
                                                 at_enque_cmd_proc), at_enque_cmd_proc.athead)
          IN  /\ ok \/ "write" \in Faults
              /\ QueueBecomes(at_queue_remove_cmd(at_queue_run(added, ok), "ERROR"))
              /\ line' = LineAfter(added, ok)

\* at_response_error.  An error of AT+CNMI is critical while the device is not
\* initialised.
ResponseError ==
    \/ /\ QueueEmpty(pvt)
       /\ QueueBecomes(pvt)
       /\ monitor' = "run"
       /\ UNCHANGED line
    \/ /\ ~QueueEmpty(pvt)
       /\ \/ QueueBecomes(at_queue_remove_cmd(pvt, "ERROR")) /\ UNCHANGED line
          \/ ResetAfterError
       /\ monitor' \in CASE at_queue_head_cmd(pvt).cmd \in CriticalCmds -> {"cleanup"}
                         [] at_queue_head_cmd(pvt).cmd = "CNMI"         -> {"run", "cleanup"}
                         [] OTHER                                       -> {"run"}

\* at_response on the next final result.
MonitorRead ==
    /\ monitor = "read"
    /\ answers # <<>>
    /\ answers' = Tail(answers)
    /\ CASE Head(answers).res = "OK"         -> ResponseOk
         [] Head(answers).res = "SMS_PROMPT" -> ResponseSmsPrompt
         [] Head(answers).res = "CMGR"       -> ResponseCmgr
         [] Head(answers).res = "ERROR"      -> ResponseError
    /\ UNCHANGED <<timer, prompt>>

\* at_queue_run after the handler; a failed write ends the connection.
MonitorRun ==
    /\ monitor = "run"
    /\ \E ok \in BOOLEAN :
          /\ Run(pvt, ok)
          /\ monitor' = IF RunFails(pvt, ok) THEN "cleanup" ELSE "read"
    /\ UNCHANGED <<timer, answers, prompt>>

\* The time the head command was given is over.
DeadlinePasses ==
    /\ HeadWritten(pvt)
    /\ expired' = TRUE
    /\ UNCHANGED <<pvt, monitor, timer, line, answers, prompt>>

\* at_wait timed out.
MonitorTimesOut ==
    /\ monitor = "wait"
    /\ answers = <<>>
    /\ timer = "deadline" => expired
    /\ monitor' = "timeout"
    /\ UNCHANGED <<pvt, timer, expired, line, answers, prompt>>

\* If the pvt lock is free the device is taken for dead when there is a command
\* in the queue, and pinged otherwise.  What came since is not looked at.
MonitorGivesUp ==
    /\ monitor = "timeout"
    /\ ~QueueEmpty(pvt)
    /\ monitor' = "cleanup"
    /\ UNCHANGED <<pvt, timer, expired, line, answers, prompt>>

MonitorPings ==
    /\ monitor = "timeout"
    /\ QueueEmpty(pvt)
    /\ \E id \in FreshIds, ok \in BOOLEAN : Insert(sys_chan, at_enque_ping, id, ok)
    /\ monitor' = "top"
    /\ UNCHANGED <<timer, answers, prompt>>

\* Somebody else has the pvt lock.
MonitorTimeoutLocked ==
    /\ monitor = "timeout"
    /\ monitor' = "top"
    /\ UNCHANGED <<pvt, timer, expired, line, answers, prompt>>

\* disconnect_dongle: the queue is flushed and the tty closed.  Closing it
\* drops what was not read and ends a prompt; a command the modem got may
\* still be answered after a reconnect if "late" is among the faults.
Disconnect ==
    /\ monitor = "cleanup"
    /\ QueueBecomes(at_queue_flush(pvt))
    /\ monitor' = "off"
    /\ line' \in {<<>>} \union (IF "late" \in Faults /\ Len(line) <= MaxLate
                               THEN {line} ELSE {})
    /\ answers' = <<>>
    /\ prompt' = FALSE
    /\ UNCHANGED timer

-----------------------------------------------------------------------------
(* The modem: it answers the commands in the order they were written, each *)
(* by one final result, or not at all.  At the prompt it takes everything  *)
(* for text, and only a text that ends in Ctrl-Z gets it out of there.     *)

AnswersTo(command) ==
    IF prompt THEN {"OK", "ERROR"}
    ELSE IF command.cmd = "SMSTEXT" THEN {"ERROR"}
    ELSE {"ERROR"}
           \union (IF command.res = "SMS_PROMPT" THEN {"SMS_PROMPT"} ELSE {"OK"})
           \union (IF command.res = "CMGR" \/ command.cmd = "USER" THEN {"CMGR"} ELSE {})

ModemAnswers ==
    /\ line # <<>>
    /\ LET command == Head(line)
       IN  /\ prompt => command.cmd = "SMSTEXT"
           /\ \E res \in AnswersTo(command) :
                 /\ answers' = Append(answers, [id |-> command.id, no |-> command.no,
                                                res |-> res])
                 /\ prompt' = (res = "SMS_PROMPT")
    /\ line' = Tail(line)
    /\ UNCHANGED <<pvt, monitor, timer, expired>>

-----------------------------------------------------------------------------
MonitorNext ==
    \/ MonitorStart \/ MonitorTop \/ MonitorStop
    \/ MonitorWakes \/ MonitorRead \/ MonitorUnsolicited \/ MonitorDrained
    \/ MonitorRun
    \/ MonitorTimesOut \/ MonitorGivesUp \/ MonitorPings \/ MonitorTimeoutLocked
    \/ Disconnect

Next == InsertJob \/ InsertNoMemory \/ MonitorNext \/ ModemAnswers \/ DeadlinePasses

Spec == Init /\ [][Next]_vars

\* The monitor thread runs, and so does time.  It empties its buffer faster
\* than the tty fills it and meets what the modem answered on the way (SF), and
\* it gets the lock sooner or later when it keeps trying (SF).  Nothing is
\* assumed of the modem or of the other threads.
FairSpec ==
    /\ Spec
    /\ WF_vars(MonitorTop)
    /\ WF_vars(MonitorWakes)
    /\ SF_vars(MonitorRead)
    /\ SF_vars(MonitorDrained)
    /\ WF_vars(MonitorRun)
    /\ WF_vars(DeadlinePasses)
    /\ WF_vars(MonitorTimesOut)
    /\ SF_vars(MonitorGivesUp)
    /\ WF_vars(Disconnect)

-----------------------------------------------------------------------------
(* Properties                                                              *)

Tasks == [id : TaskId, cpvt : Cpvt, cmds : Seq(CommandsOfLength({0, 1})), cindex : Nat]
Results == {"OK", "ERROR", "SMS_PROMPT", "CMGR"}

\* Types of the queue, of the counters and of what is on the wire.
TypeOK ==
    /\ pvt \in [at_queue : Seq(Tasks), at_tasks : Int, at_cmds : Int]
    /\ monitor \in {"off", "top", "wait", "read", "run", "timeout", "cleanup"}
    /\ timer \in {"deadline", "idle"}
    /\ expired \in BOOLEAN
    /\ line \in Seq([id : TaskId, no : Nat, cmd : at_cmd_t,
                     res : {"OK", "CMGR", "SMS_PROMPT"}])
    /\ answers \in Seq([id : TaskId, no : Nat, res : Results])
    /\ prompt \in BOOLEAN

\* chan_dongle.h: at_tasks is the "number of active tasks in at_queue", at_cmds
\* the "number of active commands in at_queue", through every insertion, jump
\* behind the head, abandoned task and flush.
CountersExact ==
    /\ pvt.at_tasks = Len(pvt.at_queue)
    /\ pvt.at_cmds = Cardinality(PendingCmds(pvt.at_queue))

\* Nobody but the head of the queue has begun: no other task has had a command
\* written or done with, and of the head no command after the current one was
\* written.  A job that jumps behind the head never gets before or into it.
Unbegun(task) == task.cindex = 0 /\ \A j \in DOMAIN task.cmds : task.cmds[j].length = 1

HeadAloneBegun(q) ==
    \A i \in DOMAIN q :
       IF i = 1 THEN \A j \in DOMAIN q[i].cmds :
                        j > q[i].cindex + 1 => q[i].cmds[j].length = 1
                ELSE Unbegun(q[i])

OnlyHeadBegun == HeadAloneBegun(pvt.at_queue)

\* A result the monitor is about to read belongs to the command at the head of
\* the queue, which is written and waiting: no result is credited to another
\* command, none comes for a task that is gone.
AnswerIsForHead ==
    \A k \in DOMAIN answers :
       /\ k = 1
       /\ HeadWritten(pvt)
       /\ answers[k].id = at_queue_head_task(pvt).id
       /\ answers[k].no = at_queue_head_task(pvt).cindex + 1

\* The modem never has two commands: while it works on one (or its result is
\* unread) nothing else is written.
HalfDuplex == Len(line) + Len(answers) <= 1

\* What is written while the modem is at the SMS prompt is the text of the
\* SMS, and the text of an SMS is written at the prompt only: nothing is sent as
\* a message that is not one, and no message is taken for a command.
PromptDiscipline ==
    line # <<>> => (Head(line).cmd = "SMSTEXT" <=> prompt)

\* Whatever the modem does, the head of the queue does not stay for ever: it
\* is answered, or the monitor's timeout drops it with the connection.
HeadMovesOn ==
    \A id \in TaskId :
       (~QueueEmpty(pvt) /\ at_queue_head_task(pvt).id = id)
          ~> (QueueEmpty(pvt) \/ at_queue_head_task(pvt).id # id)

\* at_queue.h:27 says of a command's timeout that it is "started at time when
\* command actually written on device": a command that has had its time does not
\* keep the queue, of a modem that goes on talking (^RSSI, ^BOOT...) either.
DeadlineKept ==
    \A id \in TaskId :
       (expired /\ ~QueueEmpty(pvt) /\ at_queue_head_task(pvt).id = id)
          ~> (QueueEmpty(pvt) \/ at_queue_head_task(pvt).id # id)

\* The channel implements AtLine: the line has one owner at a time.  The owner
\* is the head task once it has begun.
Begun(p) == ~QueueEmpty(p) /\ ~Unbegun(at_queue_head_task(p))
LineOwner(p) == IF Begun(p) THEN at_queue_head_task(p).id ELSE NoTask
LinePos(p)   == IF Begun(p) THEN at_queue_head_task(p).cindex ELSE 0
LineBusy     == line # <<>> \/ answers # <<>>

Line == INSTANCE AtLine WITH
    Task <- TaskId, owner <- LineOwner(pvt), pos <- LinePos(pvt), busy <- LineBusy

LineSpec == Line!Spec

-----------------------------------------------------------------------------
(* The inductive invariant the proofs of AtQueue_proofs rest on            *)

\* A task is at one of its commands, and its texts follow the prompt.
TaskWellFormed(task) ==
    /\ task.cindex < Len(task.cmds)
    /\ TextsPrompted(task.cmds)

IdsUnique(q) == \A i, j \in DOMAIN q : q[i].id = q[j].id => i = j

\* What the operations of the queue rely on and keep.
QueueOK(p) ==
    /\ p \in [at_queue : Seq(Tasks), at_tasks : Int, at_cmds : Int]
    /\ \A i \in DOMAIN p.at_queue : TaskWellFormed(p.at_queue[i])
    /\ IdsUnique(p.at_queue)
    /\ HeadAloneBegun(p.at_queue)

\* What the modem works on, or has answered, is the head command of p.
WireOf(p, l, a) ==
    \/ l = <<>> /\ a = <<>>
    \/ HeadWritten(p) /\ l = <<OnLine(p)>> /\ a = <<>>
    \/ /\ HeadWritten(p) /\ l = <<>>
       /\ \E res \in Results :
             /\ a = <<[id |-> OnLine(p).id, no |-> OnLine(p).no, res |-> res]>>
             /\ \/ res = "ERROR"
                \/ res = "OK" /\ at_queue_head_cmd(p).res # "SMS_PROMPT"
                \/ res = at_queue_head_cmd(p).res
                \/ res = "CMGR" /\ at_queue_head_cmd(p).cmd = "USER"

WireIsHead == WireOf(pvt, line, answers)

\* Nothing is queued or under way without a connection.
OffIsEmpty == monitor = "off" => QueueEmpty(pvt) /\ line = <<>> /\ answers = <<>>

\* The modem is at the SMS prompt as long as the text is what the queue is at,
\* from the moment it shows the prompt to its answer to the text.
PromptIsForText ==
    prompt <=> \/ answers # <<>> /\ Head(answers).res = "SMS_PROMPT"
               \/ /\ answers = <<>>
                  /\ ~QueueEmpty(pvt)
                  /\ at_queue_head_cmd(pvt).cmd = "SMSTEXT"

\* True whatever goes wrong.
QueueInv == TypeOK /\ QueueOK(pvt) /\ CountersExact

\* True without the fault "late"...
IInv == QueueInv /\ WireIsHead /\ OffIsEmpty

\* ... and this one without "write" too.
PromptInv == IInv /\ PromptIsForText
=============================================================================
