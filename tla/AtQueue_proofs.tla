--------------------------- MODULE AtQueue_proofs ---------------------------
(***************************************************************************)
(* What holds of the AT channel for any set of tasks, call contexts, jobs  *)
(* and faults.                                                             *)
(***************************************************************************)
EXTENDS AtQueueOps_proofs

-----------------------------------------------------------------------------
(* Steps of the queue                                                      *)

LEMMA OwnJobs ==
    IsJob(at_enque_ping) /\ IsJob(at_enque_cmd_proc)
<1>1. /\ STI("AT") \in CommandsOfLength({1})
      /\ STI("AT").cmd # "SMSTEXT" /\ STI("AT").res = "OK"
      /\ ST("USER") \in CommandsOfLength({1})
      /\ ST("USER").cmd # "SMSTEXT" /\ ST("USER").res = "OK"
  BY DEF STI, ST, Command, CommandsOfLength, at_cmd_t
<1>2. \A c \in CommandsOfLength({1}) : c.cmd # "SMSTEXT" /\ c.res = "OK" =>
         \A athead \in BOOLEAN : IsJob(Job(<<c>>, athead))
  <2>. SUFFICES ASSUME NEW c \in CommandsOfLength({1}), c.cmd # "SMSTEXT", c.res = "OK",
                       NEW athead \in BOOLEAN
                PROVE  IsJob(Job(<<c>>, athead))
    OBVIOUS
  <2>1. /\ <<c>> \in Seq(CommandsOfLength({1})) /\ <<c>> # <<>>
        /\ DOMAIN <<c>> = {1} /\ <<c>>[1] = c
    OBVIOUS
  <2>2. Job(<<c>>, athead).cmds = <<c>> /\ Job(<<c>>, athead).athead = athead
    BY DEF Job
  <2>3. TextsPrompted(<<c>>)
    BY <2>1 DEF TextsPrompted
  <2>. QED  BY <2>1, <2>2, <2>3 DEF IsJob
<1>. QED  BY <1>1, <1>2 DEF at_enque_ping, at_enque_cmd_proc

LiveLine == [id : TaskId, no : Nat, cmd : at_cmd_t, res : {"OK", "CMGR", "SMS_PROMPT"}]

LEMMA OnLineType ==
    ASSUME NEW p, QueueOK(p), ~QueueEmpty(p)
    PROVE  OnLine(p) \in LiveLine
<1>1. /\ at_queue_head_task(p) \in Tasks
      /\ at_queue_head_cmd(p) \in CommandsOfLength({0, 1})
  BY HeadIsTask
<1>. QED  BY <1>1 DEF OnLine, LiveLine, at_queue_head_cmd, Tasks, CommandsOfLength

LEMMA LiveIdsType ==
    ASSUME NEW p, QueueOK(p)
    PROVE  LiveIds(p.at_queue) \subseteq TaskId
<1>1. \A i \in DOMAIN p.at_queue : p.at_queue[i] \in Tasks
  BY DEF QueueOK
<1>2. \A task \in Tasks : task.id \in TaskId
  BY DEF Tasks
<1>. QED  BY <1>1, <1>2 DEF LiveIds

\* What a step of at_queue_run on the queue p leaves.
LEMMA RunStep ==
    ASSUME QueueInv, NEW p, QueueOK(p), Counted(p), NEW ok \in BOOLEAN, Run(p, ok)
    PROVE  /\ QueueOK(pvt') /\ CountersExact'
           /\ expired' \in BOOLEAN
           /\ line' \in Seq(LiveLine)
           /\ LiveIds(pvt'.at_queue) \subseteq LiveIds(p.at_queue)
           /\ LiveIds(pvt'.at_queue) \subseteq TaskId
<1>1. pvt' = at_queue_run(p, ok)
  BY DEF Run, LineAfter, QueueBecomes
<1>2. QueueOK(pvt') /\ Counted(pvt') /\ LiveIds(pvt'.at_queue) \subseteq LiveIds(p.at_queue)
  BY <1>1, RunOK, RunCounted
<1>3. CountersExact'
  BY <1>2 DEF Counted, CountersExact
<1>4. line' \in Seq(LiveLine)
  <2>1. line \in Seq(LiveLine)
    BY DEF QueueInv, TypeOK, LiveLine
  <2>2. HeadUnwritten(p) => OnLine(p) \in LiveLine
    BY OnLineType DEF HeadUnwritten
  <2>. QED  BY <2>1, <2>2 DEF Run, LineAfter, RunWrites
<1>5. expired' \in BOOLEAN
  BY DEF Run, LineAfter, QueueBecomes
<1>. QED  BY <1>2, <1>3, <1>4, <1>5, LiveIdsType

LEMMA InsertStep ==
    ASSUME QueueInv, NEW cpvt \in Cpvt, NEW job, IsJob(job), NEW id \in FreshIds,
           NEW ok \in BOOLEAN, Insert(cpvt, job, id, ok)
    PROVE  /\ QueueOK(pvt') /\ CountersExact'
           /\ expired' \in BOOLEAN
           /\ line' \in Seq(LiveLine)
<1>. DEFINE added == at_queue_add(pvt, NewTask(id, cpvt, job), job.athead)
<1>1. QueueOK(pvt) /\ Counted(pvt)
  BY DEF QueueInv, CountersExact, Counted
<1>2. QueueOK(added) /\ Counted(added)
  BY <1>1, AddOK, AddCounted DEF FreshIds
<1>3. Run(added, ok)
  BY DEF Insert
<1>. HIDE DEF added
<1>. QED  BY <1>2, <1>3, RunStep

\* What removing the head's command after a result leaves.
LEMMA RemoveStep ==
    ASSUME NEW p, QueueOK(p), Counted(p), NEW res,
           QueueBecomes(at_queue_remove_cmd(p, res))
    PROVE  /\ QueueOK(pvt') /\ CountersExact'
           /\ expired' \in BOOLEAN
           /\ LiveIds(pvt'.at_queue) \subseteq TaskId
<1>1. CASE QueueEmpty(p)
  BY <1>1, LiveIdsType DEF QueueBecomes, Counted, CountersExact, at_queue_remove_cmd
<1>2. CASE ~QueueEmpty(p)
  BY <1>2, LiveIdsType, RemoveCmdOK, RemoveCmdCounted DEF QueueBecomes, Counted, CountersExact
<1>. QED  BY <1>1, <1>2

\* The reset adds a task, runs the queue and removes a command from it.
LEMMA ResetStep ==
    ASSUME QueueInv, ~QueueEmpty(pvt), ResetAfterError
    PROVE  /\ QueueOK(pvt') /\ CountersExact'
           /\ expired' \in BOOLEAN
           /\ line' \in Seq(LiveLine)
           /\ LiveIds(pvt'.at_queue) \subseteq TaskId
<1>. DEFINE Added(id) == at_queue_add(pvt, NewTask(id, at_queue_head_task(pvt).cpvt,
                                                   at_enque_cmd_proc), at_enque_cmd_proc.athead)
<1>1. PICK id \in FreshIds, ok \in BOOLEAN :
         /\ QueueBecomes(at_queue_remove_cmd(at_queue_run(Added(id), ok), "ERROR"))
         /\ line' = LineAfter(Added(id), ok)
  BY DEF ResetAfterError
<1>2. QueueOK(pvt) /\ Counted(pvt)
  BY DEF QueueInv, CountersExact, Counted
<1>3. at_queue_head_task(pvt).cpvt \in Cpvt
  BY <1>2, HeadIsTask DEF Tasks
<1>4. QueueOK(Added(id)) /\ Counted(Added(id))
  BY <1>2, <1>3, OwnJobs, AddOK, AddCounted DEF FreshIds
<1>. HIDE DEF Added
<1>5. QueueOK(at_queue_run(Added(id), ok)) /\ Counted(at_queue_run(Added(id), ok))
  BY <1>4, RunOK, RunCounted
<1>6. line' \in Seq(LiveLine)
  <2>1. line \in Seq(LiveLine)
    BY DEF QueueInv, TypeOK, LiveLine
  <2>2. HeadUnwritten(Added(id)) => OnLine(Added(id)) \in LiveLine
    BY <1>4, OnLineType DEF HeadUnwritten
  <2>. QED  BY <1>1, <2>1, <2>2 DEF LineAfter, RunWrites
<1>. QED  BY <1>1, <1>5, <1>6, RemoveStep

LEMMA ReadStep ==
    ASSUME QueueInv, MonitorRead
    PROVE  /\ QueueOK(pvt') /\ CountersExact'
           /\ expired' \in BOOLEAN
           /\ line' \in Seq(LiveLine)
           /\ monitor' \in {"run", "cleanup"}
           /\ LiveIds(pvt'.at_queue) \subseteq TaskId
<1>. DEFINE Kept == /\ QueueOK(pvt') /\ CountersExact' /\ expired' \in BOOLEAN
                    /\ LiveIds(pvt'.at_queue) \subseteq TaskId
<1>1. QueueOK(pvt) /\ Counted(pvt) /\ line \in Seq(LiveLine)
  BY DEF QueueInv, CountersExact, Counted, TypeOK, LiveLine
<1>2. ASSUME QueueBecomes(pvt) PROVE Kept
  BY <1>1, <1>2, LiveIdsType DEF QueueBecomes, Counted, CountersExact
<1>3. ASSUME NEW res, QueueBecomes(at_queue_remove_cmd(pvt, res)) PROVE Kept
  BY <1>1, <1>3, RemoveStep
<1>. HIDE DEF Kept
<1>4. CASE ResponseOk
  <2>1. Kept
    BY <1>2, <1>3, <1>4 DEF ResponseOk
  <2>. QED  BY <1>1, <1>4, <2>1 DEF ResponseOk, Kept
<1>5. CASE ResponseSmsPrompt
  <2>1. Kept
    BY <1>2, <1>3, <1>5 DEF ResponseSmsPrompt
  <2>. QED  BY <1>1, <1>5, <2>1 DEF ResponseSmsPrompt, Kept
<1>6. CASE ResponseCmgr
  <2>1. Kept
    BY <1>2, <1>3, <1>6 DEF ResponseCmgr
  <2>. QED  BY <1>1, <1>6, <2>1 DEF ResponseCmgr, Kept
<1>7. CASE ResponseError
  <2>1. monitor' \in {"run", "cleanup"}
    BY <1>7 DEF ResponseError
  <2>2. CASE QueueBecomes(pvt) /\ UNCHANGED line
    <3>1. Kept
      BY <1>2, <2>2
    <3>. QED  BY <1>1, <2>1, <2>2, <3>1 DEF Kept
  <2>3. CASE QueueBecomes(at_queue_remove_cmd(pvt, "ERROR")) /\ UNCHANGED line
    <3>1. Kept
      BY <1>3, <2>3
    <3>. QED  BY <1>1, <2>1, <2>3, <3>1 DEF Kept
  <2>4. CASE ~QueueEmpty(pvt) /\ ResetAfterError
    BY <2>1, <2>4, ResetStep
  <2>. QED  BY <1>7, <2>2, <2>3, <2>4 DEF ResponseError
<1>8. Head(answers).res \in Results
  <2>1. answers \in Seq([id : TaskId, no : Nat, res : Results]) /\ answers # <<>>
    BY DEF MonitorRead, QueueInv, TypeOK
  <2>2. Head(answers) \in [id : TaskId, no : Nat, res : Results]
    BY <2>1, HeadTailProperties
  <2>. QED  BY <2>2
<1>9. ResponseOk \/ ResponseSmsPrompt \/ ResponseCmgr \/ ResponseError
  BY <1>8 DEF MonitorRead, Results
<1>. QED  BY <1>4, <1>5, <1>6, <1>7, <1>9

-----------------------------------------------------------------------------
(* The queue, whatever goes wrong                                          *)

LEMMA InitQueueInv == Init => QueueInv
<1>. SUFFICES ASSUME Init PROVE QueueInv
  OBVIOUS
<1>1. PendingCmds(<<>>) = {} /\ Cardinality({}) = 0
  BY FS_EmptySet DEF PendingCmds
<1>2. pvt \in [at_queue : Seq(Tasks), at_tasks : Int, at_cmds : Int]
  <2>. DEFINE none == <<>>
  <2>1. none \in Seq(Tasks)
    OBVIOUS
  <2>2. pvt = [at_queue |-> none, at_tasks |-> 0, at_cmds |-> 0]
    BY DEF Init
  <2>. HIDE DEF none
  <2>. QED  BY <2>1, <2>2
<1>3. TypeOK
  <2>. DEFINE none == <<>>
  <2>1. none \in Seq(LiveLine) /\ none \in Seq([id : TaskId, no : Nat, res : Results])
    OBVIOUS
  <2>2. line = none /\ answers = none
    BY DEF Init
  <2>. HIDE DEF none
  <2>. QED  BY <1>2, <2>1, <2>2 DEF Init, TypeOK, LiveLine
<1>4. QueueOK(pvt)
  <2>1. pvt.at_queue = <<>> /\ DOMAIN <<>> = {}
    BY DEF Init
  <2>. QED  BY <1>2, <2>1 DEF QueueOK, IdsUnique, HeadAloneBegun
<1>5. CountersExact
  BY <1>1 DEF Init, CountersExact
<1>. QED  BY <1>3, <1>4, <1>5 DEF QueueInv

LEMMA NextQueueInv == QueueInv /\ [Next]_vars => QueueInv'
<1>. SUFFICES ASSUME QueueInv, [Next]_vars PROVE QueueInv'
  OBVIOUS
<1>0. /\ TypeOK /\ QueueOK(pvt) /\ CountersExact
      /\ Counted(pvt)
      /\ line \in Seq(LiveLine)
      /\ answers \in Seq([id : TaskId, no : Nat, res : Results])
      /\ LiveIds(pvt.at_queue) \subseteq TaskId
  BY LiveIdsType DEF QueueInv, TypeOK, CountersExact, Counted, LiveLine
<1>. DEFINE Good ==
       /\ QueueOK(pvt') /\ CountersExact'
       /\ expired' \in BOOLEAN
       /\ line' \in Seq(LiveLine)
       Rest ==
       /\ monitor' \in {"off", "top", "wait", "read", "run", "timeout", "cleanup"}
       /\ timer' \in {"deadline", "idle"}
       /\ answers' \in Seq([id : TaskId, no : Nat, res : Results])
       /\ prompt' \in BOOLEAN
<1>1. Good /\ Rest => QueueInv'
  BY DEF QueueInv, TypeOK, LiveLine, QueueOK
<1>2. ASSUME UNCHANGED <<pvt, line>>, expired' \in BOOLEAN PROVE Good
  BY <1>0, <1>2 DEF TypeOK, CountersExact
<1>3. ASSUME UNCHANGED <<timer, answers, prompt>>,
             monitor' \in {"off", "top", "wait", "read", "run", "timeout", "cleanup"}
      PROVE  Rest
  BY <1>0, <1>3 DEF TypeOK
<1>. HIDE DEF Good, Rest
<1>4. CASE InsertJob
  <2>1. PICK cpvt \in Cpvt, job \in Jobs, id \in FreshIds, ok \in BOOLEAN :
           Insert(cpvt, job, id, ok)
    BY <1>4 DEF InsertJob
  <2>2. Good
    BY <2>1, InsertStep, JobsAssumption DEF Good
  <2>. QED  BY <1>0, <1>1, <1>3, <1>4, <2>2 DEF InsertJob, TypeOK
<1>5. CASE InsertNoMemory
  <2>1. PICK ok \in BOOLEAN : Run(pvt, ok)
    BY <1>5 DEF InsertNoMemory
  <2>2. Good
    BY <1>0, <1>5, <2>1, RunStep DEF InsertNoMemory, Good, TypeOK
  <2>. QED  BY <1>0, <1>1, <1>3, <1>5, <2>2 DEF InsertNoMemory, TypeOK
<1>6. CASE MonitorStart
  <2>1. PICK id \in FreshIds, ok \in BOOLEAN : Insert(sys_chan, InitJob, id, ok)
    BY <1>6 DEF MonitorStart
  <2>2. Good
    BY <2>1, InsertStep, SysChanAssumption, InitJobAssumption DEF Good
  <2>3. Rest
    BY <1>0, <1>6 DEF MonitorStart, Rest, TypeOK
  <2>. QED  BY <1>1, <2>2, <2>3
<1>7. CASE MonitorTop
  <2>1. Good
    BY <1>0, <1>2, <1>7 DEF MonitorTop, TypeOK
  <2>2. Rest
    BY <1>0, <1>7 DEF MonitorTop, Rest, TypeOK
  <2>. QED  BY <1>1, <2>1, <2>2
<1>8. CASE MonitorStop
  BY <1>0, <1>1, <1>2, <1>3, <1>8 DEF MonitorStop, TypeOK
<1>9. CASE MonitorWakes
  BY <1>0, <1>1, <1>2, <1>3, <1>9 DEF MonitorWakes, TypeOK
<1>10. CASE MonitorDrained
  BY <1>0, <1>1, <1>2, <1>3, <1>10 DEF MonitorDrained, TypeOK
<1>11. CASE MonitorUnsolicited
  BY <1>0, <1>1, <1>2, <1>3, <1>11 DEF MonitorUnsolicited, TypeOK
<1>12. CASE MonitorRead
  <2>1. Good
    BY <1>0, <1>12, ReadStep DEF MonitorRead, Good, TypeOK
  <2>2. Rest
    <3>1. answers' \in Seq([id : TaskId, no : Nat, res : Results])
      BY <1>0, <1>12 DEF MonitorRead
    <3>. QED  BY <1>0, <1>12, <3>1, ReadStep DEF MonitorRead, Rest, TypeOK, LiveLine
  <2>. QED  BY <1>1, <2>1, <2>2
<1>13. CASE MonitorRun
  <2>1. PICK ok \in BOOLEAN :
           Run(pvt, ok) /\ monitor' = IF RunFails(pvt, ok) THEN "cleanup" ELSE "read"
    BY <1>13 DEF MonitorRun
  <2>2. Good
    BY <1>0, <1>13, <2>1, RunStep DEF MonitorRun, Good, TypeOK
  <2>. QED  BY <1>0, <1>1, <1>3, <1>13, <2>1, <2>2 DEF MonitorRun
<1>14. CASE MonitorGivesUp
  BY <1>0, <1>1, <1>2, <1>3, <1>14 DEF MonitorGivesUp, TypeOK
<1>15. CASE MonitorPings
  <2>1. PICK id \in FreshIds, ok \in BOOLEAN : Insert(sys_chan, at_enque_ping, id, ok)
    BY <1>15 DEF MonitorPings
  <2>2. Good
    BY <2>1, InsertStep, SysChanAssumption, OwnJobs DEF Good
  <2>. QED  BY <1>1, <1>3, <1>15, <2>2 DEF MonitorPings
<1>16. CASE MonitorTimeoutLocked
  BY <1>0, <1>1, <1>2, <1>3, <1>16 DEF MonitorTimeoutLocked, TypeOK
<1>17. CASE Disconnect
  <2>1. QueueOK(pvt') /\ CountersExact' /\ expired' \in BOOLEAN
    BY <1>0, <1>17, FlushOK DEF Disconnect, QueueBecomes, Counted, CountersExact
  <2>2. line' \in Seq(LiveLine)
    <3>1. line' = <<>> \/ line' = line
      BY <1>17 DEF Disconnect
    <3>2. <<>> \in Seq(LiveLine)
      OBVIOUS
    <3>. QED  BY <1>0, <3>1, <3>2, Zenon
  <2>3. Good
    BY <2>1, <2>2, <1>17 DEF Disconnect, Good
  <2>4. Rest
    <3>1. <<>> \in Seq([id : TaskId, no : Nat, res : Results])
      OBVIOUS
    <3>2. answers' \in Seq([id : TaskId, no : Nat, res : Results])
      BY <1>17, <3>1, Zenon DEF Disconnect
    <3>. QED  BY <1>0, <1>17, <3>2 DEF Disconnect, Rest, TypeOK
  <2>. QED  BY <1>1, <2>3, <2>4
<1>18. CASE ModemAnswers
  <2>. DEFINE command == Head(line)
  <2>1. /\ command.id \in TaskId /\ command.no \in Nat
        /\ Tail(line) \in Seq(LiveLine)
    <3>1. line # <<>>
      BY <1>18 DEF ModemAnswers
    <3>2. command \in LiveLine /\ Tail(line) \in Seq(LiveLine)
      BY <1>0, <3>1
    <3>. QED  BY <3>2 DEF LiveLine
  <2>2. PICK res \in AnswersTo(command) :
           /\ answers' = Append(answers, [id |-> command.id, no |-> command.no, res |-> res])
           /\ prompt' = (res = "SMS_PROMPT")
    BY <1>18 DEF ModemAnswers
  <2>3. res \in Results
    <3>1. \A r \in AnswersTo(command) : r \in Results
      BY DEF AnswersTo, Results
    <3>. QED  BY <3>1, <2>2
  <2>. HIDE DEF command
  <2>4. [id |-> command.id, no |-> command.no, res |-> res] \in
           [id : TaskId, no : Nat, res : Results]
    BY <2>1, <2>3
  <2>5. Rest
    BY <1>0, <1>18, <2>2, <2>4 DEF ModemAnswers, Rest, TypeOK
  <2>6. Good
    BY <1>0, <1>18, <2>1 DEF ModemAnswers, Good, TypeOK, CountersExact
  <2>. QED  BY <1>1, <2>5, <2>6
<1>19. CASE DeadlinePasses
  BY <1>0, <1>1, <1>2, <1>3, <1>19 DEF DeadlinePasses, TypeOK
<1>21. CASE MonitorTimesOut
  BY <1>0, <1>1, <1>2, <1>3, <1>21 DEF MonitorTimesOut, TypeOK
<1>20. CASE UNCHANGED vars
  BY <1>0, <1>1, <1>2, <1>3, <1>20 DEF vars, TypeOK
<1>. QED
  BY <1>4, <1>5, <1>6, <1>7, <1>8, <1>9, <1>10, <1>11, <1>12, <1>13, <1>14, <1>15,
     <1>16, <1>17, <1>18, <1>19, <1>20, <1>21 DEF Next, MonitorNext

\* Whatever is queued, written, answered, lost or flushed, in whatever order.
LEMMA QueueInvInvariant == Spec => []QueueInv
BY InitQueueInv, NextQueueInv, PTL DEF Spec

\* The queue, its counters and what is on the wire keep their types.
THEOREM QueueTyped == Spec => []TypeOK
<1>1. QueueInv => TypeOK
  BY DEF QueueInv
<1>. QED  BY <1>1, QueueInvInvariant, PTL

\* at_tasks and at_cmds of struct pvt count the tasks that are queued and the
\* commands they have left, through every insertion, abandoned task and flush.
THEOREM CountersAlwaysExact == Spec => []CountersExact
<1>1. QueueInv => CountersExact
  BY DEF QueueInv
<1>. QED  BY <1>1, QueueInvInvariant, PTL

\* Only the head of the queue has begun: a job that jumps behind the head
\* (athead) never gets between two commands of the head.
THEOREM OnlyHeadHasBegun == Spec => []OnlyHeadBegun
<1>1. QueueInv => OnlyHeadBegun
  BY DEF QueueInv, QueueOK, OnlyHeadBegun
<1>. QED  BY <1>1, QueueInvInvariant, PTL

-----------------------------------------------------------------------------
(* The line, when nothing is answered late                                 *)

\* Two queues with the same head task.
LEMMA SameHead ==
    ASSUME NEW p, QueueOK(p), ~QueueEmpty(p), NEW r, QueueOK(r), ~QueueEmpty(r),
           p.at_queue[1] = r.at_queue[1]
    PROVE  /\ HeadWritten(p) <=> HeadWritten(r)
           /\ OnLine(p) = OnLine(r)
           /\ at_queue_head_cmd(p) = at_queue_head_cmd(r)
           /\ at_queue_head_task(p) = at_queue_head_task(r)
           /\ Begun(p) <=> Begun(r)
<1>1. at_queue_head_task(p) = at_queue_head_task(r)
  BY HeadIsTask
<1>. QED  BY <1>1 DEF HeadWritten, OnLine, at_queue_head_cmd, Begun

\* The queue p that at_queue_run is given still has the head of q, if q has one.
KeepsHead(q, p) ==
    /\ QueueOK(q) /\ QueueOK(p)
    /\ ~QueueEmpty(q) => ~QueueEmpty(p) /\ p.at_queue[1] = q.at_queue[1]
    /\ QueueEmpty(q) => ~HeadWritten(p) /\ ~Begun(p)

LEMMA RunWire ==
    ASSUME NEW p, KeepsHead(pvt, p), NEW ok \in BOOLEAN, Run(p, ok),
           WireIsHead, UNCHANGED answers
    PROVE  WireIsHead'
<1>1. pvt' = at_queue_run(p, ok)
  BY DEF Run, LineAfter, QueueBecomes
<1>2. HeadWritten(pvt) => /\ HeadWritten(p) /\ OnLine(p) = OnLine(pvt)
                          /\ at_queue_head_cmd(p) = at_queue_head_cmd(pvt)
  BY SameHead DEF KeepsHead, HeadWritten
<1>3. HeadWritten(p) => HeadWritten(pvt)
  BY SameHead DEF KeepsHead
<1>4. CASE HeadWritten(pvt)
  <2>1. ~HeadUnwritten(p)
    BY <1>2, <1>4, HeadLength DEF KeepsHead
  <2>2. pvt' = p /\ line' = line
    BY <1>1, <2>1, RunOK DEF KeepsHead, Run, LineAfter, RunWrites
  <2>3. WireOf(p, line, answers)
    BY <1>2, <1>4 DEF WireIsHead, WireOf
  <2>. QED  BY <2>2, <2>3 DEF WireIsHead
<1>5. CASE ~HeadWritten(pvt)
  <2>1. line = <<>> /\ answers = <<>>
    BY <1>5 DEF WireIsHead, WireOf
  <2>2. CASE RunWrites(p, ok)
    <3>1. line' = <<OnLine(p)>>
      BY <2>1, <2>2 DEF Run, LineAfter
    <3>2. HeadWritten(pvt') /\ OnLine(pvt') = OnLine(p)
      BY <1>1, <2>2, RunOK DEF KeepsHead
    <3>3. WireOf(pvt', line', answers')
      BY <2>1, <3>1, <3>2 DEF WireOf
    <3>. QED  BY <3>3 DEF WireIsHead
  <2>3. CASE ~RunWrites(p, ok)
    <3>1. line' = <<>>
      BY <2>1, <2>3 DEF Run, LineAfter
    <3>. QED  BY <2>1, <3>1 DEF WireIsHead, WireOf
  <2>. QED  BY <2>2, <2>3
<1>. QED  BY <1>4, <1>5

LEMMA AddKeepsHead ==
    ASSUME QueueOK(pvt), NEW cpvt \in Cpvt, NEW job, IsJob(job), NEW id \in FreshIds
    PROVE  KeepsHead(pvt, at_queue_add(pvt, NewTask(id, cpvt, job), job.athead))
<1>. DEFINE task == NewTask(id, cpvt, job)
            added == at_queue_add(pvt, task, job.athead)
<1>1. /\ QueueOK(added) /\ ~QueueEmpty(added)
      /\ ~QueueEmpty(pvt) => added.at_queue[1] = pvt.at_queue[1]
      /\ QueueEmpty(pvt) => added.at_queue[1] = task
  BY AddOK DEF FreshIds
<1>2. Unbegun(task) /\ at_queue_task_cmd(task).length = 1
  BY NewTaskOK DEF FreshIds
<1>. HIDE DEF added, task
<1>3. QueueEmpty(pvt) => ~HeadWritten(added) /\ ~Begun(added)
  BY <1>1, <1>2, HeadIsTask DEF HeadWritten, Begun, at_queue_head_cmd
<1>. QED  BY <1>1, <1>3 DEF KeepsHead, added, task

LEMMA InsertRuns ==
    ASSUME QueueOK(pvt), NEW cpvt \in Cpvt, NEW job, IsJob(job), NEW id \in FreshIds,
           NEW ok \in BOOLEAN, Insert(cpvt, job, id, ok)
    PROVE  \E p : KeepsHead(pvt, p) /\ Run(p, ok)
BY AddKeepsHead DEF Insert

LEMMA SelfKeepsHead == QueueOK(pvt) => KeepsHead(pvt, pvt)
BY DEF KeepsHead, HeadWritten, Begun

\* Every step that runs the queue runs one with the head it had.
LEMMA RunSteps ==
    ASSUME QueueOK(pvt),
           InsertJob \/ InsertNoMemory \/ MonitorStart \/ MonitorRun \/ MonitorPings
    PROVE  \E p : \E ok \in BOOLEAN : KeepsHead(pvt, p) /\ Run(p, ok)
<1>1. CASE InsertJob
  BY <1>1, InsertRuns, JobsAssumption DEF InsertJob
<1>2. CASE InsertNoMemory
  BY <1>2, SelfKeepsHead DEF InsertNoMemory
<1>3. CASE MonitorStart
  BY <1>3, InsertRuns, SysChanAssumption, InitJobAssumption DEF MonitorStart
<1>4. CASE MonitorRun
  BY <1>4, SelfKeepsHead DEF MonitorRun
<1>5. CASE MonitorPings
  BY <1>5, InsertRuns, SysChanAssumption, OwnJobs DEF MonitorPings
<1>. QED  BY <1>1, <1>2, <1>3, <1>4, <1>5

\* A result that is read was the head's, and it is what the handlers look for.
LEMMA ReadIsForHead ==
    ASSUME QueueOK(pvt), WireIsHead, MonitorRead
    PROVE  /\ HeadWritten(pvt) /\ ~QueueEmpty(pvt)
           /\ line = <<>> /\ answers' = <<>> /\ line' = <<>>
           /\ \E p : /\ KeepsHead(pvt, p)
                    /\ QueueBecomes(at_queue_remove_cmd(p, Head(answers).res))
<1>1. answers # <<>>
  BY DEF MonitorRead
<1>2. PICK res \in Results :
         /\ HeadWritten(pvt) /\ line = <<>>
         /\ answers = <<[id |-> OnLine(pvt).id, no |-> OnLine(pvt).no, res |-> res]>>
         /\ \/ res = "ERROR"
            \/ res = "OK" /\ at_queue_head_cmd(pvt).res # "SMS_PROMPT"
            \/ res = at_queue_head_cmd(pvt).res
            \/ res = "CMGR" /\ at_queue_head_cmd(pvt).cmd = "USER"
  BY <1>1 DEF WireIsHead, WireOf
<1>3. Head(answers).res = res /\ Tail(answers) = <<>>
  <2>. DEFINE a == [id |-> OnLine(pvt).id, no |-> OnLine(pvt).no, res |-> res]
  <2>1. answers = <<a>> /\ a.res = res
    BY <1>2
  <2>. HIDE DEF a
  <2>. QED  BY <2>1
<1>4. ~QueueEmpty(pvt)
  BY <1>2 DEF HeadWritten
<1>5. at_queue_head_cmd(pvt).res \in {"OK", "CMGR", "SMS_PROMPT"}
  BY <1>4, HeadIsTask DEF CommandsOfLength
<1>6. KeepsHead(pvt, pvt)
  BY SelfKeepsHead
<1>7. /\ \E p : KeepsHead(pvt, p) /\ QueueBecomes(at_queue_remove_cmd(p, res))
      /\ UNCHANGED line
  <2>1. CASE res = "OK"
    BY <1>2, <1>3, <1>4, <1>5, <1>6, <2>1 DEF MonitorRead, ResponseOk
  <2>2. CASE res = "SMS_PROMPT"
    BY <1>2, <1>3, <1>4, <1>5, <1>6, <2>2 DEF MonitorRead, ResponseSmsPrompt
  <2>3. CASE res = "CMGR"
    BY <1>2, <1>3, <1>4, <1>5, <1>6, <2>3 DEF MonitorRead, ResponseCmgr
  <2>4. CASE res = "ERROR"
    <3>1. ResponseError
      BY <1>3, <2>4 DEF MonitorRead
    <3>2. CASE QueueBecomes(at_queue_remove_cmd(pvt, "ERROR")) /\ UNCHANGED line
      BY <1>6, <2>4, <3>2
    <3>3. CASE ResetAfterError
      <4>. DEFINE Added(id) == at_queue_add(pvt, NewTask(id, at_queue_head_task(pvt).cpvt,
                                               at_enque_cmd_proc), at_enque_cmd_proc.athead)
      <4>1. PICK id \in FreshIds, ok \in BOOLEAN :
               /\ QueueBecomes(at_queue_remove_cmd(at_queue_run(Added(id), ok), "ERROR"))
               /\ line' = LineAfter(Added(id), ok)
        BY <3>3 DEF ResetAfterError
      <4>2. at_queue_head_task(pvt).cpvt \in Cpvt
        BY <1>4, HeadIsTask DEF Tasks
      <4>3. KeepsHead(pvt, Added(id))
        BY <4>2, OwnJobs, AddKeepsHead
      <4>. HIDE DEF Added
      <4>4. HeadWritten(Added(id)) /\ ~HeadUnwritten(Added(id))
        BY <1>2, <1>4, <4>3, SameHead, HeadLength DEF KeepsHead
      <4>5. at_queue_run(Added(id), ok) = Added(id) /\ UNCHANGED line
        BY <4>1, <4>4 DEF at_queue_run, LineAfter, RunWrites
      <4>. QED  BY <2>4, <4>1, <4>3, <4>5
    <3>. QED  BY <1>4, <3>1, <3>2, <3>3 DEF ResponseError
  <2>. QED  BY <1>2, <2>1, <2>2, <2>3, <2>4 DEF Results
<1>8. answers' = <<>> /\ line' = <<>>
  BY <1>2, <1>3, <1>7 DEF MonitorRead
<1>. QED  BY <1>2, <1>3, <1>4, <1>7, <1>8

LEMMA NextWire ==
    ASSUME "late" \notin Faults, QueueInv, WireIsHead, OffIsEmpty, [Next]_vars
    PROVE  WireIsHead' /\ OffIsEmpty'
<1>. USE DEF QueueInv
<1>1. CASE InsertJob \/ InsertNoMemory \/ MonitorStart \/ MonitorRun \/ MonitorPings
  <2>1. PICK p : \E ok \in BOOLEAN : KeepsHead(pvt, p) /\ Run(p, ok)
    BY <1>1, RunSteps
  <2>2. UNCHANGED answers
    BY <1>1 DEF InsertJob, InsertNoMemory, MonitorStart, MonitorRun, MonitorPings, OffIsEmpty
  <2>3. monitor' # "off"
    BY <1>1 DEF InsertJob, InsertNoMemory, MonitorStart, MonitorRun, MonitorPings
  <2>. QED  BY <2>1, <2>2, <2>3, RunWire DEF OffIsEmpty
<1>2. CASE MonitorRead
  <2>1. monitor' # "off"
    BY <1>2, ReadStep
  <2>. QED  BY <1>2, <2>1, ReadIsForHead DEF OffIsEmpty, WireIsHead, WireOf
<1>3. CASE Disconnect
  <2>1. line' = <<>> /\ answers' = <<>>
    BY <1>3 DEF Disconnect
  <2>2. QueueEmpty(pvt')
    BY <1>3, FlushOK DEF Disconnect, QueueBecomes
  <2>. QED  BY <2>1, <2>2 DEF WireIsHead, WireOf, OffIsEmpty
<1>4. CASE ModemAnswers
  <2>1. /\ line # <<>> /\ pvt' = pvt /\ monitor' = monitor /\ line' = Tail(line)
    BY <1>4 DEF ModemAnswers
  <2>2. HeadWritten(pvt) /\ line = <<OnLine(pvt)>> /\ answers = <<>>
    BY <2>1 DEF WireIsHead, WireOf
  <2>3. Head(line) = OnLine(pvt) /\ line' = <<>>
    <3>. DEFINE x == OnLine(pvt)
    <3>1. line = <<x>>
      BY <2>2
    <3>. HIDE DEF x
    <3>. QED  BY <3>1, <2>1 DEF x
  <2>4. PICK res \in AnswersTo(Head(line)) :
           answers' = Append(answers, [id |-> Head(line).id, no |-> Head(line).no, res |-> res])
    BY <1>4 DEF ModemAnswers
  <2>5. answers' = <<[id |-> OnLine(pvt).id, no |-> OnLine(pvt).no, res |-> res]>>
    <3>. DEFINE a == [id |-> OnLine(pvt).id, no |-> OnLine(pvt).no, res |-> res]
    <3>1. answers' = Append(<<>>, a)
      BY <2>2, <2>3, <2>4
    <3>. HIDE DEF a
    <3>. QED  BY <3>1 DEF a
  <2>6. /\ at_queue_head_cmd(pvt).cmd = OnLine(pvt).cmd
        /\ at_queue_head_cmd(pvt).res = OnLine(pvt).res
        /\ OnLine(pvt).res \in {"OK", "CMGR", "SMS_PROMPT"}
        /\ OnLine(pvt).cmd = "SMSTEXT" => OnLine(pvt).res = "OK"
    <3>1. ~QueueEmpty(pvt)
      BY <2>2 DEF HeadWritten
    <3>2. /\ at_queue_head_cmd(pvt).cmd = OnLine(pvt).cmd
          /\ at_queue_head_cmd(pvt).res = OnLine(pvt).res
      BY DEF OnLine, at_queue_head_cmd
    <3>3. at_queue_head_cmd(pvt) \in CommandsOfLength({0, 1})
      BY <3>1, HeadIsTask
    <3>4. at_queue_head_cmd(pvt).cmd = "SMSTEXT" => at_queue_head_cmd(pvt).res = "OK"
      BY <3>1, HeadIsTask DEF TaskWellFormed, TextsPrompted
    <3>. QED  BY <3>2, <3>3, <3>4 DEF CommandsOfLength
  <2>7. prompt => OnLine(pvt).cmd = "SMSTEXT"
    BY <1>4, <2>3 DEF ModemAnswers
  <2>8. /\ res \in Results
        /\ \/ res = "ERROR"
           \/ res = "OK" /\ at_queue_head_cmd(pvt).res # "SMS_PROMPT"
           \/ res = at_queue_head_cmd(pvt).res
           \/ res = "CMGR" /\ at_queue_head_cmd(pvt).cmd = "USER"
    <3>. DEFINE c == OnLine(pvt)
    <3>1. res \in AnswersTo(c)
      BY <2>3
    <3>2. /\ c.res \in {"OK", "CMGR", "SMS_PROMPT"}
          /\ c.cmd = "SMSTEXT" => c.res = "OK"
          /\ prompt => c.cmd = "SMSTEXT"
      BY <2>6, <2>7
    <3>. HIDE DEF c
    <3>3. /\ res \in Results
          /\ \/ res = "ERROR"
             \/ res = "OK" /\ c.res # "SMS_PROMPT"
             \/ res = c.res
             \/ res = "CMGR" /\ c.cmd = "USER"
      <4>1. CASE prompt \/ c.cmd = "SMSTEXT"
        <5>1. c.cmd = "SMSTEXT" /\ c.res = "OK"
          BY <3>2, <4>1
        <5>2. res \in {"OK", "ERROR"}
          BY <3>1, <5>1 DEF AnswersTo
        <5>. QED  BY <5>1, <5>2 DEF Results
      <4>2. CASE ~prompt /\ c.cmd # "SMSTEXT" /\ c.res = "SMS_PROMPT"
        <5>1. /\ res \in {"SMS_PROMPT", "CMGR", "ERROR"}
              /\ res = "CMGR" => c.res = "CMGR" \/ c.cmd = "USER"
          BY <3>1, <4>2 DEF AnswersTo
        <5>. QED  BY <4>2, <5>1 DEF Results
      <4>3. CASE ~prompt /\ c.cmd # "SMSTEXT" /\ c.res # "SMS_PROMPT"
        <5>1. /\ res \in {"CMGR", "OK", "ERROR"}
              /\ res = "CMGR" => c.res = "CMGR" \/ c.cmd = "USER"
          BY <3>1, <4>3 DEF AnswersTo
        <5>. QED  BY <4>3, <5>1 DEF Results
      <4>. QED  BY <4>1, <4>2, <4>3
    <3>. QED  BY <3>3, <2>6 DEF c
  <2>9. WireIsHead'
    BY <2>1, <2>2, <2>3, <2>5, <2>8 DEF WireIsHead, WireOf
  <2>10. OffIsEmpty'
    BY <2>1, <2>2 DEF OffIsEmpty, HeadWritten
  <2>. QED  BY <2>9, <2>10
<1>5. CASE \/ MonitorTop \/ MonitorStop \/ MonitorWakes \/ MonitorDrained
           \/ MonitorUnsolicited \/ MonitorTimesOut \/ MonitorGivesUp \/ MonitorTimeoutLocked
           \/ DeadlinePasses \/ UNCHANGED vars
  <2>1. UNCHANGED <<pvt, line, answers>> /\ (monitor' = "off" => monitor = "off")
    BY <1>5 DEF MonitorTop, MonitorStop, MonitorWakes, MonitorDrained, MonitorUnsolicited,
                MonitorTimesOut, MonitorGivesUp, MonitorTimeoutLocked, DeadlinePasses, vars
  <2>. QED  BY <2>1 DEF WireIsHead, OffIsEmpty
<1>. QED  BY <1>1, <1>2, <1>3, <1>4, <1>5 DEF Next, MonitorNext

\* The invariant of the channel.
LEMMA IInvInvariant ==
    ASSUME "late" \notin Faults
    PROVE  Spec => []IInv
<1>1. Init => IInv
  BY InitQueueInv DEF Init, IInv, WireIsHead, WireOf, OffIsEmpty, QueueEmpty
<1>2. IInv /\ [Next]_vars => IInv'
  BY NextQueueInv, NextWire DEF IInv
<1>. QED  BY <1>1, <1>2, PTL DEF Spec

\* What is under way is the head's command, once.
LEMMA WireOfHead == ASSUME IInv PROVE AnswerIsForHead /\ HalfDuplex
<1>1. CASE line = <<>> /\ answers = <<>>
  BY <1>1 DEF AnswerIsForHead, HalfDuplex
<1>2. CASE HeadWritten(pvt) /\ line = <<OnLine(pvt)>> /\ answers = <<>>
  BY <1>2 DEF AnswerIsForHead, HalfDuplex
<1>3. CASE \E res \in Results :
              /\ HeadWritten(pvt) /\ line = <<>>
              /\ answers = <<[id |-> OnLine(pvt).id, no |-> OnLine(pvt).no, res |-> res]>>
  <2>1. PICK a : /\ HeadWritten(pvt) /\ line = <<>> /\ answers = <<a>>
                 /\ a.id = OnLine(pvt).id /\ a.no = OnLine(pvt).no
    BY <1>3
  <2>2. DOMAIN answers = {1} /\ answers[1] = a /\ Len(line) + Len(answers) = 1
    BY <2>1
  <2>3. OnLine(pvt).id = at_queue_head_task(pvt).id
        /\ OnLine(pvt).no = at_queue_head_task(pvt).cindex + 1
    BY DEF OnLine
  <2>. QED  BY <2>1, <2>2, <2>3 DEF AnswerIsForHead, HalfDuplex
<1>. QED  BY <1>1, <1>2, <1>3 DEF IInv, WireIsHead, WireOf

\* When the modem answers nothing after a reconnect that it was told before,
\* every result the monitor reads is that of the command at the head of the
\* queue, in spite of the monitor's main loop not holding the lock.
THEOREM AnswerAlwaysForHead ==
    ASSUME "late" \notin Faults
    PROVE  Spec => []AnswerIsForHead
BY WireOfHead, IInvInvariant, PTL

\* Then the modem never has two commands either.
THEOREM LineHalfDuplex ==
    ASSUME "late" \notin Faults
    PROVE  Spec => []HalfDuplex
BY WireOfHead, IInvInvariant, PTL

-----------------------------------------------------------------------------
(* The SMS prompt, when no write fails either                              *)

\* What the head command of p is, if p has one.
AtText(p) == ~QueueEmpty(p) /\ at_queue_head_cmd(p).cmd = "SMSTEXT"

LEMMA UnbegunNotText ==
    ASSUME NEW p, QueueOK(p), ~QueueEmpty(p), Unbegun(p.at_queue[1])
    PROVE  ~AtText(p)
<1>1. /\ TaskWellFormed(p.at_queue[1]) /\ p.at_queue[1].cindex = 0
      /\ p.at_queue[1].cindex + 1 \in DOMAIN p.at_queue[1].cmds
      /\ at_queue_head_cmd(p) = p.at_queue[1].cmds[p.at_queue[1].cindex + 1]
  BY HeadIsTask DEF Unbegun
<1>. QED  BY <1>1 DEF AtText, TaskWellFormed, TextsPrompted

\* A queue that is given to at_queue_run is at a text iff the queue before was.
LEMMA KeepsText ==
    ASSUME NEW q, NEW p, KeepsHead(q, p)
    PROVE  AtText(p) <=> AtText(q)
<1>1. CASE QueueEmpty(q)
  <2>1. ~QueueEmpty(p) => at_queue_head_task(p) = p.at_queue[1]
    BY HeadIsTask DEF KeepsHead
  <2>2. ~QueueEmpty(p) => Unbegun(p.at_queue[1])
    BY <1>1, <2>1 DEF KeepsHead, Begun
  <2>. QED  BY <1>1, <2>2, UnbegunNotText DEF AtText, KeepsHead
<1>2. CASE ~QueueEmpty(q)
  BY <1>2, SameHead DEF KeepsHead, AtText
<1>. QED  BY <1>1, <1>2

\* A command that is written stays what it was.
LEMMA RunText ==
    ASSUME NEW p, QueueOK(p)
    PROVE  AtText(at_queue_run(p, TRUE)) <=> AtText(p)
<1>. DEFINE ran == at_queue_run(p, TRUE)
<1>1. CASE ~HeadUnwritten(p)
  BY <1>1, RunOK
<1>2. CASE HeadUnwritten(p)
  <2>1. ~QueueEmpty(p) /\ HeadWritten(ran) /\ OnLine(ran) = OnLine(p)
    BY <1>2, RunOK DEF RunWrites, HeadUnwritten
  <2>2. ~QueueEmpty(ran)
    BY <2>1 DEF HeadWritten
  <2>3. OnLine(ran).cmd = at_queue_head_cmd(ran).cmd /\ OnLine(p).cmd = at_queue_head_cmd(p).cmd
    BY DEF OnLine, at_queue_head_cmd
  <2>. QED  BY <2>1, <2>2, <2>3 DEF AtText
<1>. QED  BY <1>1, <1>2

\* The prompt takes the queue to the text, and no other result does.
LEMMA RemoveText ==
    ASSUME NEW p, QueueOK(p), ~QueueEmpty(p), NEW res,
           res = "SMS_PROMPT" => at_queue_head_cmd(p).res = "SMS_PROMPT"
    PROVE  AtText(at_queue_remove_cmd(p, res)) <=> res = "SMS_PROMPT"
<1>. DEFINE done == at_queue_remove_cmd(p, res)
            task == p.at_queue[1]
            k == task.cindex + 1
<1>1. /\ at_queue_head_task(p) = task /\ task \in Tasks /\ TaskWellFormed(task)
      /\ at_queue_head_cmd(p) = task.cmds[k] /\ k \in DOMAIN task.cmds
  BY HeadIsTask
<1>2. DOMAIN task.cmds = 1 .. Len(task.cmds) /\ Len(task.cmds) \in Nat /\ task.cindex \in Nat
  BY <1>1 DEF Tasks
<1>3. /\ QueueOK(done)
      /\ TaskOver(p, res) => (~QueueEmpty(done) => Unbegun(done.at_queue[1]))
      /\ ~TaskOver(p, res) => ~QueueEmpty(done) /\ done.at_queue[1] = Advanced(task)
  BY RemoveCmdOK
<1>. SUFFICES AtText(done) <=> res = "SMS_PROMPT"
  OBVIOUS
<1>. HIDE DEF done
<1>4. CASE TaskOver(p, res)
  <2>1. ~AtText(done)
    BY <1>3, <1>4, UnbegunNotText DEF AtText
  <2>2. res # "SMS_PROMPT"
    <3>1. SUFFICES ASSUME res = "SMS_PROMPT" PROVE FALSE
      OBVIOUS
    <3>2. task.cmds[k].res = "SMS_PROMPT"
      BY <1>1, <3>1
    <3>3. k < Len(task.cmds)
      BY <1>1, <3>2 DEF TaskWellFormed, TextsPrompted
    <3>. QED  BY <1>1, <1>2, <1>4, <3>1, <3>2, <3>3 DEF TaskOver, at_queue_task_cmd
  <2>. QED  BY <2>1, <2>2
<1>5. CASE ~TaskOver(p, res)
  <2>1. /\ k < Len(task.cmds)
        /\ task.cmds[k].res = res \/ task.cmds[k].ign
    BY <1>1, <1>2, <1>5 DEF TaskOver, at_queue_task_cmd
  <2>2. k + 1 \in DOMAIN task.cmds
    BY <1>2, <2>1
  <2>3. at_queue_head_cmd(done) = task.cmds[k + 1]
    <3>1. at_queue_head_cmd(done) = Advanced(task).cmds[Advanced(task).cindex + 1]
      BY <1>3, <1>5, HeadIsTask
    <3>. QED  BY <1>1, <3>1, AdvancedTask
  <2>4. AtText(done) <=> task.cmds[k + 1].cmd = "SMSTEXT"
    BY <1>3, <1>5, <2>3 DEF AtText
  <2>5. task.cmds[k + 1].cmd = "SMSTEXT" <=> task.cmds[k].res = "SMS_PROMPT"
    <3>1. TextsPrompted(task.cmds)
      BY <1>1 DEF TaskWellFormed
    <3>2. /\ k + 1 \in DOMAIN task.cmds /\ k \in DOMAIN task.cmds /\ k \in Nat
          /\ TextsPrompted(task.cmds)
      BY <1>1, <1>2, <2>2, <3>1
    <3>. HIDE DEF k, task
    <3>3. task.cmds[k].res = "SMS_PROMPT" => task.cmds[k + 1].cmd = "SMSTEXT"
      BY <3>2 DEF TextsPrompted
    <3>4. task.cmds[k + 1].cmd = "SMSTEXT" => task.cmds[(k + 1) - 1].res = "SMS_PROMPT"
      BY <3>2 DEF TextsPrompted
    <3>5. (k + 1) - 1 = k
      BY <3>2
    <3>. QED  BY <3>3, <3>4, <3>5
  <2>6. task.cmds[k].res = "SMS_PROMPT" => ~task.cmds[k].ign
    BY <1>1 DEF TaskWellFormed, TextsPrompted
  <2>. QED  BY <1>1, <2>1, <2>4, <2>5, <2>6
<1>. QED  BY <1>4, <1>5 DEF done

\* The final results of one command.
LEMMA PromptIsExpected ==
    ASSUME WireIsHead, answers # <<>>
    PROVE  /\ HeadWritten(pvt) /\ line = <<>>
           /\ Head(answers).res = "SMS_PROMPT" => at_queue_head_cmd(pvt).res = "SMS_PROMPT"
<1>1. PICK res \in Results :
         /\ HeadWritten(pvt) /\ line = <<>>
         /\ answers = <<[id |-> OnLine(pvt).id, no |-> OnLine(pvt).no, res |-> res]>>
         /\ \/ res = "ERROR"
            \/ res = "OK" /\ at_queue_head_cmd(pvt).res # "SMS_PROMPT"
            \/ res = at_queue_head_cmd(pvt).res
            \/ res = "CMGR" /\ at_queue_head_cmd(pvt).cmd = "USER"
  BY DEF WireIsHead, WireOf
<1>2. Head(answers).res = res
  <2>. DEFINE a == [id |-> OnLine(pvt).id, no |-> OnLine(pvt).no, res |-> res]
  <2>1. answers = <<a>> /\ a.res = res
    BY <1>1
  <2>. HIDE DEF a
  <2>. QED  BY <2>1
<1>. QED  BY <1>1, <1>2

LEMMA NextPrompt ==
    ASSUME "write" \notin Faults, IInv, PromptIsForText, [Next]_vars
    PROVE  PromptIsForText'
<1>. USE DEF IInv, QueueInv
<1>1. prompt <=> \/ answers # <<>> /\ Head(answers).res = "SMS_PROMPT"
                 \/ answers = <<>> /\ AtText(pvt)
  BY DEF PromptIsForText, AtText
<1>2. SUFFICES prompt' <=> \/ answers' # <<>> /\ Head(answers').res = "SMS_PROMPT"
                           \/ answers' = <<>> /\ AtText(pvt')
  BY DEF PromptIsForText, AtText
<1>3. CASE InsertJob \/ InsertNoMemory \/ MonitorStart \/ MonitorRun \/ MonitorPings
  <2>1. PICK p : \E ok \in BOOLEAN : KeepsHead(pvt, p) /\ Run(p, ok)
    BY <1>3, RunSteps
  <2>2. UNCHANGED <<answers, prompt>>
    BY <1>3 DEF InsertJob, InsertNoMemory, MonitorStart, MonitorRun, MonitorPings, OffIsEmpty
  <2>3. pvt' = at_queue_run(p, TRUE) /\ QueueOK(p)
    BY <2>1 DEF Run, QueueBecomes, KeepsHead
  <2>4. AtText(pvt') <=> AtText(pvt)
    BY <2>1, <2>3, KeepsText, RunText
  <2>. QED  BY <1>1, <2>2, <2>4
<1>4. CASE MonitorRead
  <2>1. PICK p : KeepsHead(pvt, p) /\ QueueBecomes(at_queue_remove_cmd(p, Head(answers).res))
    BY <1>4, ReadIsForHead
  <2>2. answers # <<>> /\ answers' = <<>> /\ ~QueueEmpty(pvt) /\ UNCHANGED prompt
    BY <1>4, ReadIsForHead DEF MonitorRead
  <2>3. Head(answers).res = "SMS_PROMPT" => at_queue_head_cmd(p).res = "SMS_PROMPT"
    BY <2>1, <2>2, PromptIsExpected, SameHead DEF KeepsHead
  <2>4. AtText(pvt') <=> Head(answers).res = "SMS_PROMPT"
    BY <2>1, <2>2, <2>3, RemoveText DEF KeepsHead, QueueBecomes
  <2>. QED  BY <1>1, <2>2, <2>4
<1>5. CASE Disconnect
  <2>1. answers' = <<>> /\ prompt' = FALSE
    BY <1>5 DEF Disconnect
  <2>2. QueueEmpty(pvt')
    BY <1>5, FlushOK DEF Disconnect, QueueBecomes
  <2>. QED  BY <2>1, <2>2 DEF AtText
<1>6. CASE ModemAnswers
  <2>1. answers = <<>>
    BY <1>6 DEF ModemAnswers, WireIsHead, WireOf
  <2>2. PICK res : /\ answers' = Append(answers, [id |-> Head(line).id, no |-> Head(line).no,
                                                  res |-> res])
                   /\ prompt' = (res = "SMS_PROMPT")
    BY <1>6 DEF ModemAnswers
  <2>3. answers' # <<>> /\ Head(answers').res = res
    <3>. DEFINE a == [id |-> Head(line).id, no |-> Head(line).no, res |-> res]
    <3>1. answers' = Append(<<>>, a) /\ a.res = res
      BY <2>1, <2>2
    <3>. HIDE DEF a
    <3>2. answers' = <<a>>
      BY <3>1
    <3>. QED  BY <3>1, <3>2
  <2>. QED  BY <2>2, <2>3
<1>7. CASE \/ MonitorTop \/ MonitorStop \/ MonitorWakes \/ MonitorDrained
           \/ MonitorUnsolicited \/ MonitorTimesOut \/ MonitorGivesUp \/ MonitorTimeoutLocked
           \/ DeadlinePasses \/ UNCHANGED vars
  <2>1. UNCHANGED <<pvt, answers, prompt>>
    BY <1>7 DEF MonitorTop, MonitorStop, MonitorWakes, MonitorDrained, MonitorUnsolicited,
                MonitorTimesOut, MonitorGivesUp, MonitorTimeoutLocked, DeadlinePasses, vars
  <2>. QED  BY <1>1, <2>1
<1>. QED  BY <1>3, <1>4, <1>5, <1>6, <1>7 DEF Next, MonitorNext

\* As long as every write succeeds and nothing is answered late, what is
\* written at the SMS prompt is the text of the message, and a text is written
\* nowhere else: no command is sent to somebody as a message, and no message is
\* taken for a command, whatever is queued meanwhile and whenever it is flushed.
THEOREM PromptDisciplined ==
    ASSUME "late" \notin Faults, "write" \notin Faults
    PROVE  Spec => []PromptDiscipline
<1>1. Init => PromptIsForText
  BY DEF Init, PromptIsForText, QueueEmpty
<1>2. IInv /\ PromptIsForText /\ [Next]_vars => PromptIsForText'
  BY NextPrompt
<1>3. IInv /\ PromptIsForText => PromptDiscipline
  <2>. SUFFICES ASSUME IInv, PromptIsForText, line # <<>>
                PROVE  Head(line).cmd = "SMSTEXT" <=> prompt
    BY DEF PromptDiscipline
  <2>. DEFINE c == OnLine(pvt)
  <2>1. HeadWritten(pvt) /\ line = <<c>> /\ answers = <<>>
    BY DEF IInv, WireIsHead, WireOf
  <2>2. c.cmd = at_queue_head_cmd(pvt).cmd
    BY DEF OnLine, at_queue_head_cmd
  <2>. HIDE DEF c
  <2>3. Head(line) = c
    BY <2>1
  <2>. QED  BY <2>1, <2>2, <2>3 DEF PromptIsForText, HeadWritten
<1>4. Spec => []IInv
  BY IInvInvariant
<1>. QED  BY <1>1, <1>2, <1>3, <1>4, PTL DEF Spec

-----------------------------------------------------------------------------
(* The channel implements AtLine                                           *)

LEMMA BegunTask ==
    ASSUME NEW p, QueueOK(p), ~QueueEmpty(p)
    PROVE  /\ Begun(p) <=> ~Unbegun(p.at_queue[1])
           /\ Begun(p) => /\ LineOwner(p) = p.at_queue[1].id
                          /\ LinePos(p) = p.at_queue[1].cindex
           /\ HeadWritten(p) => Begun(p)
           /\ LineOwner(p) # NoTask <=> Begun(p)
<1>1. /\ at_queue_head_task(p) = p.at_queue[1] /\ p.at_queue[1].id \in TaskId
      /\ p.at_queue[1].cindex + 1 \in DOMAIN p.at_queue[1].cmds
      /\ at_queue_head_cmd(p) = p.at_queue[1].cmds[p.at_queue[1].cindex + 1]
  BY HeadIsTask DEF Tasks
<1>. QED  BY <1>1, NoTaskAssumption DEF Begun, LineOwner, LinePos, HeadWritten, Unbegun

\* The head of q is still the head of p.
LEMMA KeepsOwner ==
    ASSUME NEW q, NEW p, KeepsHead(q, p)
    PROVE  LineOwner(q) = LineOwner(p) /\ LinePos(q) = LinePos(p) /\ (Begun(q) <=> Begun(p))
<1>1. CASE QueueEmpty(q)
  BY <1>1 DEF KeepsHead, LineOwner, LinePos, Begun
<1>2. CASE ~QueueEmpty(q)
  BY <1>2, SameHead DEF KeepsHead, LineOwner, LinePos
<1>. QED  BY <1>1, <1>2

\* Removing the head command releases the line or moves its owner on.
LEMMA RemoveOwner ==
    ASSUME NEW p, QueueOK(p), ~QueueEmpty(p), NEW res
    PROVE  LET done == at_queue_remove_cmd(p, res)
           IN  \/ LineOwner(done) = NoTask /\ LinePos(done) = 0
               \/ /\ LineOwner(done) = p.at_queue[1].id
                  /\ LineOwner(done) # NoTask
                  /\ p.at_queue[1].id \in TaskId
                  /\ LinePos(done) = LinePos(p) + 1
                  /\ Begun(p) => LineOwner(p) = p.at_queue[1].id
<1>. DEFINE done == at_queue_remove_cmd(p, res)
            task == p.at_queue[1]
<1>1. task \in Tasks /\ task.id \in TaskId
  BY HeadIsTask DEF Tasks
<1>2. QueueOK(done)
  BY RemoveCmdOK
<1>3. CASE TaskOver(p, res)
  <2>1. ~QueueEmpty(done) => Unbegun(done.at_queue[1])
    BY <1>3, RemoveCmdOK
  <2>. HIDE DEF done
  <2>2. ~Begun(done)
    BY <1>2, <2>1, BegunTask DEF Begun
  <2>. QED  BY <2>2 DEF LineOwner, LinePos, done
<1>4. CASE ~TaskOver(p, res)
  <2>1. ~QueueEmpty(done) /\ done.at_queue[1] = Advanced(task)
    BY <1>4, RemoveCmdOK
  <2>2. /\ Advanced(task).cindex = task.cindex + 1 /\ Advanced(task).id = task.id
        /\ task.cindex \in Nat
    BY <1>1, AdvancedTask
  <2>. HIDE DEF done
  <2>3. Begun(done)
    BY <1>2, <2>1, <2>2, BegunTask DEF Unbegun
  <2>4. LineOwner(done) = task.id /\ LinePos(done) = task.cindex + 1 /\ LineOwner(done) # NoTask
    BY <1>2, <2>1, <2>2, <2>3, BegunTask
  <2>5. LinePos(p) = task.cindex
    BY BegunTask DEF LinePos, Unbegun
  <2>6. Begun(p) => LineOwner(p) = task.id
    BY BegunTask
  <2>. QED  BY <1>1, <2>4, <2>5, <2>6 DEF done
<1>. QED  BY <1>3, <1>4

LEMMA BusyIsBegun ==
    ASSUME QueueOK(pvt), WireIsHead, LineBusy
    PROVE  HeadWritten(pvt) /\ Begun(pvt)
<1>1. HeadWritten(pvt)
  BY DEF WireIsHead, WireOf, LineBusy
<1>. QED  BY <1>1, BegunTask DEF HeadWritten

LEMMA RunLine ==
    ASSUME NEW p, KeepsHead(pvt, p), NEW ok \in BOOLEAN, Run(p, ok),
           WireIsHead, UNCHANGED answers
    PROVE  [Line!Next]_(Line!vars)
<1>1. pvt' = at_queue_run(p, ok) /\ QueueOK(p) /\ QueueOK(pvt)
  BY DEF Run, LineAfter, QueueBecomes, KeepsHead
<1>2. LineOwner(pvt) = LineOwner(p) /\ LinePos(pvt) = LinePos(p) /\ (Begun(pvt) <=> Begun(p))
  BY KeepsOwner
<1>3. CASE ~HeadUnwritten(p)
  <2>1. pvt' = p /\ line' = line
    BY <1>1, <1>3, RunOK DEF Run, LineAfter, RunWrites
  <2>2. UNCHANGED <<LineOwner(pvt), LinePos(pvt), LineBusy>>
    BY <1>2, <2>1 DEF LineBusy
  <2>. QED  BY <2>2 DEF Line!vars
<1>4. CASE HeadUnwritten(p)
  <2>1. ~HeadWritten(pvt)
    BY <1>1, <1>4, SameHead, HeadLength DEF KeepsHead, HeadWritten
  <2>2. line = <<>> /\ answers = <<>> /\ ~LineBusy
    BY <2>1 DEF WireIsHead, WireOf, LineBusy
  <2>3. ~QueueEmpty(p)
    BY <1>4 DEF HeadUnwritten
  <2>4. p.at_queue[1] \in Tasks /\ p.at_queue[1].id \in TaskId
    BY <1>1, <2>3, HeadIsTask DEF Tasks
  <2>5. CASE ok
    <3>1. LineBusy' = TRUE
      BY <1>4, <2>2, <2>5 DEF Run, LineAfter, RunWrites, LineBusy
    <3>2. pvt' = MarkWritten(p)
      BY <1>1, <1>4, <2>5 DEF at_queue_run
    <3>3. QueueOK(pvt') /\ HeadWritten(pvt') /\ ~QueueEmpty(pvt')
          /\ pvt'.at_queue[1] = Written(p.at_queue[1])
      BY <1>1, <2>3, <3>2, MarkWrittenOK DEF HeadWritten
    <3>4. /\ Written(p.at_queue[1]).id = p.at_queue[1].id
          /\ Written(p.at_queue[1]).cindex = p.at_queue[1].cindex
      BY <1>1, <2>3, HeadIsTask, WrittenTask
    <3>5. LineOwner(pvt') = p.at_queue[1].id /\ LinePos(pvt') = p.at_queue[1].cindex
      BY <3>3, <3>4, BegunTask
    <3>6. CASE Begun(p)
      <4>1. LineOwner(p) = p.at_queue[1].id /\ LinePos(p) = p.at_queue[1].cindex
            /\ LineOwner(p) # NoTask
        BY <1>1, <2>3, <3>6, BegunTask
      <4>2. Line!Continue
        BY <1>2, <2>2, <3>1, <3>5, <4>1 DEF Line!Continue
      <4>. QED  BY <4>2 DEF Line!Next
    <3>7. CASE ~Begun(p)
      <4>1. LineOwner(pvt) = NoTask /\ p.at_queue[1].cindex = 0
        <5>1. Unbegun(p.at_queue[1])
          BY <1>1, <2>3, <3>7, BegunTask
        <5>. QED  BY <1>2, <3>7, <5>1 DEF LineOwner, Unbegun
      <4>2. Line!Claim(p.at_queue[1].id)
        BY <3>1, <3>5, <4>1 DEF Line!Claim
      <4>. QED  BY <2>4, <4>2 DEF Line!Next
    <3>. QED  BY <3>6, <3>7
  <2>6. CASE ~ok
    <3>1. pvt' = at_queue_remove_cmd(p, WRITE_FAILED) /\ line' = line
      BY <1>1, <1>4, <2>6 DEF at_queue_run, Run, LineAfter, RunWrites
    <3>2. LineBusy' = FALSE /\ LineBusy = FALSE
      BY <2>2, <3>1 DEF LineBusy
    <3>3. CASE LineOwner(pvt') = NoTask /\ LinePos(pvt') = 0
      <4>1. CASE Begun(pvt)
        <5>1. LineOwner(pvt) # NoTask
          BY <1>1, <4>1, BegunTask DEF Begun
        <5>2. Line!Release
          BY <3>2, <3>3, <5>1 DEF Line!Release
        <5>. QED  BY <5>2 DEF Line!Next
      <4>2. CASE ~Begun(pvt)
        BY <3>2, <3>3, <4>2 DEF Line!vars, LineOwner, LinePos
      <4>. QED  BY <4>1, <4>2
    <3>4. CASE /\ LineOwner(pvt') = p.at_queue[1].id
               /\ LinePos(pvt') = LinePos(p) + 1
               /\ Begun(p) => LineOwner(p) = p.at_queue[1].id
      <4>1. CASE Begun(p)
        <5>1. LineOwner(p) # NoTask
          BY <1>1, <2>3, <4>1, BegunTask
        <5>2. Line!Skip
          BY <1>2, <3>2, <3>4, <4>1, <5>1 DEF Line!Skip
        <5>. QED  BY <5>2 DEF Line!Next
      <4>2. CASE ~Begun(p)
        <5>1. LineOwner(pvt) = NoTask /\ LinePos(p) = 0
          BY <1>2, <4>2 DEF LineOwner, LinePos
        <5>2. Line!ClaimSkipping(p.at_queue[1].id)
          BY <3>2, <3>4, <5>1 DEF Line!ClaimSkipping
        <5>. QED  BY <2>4, <5>2 DEF Line!Next
      <4>. QED  BY <4>1, <4>2
    <3>. QED  BY <1>1, <2>3, <3>1, <3>3, <3>4, RemoveOwner
  <2>. QED  BY <2>5, <2>6
<1>. QED  BY <1>3, <1>4

LEMMA ReadLine ==
    ASSUME QueueOK(pvt), WireIsHead, MonitorRead
    PROVE  [Line!Next]_(Line!vars)
<1>1. /\ HeadWritten(pvt) /\ ~QueueEmpty(pvt) /\ answers' = <<>> /\ line' = <<>>
      /\ LineBusy = TRUE
  BY ReadIsForHead DEF LineBusy, MonitorRead
<1>2. PICK p : /\ KeepsHead(pvt, p)
               /\ QueueBecomes(at_queue_remove_cmd(p, Head(answers).res))
  BY ReadIsForHead
<1>3. PICK res : pvt' = at_queue_remove_cmd(p, res)
  BY <1>2 DEF QueueBecomes
<1>4. /\ LineOwner(pvt) = LineOwner(p) /\ LinePos(pvt) = LinePos(p) /\ (Begun(pvt) <=> Begun(p))
      /\ QueueOK(p) /\ ~QueueEmpty(p)
  BY <1>1, <1>2, KeepsOwner DEF KeepsHead
<1>5. Begun(pvt) /\ LineOwner(pvt) # NoTask
  BY <1>1, BegunTask
<1>6. LineBusy' = FALSE
  BY <1>1 DEF LineBusy
<1>7. CASE LineOwner(pvt') = NoTask /\ LinePos(pvt') = 0
  <2>1. Line!Release
    BY <1>5, <1>6, <1>7 DEF Line!Release
  <2>. QED  BY <2>1 DEF Line!Next
<1>8. CASE /\ LineOwner(pvt') = p.at_queue[1].id
           /\ LinePos(pvt') = LinePos(p) + 1
           /\ Begun(p) => LineOwner(p) = p.at_queue[1].id
  <2>1. Line!Answered
    BY <1>1, <1>4, <1>5, <1>6, <1>8 DEF Line!Answered
  <2>. QED  BY <2>1 DEF Line!Next
<1>. QED  BY <1>3, <1>4, <1>7, <1>8, RemoveOwner

LEMMA NextLine ==
    ASSUME "late" \notin Faults, IInv, [Next]_vars
    PROVE  [Line!Next]_(Line!vars)
<1>. USE DEF IInv, QueueInv
<1>1. CASE InsertJob \/ InsertNoMemory \/ MonitorStart \/ MonitorRun \/ MonitorPings
  <2>1. PICK p : \E ok \in BOOLEAN : KeepsHead(pvt, p) /\ Run(p, ok)
    BY <1>1, RunSteps
  <2>2. UNCHANGED answers
    BY <1>1 DEF InsertJob, InsertNoMemory, MonitorStart, MonitorRun, MonitorPings, OffIsEmpty
  <2>. QED  BY <2>1, <2>2, RunLine
<1>2. CASE MonitorRead
  BY <1>2, ReadLine
<1>3. CASE Disconnect
  <2>1. line' = <<>> /\ answers' = <<>> /\ QueueEmpty(pvt')
    BY <1>3, FlushOK DEF Disconnect, QueueBecomes
  <2>2. LineOwner(pvt') = NoTask /\ LinePos(pvt') = 0 /\ LineBusy' = FALSE
    BY <2>1 DEF LineOwner, LinePos, Begun, LineBusy
  <2>3. CASE Begun(pvt)
    <3>1. LineOwner(pvt) # NoTask
      BY <2>3, BegunTask DEF Begun
    <3>2. Line!Release
      BY <2>2, <3>1 DEF Line!Release
    <3>. QED  BY <3>2 DEF Line!Next
  <2>4. CASE ~Begun(pvt)
    <3>1. LineBusy = FALSE
      BY <2>4, BusyIsBegun DEF LineBusy
    <3>. QED  BY <2>2, <2>4, <3>1 DEF Line!vars, LineOwner, LinePos
  <2>. QED  BY <2>3, <2>4
<1>4. CASE ModemAnswers
  <2>1. pvt' = pvt /\ line # <<>>
    BY <1>4 DEF ModemAnswers
  <2>2. answers' # <<>>
    <3>1. PICK a : answers' = Append(answers, a)
      BY <1>4 DEF ModemAnswers
    <3>2. answers = <<>>
      BY <2>1 DEF WireIsHead, WireOf
    <3>. QED  BY <3>1, <3>2
  <2>3. LineBusy = TRUE /\ LineBusy' = TRUE
    BY <2>1, <2>2 DEF LineBusy
  <2>. QED  BY <2>1, <2>3 DEF Line!vars
<1>5. CASE \/ MonitorTop \/ MonitorStop \/ MonitorWakes \/ MonitorDrained
           \/ MonitorUnsolicited \/ MonitorTimesOut \/ MonitorGivesUp \/ MonitorTimeoutLocked
           \/ DeadlinePasses \/ UNCHANGED vars
  <2>1. UNCHANGED <<pvt, line, answers>>
    BY <1>5 DEF MonitorTop, MonitorStop, MonitorWakes, MonitorDrained, MonitorUnsolicited,
                MonitorTimesOut, MonitorGivesUp, MonitorTimeoutLocked, DeadlinePasses, vars
  <2>. QED  BY <2>1 DEF Line!vars, LineBusy
<1>. QED  BY <1>1, <1>2, <1>3, <1>4, <1>5 DEF Next, MonitorNext

\* The channel implements AtLine: one task owns the line from its first command
\* to its last, whatever the other threads queue meanwhile.
THEOREM ChannelImplementsLine ==
    ASSUME "late" \notin Faults
    PROVE  Spec => LineSpec
<1>1. Init => Line!Init
  BY DEF Init, Line!Init, LineOwner, LinePos, Begun, QueueEmpty, LineBusy
<1>2. IInv /\ [Next]_vars => [Line!Next]_(Line!vars)
  BY NextLine
<1>. QED  BY <1>1, <1>2, IInvInvariant, PTL DEF Spec, LineSpec, Line!Spec
=============================================================================
