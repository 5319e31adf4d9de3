------------------------- MODULE AtQueueOps_proofs -------------------------
(***************************************************************************)
(* Lemmas about the operations of the command queue (AtQueueOps) on the    *)
(* queues of AtQueue, for any set of tasks, call contexts and jobs: each   *)
(* keeps the queue well formed (QueueOK) and its counters right (Counted). *)
(***************************************************************************)
EXTENDS AtQueue, SequenceTheorems, FiniteSetTheorems, TLAPS

-----------------------------------------------------------------------------
(* The operations of the queue                                             *)

LEMMA HeadIsTask ==
    ASSUME NEW p, QueueOK(p), ~QueueEmpty(p)
    PROVE  /\ at_queue_head_task(p) = p.at_queue[1]
           /\ p.at_queue[1] \in Tasks
           /\ TaskWellFormed(p.at_queue[1])
           /\ 1 \in DOMAIN p.at_queue
           /\ p.at_queue[1].cindex + 1 \in DOMAIN p.at_queue[1].cmds
           /\ at_queue_head_cmd(p) = p.at_queue[1].cmds[p.at_queue[1].cindex + 1]
           /\ at_queue_head_cmd(p) \in CommandsOfLength({0, 1})
<1>1. p.at_queue \in Seq(Tasks) /\ p.at_queue # <<>>
  BY DEF QueueOK, QueueEmpty
<1>2. 1 \in DOMAIN p.at_queue /\ p.at_queue[1] \in Tasks /\ Head(p.at_queue) = p.at_queue[1]
  BY <1>1
<1>3. TaskWellFormed(p.at_queue[1])
  BY <1>2 DEF QueueOK
<1>4. at_queue_head_task(p) = p.at_queue[1]
  BY <1>2 DEF at_queue_head_task
<1>5. \A task \in Tasks : TaskWellFormed(task) =>
         /\ task.cindex + 1 \in DOMAIN task.cmds
         /\ task.cmds[task.cindex + 1] \in CommandsOfLength({0, 1})
  BY DEF Tasks, TaskWellFormed
<1>. QED
  BY <1>2, <1>3, <1>4, <1>5 DEF at_queue_head_cmd, at_queue_task_cmd

LEMMA NewTaskOK ==
    ASSUME NEW id \in TaskId, NEW cpvt \in Cpvt, NEW job, IsJob(job)
    PROVE  /\ NewTask(id, cpvt, job) \in Tasks
           /\ TaskWellFormed(NewTask(id, cpvt, job))
           /\ Unbegun(NewTask(id, cpvt, job))
           /\ at_queue_task_cmd(NewTask(id, cpvt, job)).length = 1
<1>1. job.cmds \in Seq(CommandsOfLength({0, 1}))
  <2>1. CommandsOfLength({1}) \subseteq CommandsOfLength({0, 1})
    BY DEF CommandsOfLength
  <2>. QED  BY <2>1 DEF IsJob
<1>2. /\ Len(job.cmds) > 0
      /\ \A k \in DOMAIN job.cmds : job.cmds[k].length = 1
  <2>1. job.cmds \in Seq(CommandsOfLength({1})) /\ job.cmds # <<>>
    BY DEF IsJob
  <2>2. Len(job.cmds) > 0 /\ \A k \in DOMAIN job.cmds : job.cmds[k] \in CommandsOfLength({1})
    BY <2>1, LenProperties, EmptySeq, ElementOfSeq
  <2>3. \A c \in CommandsOfLength({1}) : c.length = 1
    BY DEF CommandsOfLength
  <2>. QED  BY <2>2, <2>3
<1>. QED
  BY <1>1, <1>2 DEF NewTask, Tasks, TaskWellFormed, Unbegun, at_queue_task_cmd, IsJob

\* Where the tasks of a queue are after an insertion.
LEMMA InsertedAt ==
    ASSUME NEW q \in Seq(Tasks), NEW task \in Tasks, NEW athead
    PROVE  /\ Inserted(q, task, athead) \in Seq(Tasks)
           /\ Len(Inserted(q, task, athead)) = Len(q) + 1
           /\ \E at \in 1 .. Len(q) + 1 :
                /\ q # <<>> => at # 1
                /\ \A i \in 1 .. Len(q) + 1 :
                      Inserted(q, task, athead)[i] =
                         IF i = at THEN task ELSE IF i < at THEN q[i] ELSE q[i - 1]
<1>1. CASE athead /\ q # <<>>
  <2>. DEFINE two == <<Head(q), task>>
  <2>1. /\ two \in Seq(Tasks) /\ Len(two) = 2 /\ two[1] = q[1] /\ two[2] = task
    BY <1>1
  <2>2. /\ Tail(q) \in Seq(Tasks) /\ Len(Tail(q)) = Len(q) - 1
        /\ \A i \in 1 .. Len(q) - 1 : Tail(q)[i] = q[i + 1]
    BY <1>1
  <2>3. Inserted(q, task, athead) = two \o Tail(q)
    BY <1>1 DEF Inserted
  <2>. DEFINE r == two \o Tail(q)
  <2>. HIDE DEF two
  <2>4. /\ r \in Seq(Tasks)
        /\ Len(r) = Len(two) + Len(Tail(q))
        /\ \A i \in 1 .. Len(two) + Len(Tail(q)) :
              r[i] = IF i <= Len(two) THEN two[i] ELSE Tail(q)[i - Len(two)]
    BY ONLY <2>1, <2>2, ConcatProperties
  <2>. HIDE DEF r
  <2>5. Len(q) \in Nat /\ Len(r) = Len(q) + 1
    BY <2>1, <2>2, <2>4
  <2>7. \A i \in 1 .. Len(q) + 1 :
           r[i] = IF i = 2 THEN task ELSE IF i < 2 THEN q[i] ELSE q[i - 1]
    <3>. TAKE i \in 1 .. Len(q) + 1
    <3>0. i \in 1 .. Len(two) + Len(Tail(q))
      BY <2>1, <2>2, <2>5
    <3>1. CASE i = 1  BY <3>0, <3>1, <2>1, <2>4
    <3>2. CASE i = 2  BY <3>0, <3>2, <2>1, <2>4
    <3>3. CASE i > 2
      <4>1. r[i] = Tail(q)[i - 2]
        BY <3>0, <3>3, <2>1, <2>4
      <4>2. i - 2 \in 1 .. Len(q) - 1 /\ (i - 2) + 1 = i - 1
        BY <3>3, <2>5
      <4>3. Tail(q)[i - 2] = q[i - 1]
        BY <4>2, <2>2
      <4>. QED  BY <3>3, <4>1, <4>3
    <3>. QED  BY <3>1, <3>2, <3>3, <2>5
  <2>6. 2 \in 1 .. Len(q) + 1 /\ 2 # 1
    BY <1>1
  <2>8. \E at \in 1 .. Len(q) + 1 :
           /\ q # <<>> => at # 1
           /\ \A i \in 1 .. Len(q) + 1 :
                 r[i] = IF i = at THEN task ELSE IF i < at THEN q[i] ELSE q[i - 1]
    BY ONLY <2>6, <2>7, Zenon
  <2>9. Inserted(q, task, athead) = r
    BY <2>3 DEF r
  <2>. QED  BY ONLY <2>4, <2>5, <2>8, <2>9, Zenon
<1>2. CASE ~(athead /\ q # <<>>)
  <2>1. Inserted(q, task, athead) = Append(q, task)
    BY <1>2 DEF Inserted
  <2>2. \A i \in 1 .. Len(q) + 1 :
           Append(q, task)[i] = IF i = Len(q) + 1 THEN task
                                ELSE IF i < Len(q) + 1 THEN q[i] ELSE q[i - 1]
    OBVIOUS
  <2>3. /\ Len(q) + 1 \in 1 .. Len(q) + 1
        /\ q # <<>> => Len(q) + 1 # 1
    OBVIOUS
  <2>. QED  BY <2>1, <2>2, <2>3
<1>. QED  BY <1>1, <1>2

LEMMA AddFields ==
    ASSUME NEW p, p \in [at_queue : Seq(Tasks), at_tasks : Int, at_cmds : Int],
           NEW task \in Tasks, NEW athead
    PROVE  LET added == at_queue_add(p, task, athead)
           IN  /\ added.at_queue = Inserted(p.at_queue, task, athead)
               /\ added.at_tasks = p.at_tasks + 1
               /\ added.at_cmds = p.at_cmds + Len(task.cmds)
               /\ added.at_queue \in Seq(Tasks) =>
                     added \in [at_queue : Seq(Tasks), at_tasks : Int, at_cmds : Int]
<1>. DEFINE r == Inserted(p.at_queue, task, athead)
            t == p.at_tasks + 1
            c == p.at_cmds + Len(task.cmds)
            added == [p EXCEPT !.at_queue = r, !.at_tasks = t, !.at_cmds = c]
<1>1. t \in Int /\ c \in Int
  <2>1. Len(task.cmds) \in Nat
    BY DEF Tasks
  <2>. QED  BY <2>1
<1>2. at_queue_add(p, task, athead) = added
  BY DEF at_queue_add
<1>. HIDE DEF r, t, c
<1>3. added.at_queue = r /\ added.at_tasks = t /\ added.at_cmds = c
  OBVIOUS
<1>4. r \in Seq(Tasks) => added \in [at_queue : Seq(Tasks), at_tasks : Int, at_cmds : Int]
  BY <1>1
<1>. HIDE DEF added
<1>. QED  BY <1>2, <1>3, <1>4 DEF r, t, c

\* An insertion keeps the queue in order and its head where it is.
LEMMA AddOK ==
    ASSUME NEW p, QueueOK(p), NEW id \in TaskId \ LiveIds(p.at_queue),
           NEW cpvt \in Cpvt, NEW job, IsJob(job)
    PROVE  LET added == at_queue_add(p, NewTask(id, cpvt, job), job.athead)
           IN  /\ QueueOK(added)
               /\ ~QueueEmpty(added)
               /\ ~QueueEmpty(p) => added.at_queue[1] = p.at_queue[1]
               /\ QueueEmpty(p) => added.at_queue[1] = NewTask(id, cpvt, job)
               /\ LiveIds(added.at_queue) = LiveIds(p.at_queue) \union {id}
               /\ added.at_tasks = p.at_tasks + 1
               /\ added.at_cmds = p.at_cmds + Len(job.cmds)
<1>. DEFINE task == NewTask(id, cpvt, job)
            q == p.at_queue
            r == Inserted(q, task, job.athead)
            added == at_queue_add(p, task, job.athead)
<1>1. /\ q \in Seq(Tasks)
      /\ \A i \in DOMAIN q : TaskWellFormed(q[i])
      /\ IdsUnique(q)
      /\ HeadAloneBegun(q)
      /\ p \in [at_queue : Seq(Tasks), at_tasks : Int, at_cmds : Int]
  BY DEF QueueOK
<1>2. /\ task \in Tasks /\ TaskWellFormed(task) /\ Unbegun(task)
      /\ task.id = id /\ task.cmds = job.cmds /\ job.athead \in BOOLEAN
      /\ Len(job.cmds) \in Nat
  BY NewTaskOK DEF NewTask, IsJob
<1>3. /\ added.at_queue = r
      /\ added.at_tasks = p.at_tasks + 1
      /\ added.at_cmds = p.at_cmds + Len(job.cmds)
      /\ r \in Seq(Tasks) =>
            added \in [at_queue : Seq(Tasks), at_tasks : Int, at_cmds : Int]
  BY <1>1, <1>2, AddFields
<1>. HIDE DEF task, r, added, q
<1>4. PICK at \in 1 .. Len(q) + 1 :
         /\ r \in Seq(Tasks)
         /\ Len(r) = Len(q) + 1
         /\ q # <<>> => at # 1
         /\ \A i \in 1 .. Len(q) + 1 :
               r[i] = IF i = at THEN task ELSE IF i < at THEN q[i] ELSE q[i - 1]
  BY <1>1, <1>2, InsertedAt DEF r
<1>4a. /\ DOMAIN q = 1 .. Len(q) /\ DOMAIN r = 1 .. Len(q) + 1 /\ Len(q) \in Nat
       /\ q = <<>> <=> Len(q) = 0
  BY <1>1, <1>4
<1>5. \A i \in DOMAIN q : q[i].id # id
  BY DEF LiveIds, q
<1>6. \A i \in DOMAIN r :
         /\ i = at => r[i] = task
         /\ i < at => i \in DOMAIN q /\ r[i] = q[i]
         /\ i > at => i - 1 \in DOMAIN q /\ r[i] = q[i - 1]
  BY <1>4, <1>4a
<1>7. \A i \in DOMAIN r : TaskWellFormed(r[i])
  <2>. TAKE i \in DOMAIN r
  <2>1. i \in Int /\ at \in Int
    BY <1>4a
  <2>2. CASE i = at
    BY <2>2, <1>2, <1>6
  <2>3. CASE i < at
    BY <2>3, <1>1, <1>6
  <2>4. CASE i > at
    BY <2>4, <1>1, <1>6
  <2>. QED  BY <2>1, <2>2, <2>3, <2>4
<1>8. IdsUnique(r)
  <2>. SUFFICES ASSUME NEW i \in DOMAIN r, NEW j \in DOMAIN r, r[i].id = r[j].id, i # j
                PROVE  FALSE
    BY DEF IdsUnique
  <2>1. i \in Int /\ j \in Int
    BY <1>4
  <2>2. i # at /\ j # at
    BY <2>1, <1>6, <1>2, <1>5, <1>4
  <2>. DEFINE old(k) == IF k < at THEN k ELSE k - 1
  <2>3. /\ old(i) \in DOMAIN q /\ r[i] = q[old(i)]
        /\ old(j) \in DOMAIN q /\ r[j] = q[old(j)]
    BY <2>1, <2>2, <1>4, <1>6
  <2>4. old(i) = old(j)
    BY <2>3, <1>1 DEF IdsUnique
  <2>. QED  BY <2>1, <2>2, <2>4, <1>4
<1>9. HeadAloneBegun(r)
  <2>. SUFFICES ASSUME NEW i \in DOMAIN r
                PROVE  IF i = 1 THEN \A j \in DOMAIN r[i].cmds :
                                       j > r[i].cindex + 1 => r[i].cmds[j].length = 1
                               ELSE Unbegun(r[i])
    BY DEF HeadAloneBegun
  <2>1. CASE i = at
    BY <2>1, <1>2, <1>6 DEF Unbegun
  <2>2. CASE i < at
    <3>1. i \in DOMAIN q /\ r[i] = q[i]
      BY <2>2, <1>6
    <3>. QED  BY <3>1, <1>1 DEF HeadAloneBegun
  <2>3. CASE i > at
    <3>1. i - 1 \in DOMAIN q /\ r[i] = q[i - 1]
      BY <2>3, <1>6
    <3>2. q # <<>> /\ i - 1 # 1 /\ i # 1
      BY <2>3, <3>1, <1>4, <1>4a
    <3>3. Unbegun(q[i - 1])
      BY <3>1, <3>2, <1>1 DEF HeadAloneBegun
    <3>. QED  BY <3>1, <3>2, <3>3
  <2>. QED  BY <2>1, <2>2, <2>3, <1>4a
<1>10. LiveIds(r) = LiveIds(q) \union {id}
  <2>1. LiveIds(r) \subseteq LiveIds(q) \union {id}
    BY <1>2, <1>4, <1>6 DEF LiveIds
  <2>2. id \in LiveIds(r)
    BY <1>2, <1>4 DEF LiveIds
  <2>3. \A i \in DOMAIN q : q[i].id \in LiveIds(r)
    <3>. TAKE i \in DOMAIN q
    <3>0. i \in 1 .. Len(q) /\ Len(q) \in Nat /\ DOMAIN r = 1 .. Len(q) + 1
      BY <1>4a
    <3>1. CASE i < at
      <4>1. i \in DOMAIN r
        BY <3>0
      <4>2. r[i] = q[i]
        BY <4>1, <3>1, <1>6
      <4>. QED  BY <4>1, <4>2 DEF LiveIds
    <3>2. CASE i >= at
      <4>1. i + 1 \in DOMAIN r /\ i + 1 > at /\ (i + 1) - 1 = i
        BY <3>0, <3>2
      <4>2. r[i + 1] = q[i]
        BY <4>1, <1>6
      <4>. QED  BY <4>1, <4>2 DEF LiveIds
    <3>. QED  BY <3>0, <3>1, <3>2
  <2>. QED  BY <2>1, <2>2, <2>3 DEF LiveIds
<1>11. /\ r # <<>>
       /\ q # <<>> => r[1] = q[1]
       /\ q = <<>> => r[1] = task
  BY <1>1, <1>4
<1>12. QueueOK(added)
  BY <1>3, <1>4, <1>7, <1>8, <1>9 DEF QueueOK
<1>. QED
  BY <1>3, <1>10, <1>11, <1>12 DEF QueueEmpty, added, task, q

\* QueueOK without the counters.
TasksOK(q) ==
    /\ q \in Seq(Tasks)
    /\ \A i \in DOMAIN q : TaskWellFormed(q[i])
    /\ IdsUnique(q)
    /\ HeadAloneBegun(q)

\* Another state of the head task.
LEMMA HeadChangedOK ==
    ASSUME NEW q, TasksOK(q), q # <<>>,
           NEW t \in Tasks, t.id = q[1].id, TaskWellFormed(t),
           \A j \in DOMAIN t.cmds : j > t.cindex + 1 => t.cmds[j].length = 1
    PROVE  LET r == [q EXCEPT ![1] = t]
           IN  /\ TasksOK(r)
               /\ r # <<>>
               /\ Len(r) = Len(q)
               /\ r[1] = t
               /\ \A i \in DOMAIN q : r[i].id = q[i].id
               /\ LiveIds(r) = LiveIds(q)
<1>. DEFINE r == [q EXCEPT ![1] = t]
<1>1. q \in Seq(Tasks) /\ Len(q) \in Nat /\ Len(q) > 0 /\ DOMAIN q = 1 .. Len(q)
  BY DEF TasksOK
<1>2. /\ r \in Seq(Tasks) /\ Len(r) = Len(q)
      /\ \A j \in 1 .. Len(q) : r[j] = IF j = 1 THEN t ELSE q[j]
  BY <1>1, ExceptSeq
<1>. HIDE DEF r
<1>3. DOMAIN r = DOMAIN q /\ \A j \in DOMAIN q : r[j].id = q[j].id
  BY <1>1, <1>2
<1>4. \A i \in DOMAIN r : TaskWellFormed(r[i])
  BY <1>1, <1>2, <1>3 DEF TasksOK
<1>5. IdsUnique(r)
  BY <1>3 DEF IdsUnique, TasksOK
<1>6. HeadAloneBegun(r)
  BY <1>1, <1>2, <1>3 DEF HeadAloneBegun, TasksOK
<1>7. LiveIds(r) = LiveIds(q)
  BY <1>3 DEF LiveIds
<1>8. r # <<>> /\ r[1] = t
  BY <1>1, <1>2
<1>. QED  BY <1>2, <1>3, <1>4, <1>5, <1>6, <1>7, <1>8 DEF TasksOK, r

\* The queue without its head.
LEMMA TailOK ==
    ASSUME NEW q, TasksOK(q), q # <<>>
    PROVE  /\ TasksOK(Tail(q))
           /\ Len(Tail(q)) = Len(q) - 1
           /\ LiveIds(Tail(q)) = LiveIds(q) \ {q[1].id}
           /\ Tail(q) # <<>> => Unbegun(Tail(q)[1])
<1>. DEFINE r == Tail(q)
<1>1. /\ q \in Seq(Tasks) /\ Len(q) \in Nat /\ Len(q) > 0 /\ DOMAIN q = 1 .. Len(q)
      /\ r \in Seq(Tasks) /\ Len(r) = Len(q) - 1 /\ DOMAIN r = 1 .. Len(q) - 1
      /\ \A i \in DOMAIN r : i + 1 \in DOMAIN q /\ i + 1 # 1 /\ r[i] = q[i + 1]
  BY DEF TasksOK
<1>. HIDE DEF r
<1>2. \A i \in DOMAIN r : TaskWellFormed(r[i]) /\ Unbegun(r[i])
  BY <1>1 DEF TasksOK, HeadAloneBegun
<1>3. IdsUnique(r)
  <2>. SUFFICES ASSUME NEW i \in DOMAIN r, NEW j \in DOMAIN r, r[i].id = r[j].id
                PROVE  i = j
    BY DEF IdsUnique
  <2>1. q[i + 1].id = q[j + 1].id
    BY <1>1
  <2>2. i + 1 = j + 1
    BY <2>1, <1>1 DEF TasksOK, IdsUnique
  <2>. QED  BY <2>2, <1>1
<1>4. HeadAloneBegun(r)
  BY <1>2, <1>1 DEF HeadAloneBegun, Unbegun
<1>5. LiveIds(r) = LiveIds(q) \ {q[1].id}
  <2>1. \A i \in DOMAIN r : r[i].id \in LiveIds(q) /\ r[i].id # q[1].id
    BY <1>1 DEF LiveIds, TasksOK, IdsUnique
  <2>2. \A i \in DOMAIN q : i # 1 => q[i].id \in LiveIds(r)
    <3>. SUFFICES ASSUME NEW i \in DOMAIN q, i # 1 PROVE q[i].id \in LiveIds(r)
      OBVIOUS
    <3>1. i - 1 \in DOMAIN r /\ (i - 1) + 1 = i
      BY <1>1
    <3>2. r[i - 1] = q[i]
      BY <3>1, <1>1
    <3>. QED  BY <3>1, <3>2 DEF LiveIds
  <2>. QED  BY <2>1, <2>2 DEF LiveIds
<1>6. r # <<>> => Unbegun(r[1])
  BY <1>1, <1>2
<1>. QED  BY <1>1, <1>2, <1>3, <1>4, <1>5, <1>6 DEF TasksOK, r

LEMMA QueueOKIsTasksOK ==
    ASSUME NEW p
    PROVE  QueueOK(p) <=> /\ p \in [at_queue : Seq(Tasks), at_tasks : Int, at_cmds : Int]
                          /\ TasksOK(p.at_queue)
BY DEF QueueOK, TasksOK

\* The head task with its current command done with.
Advanced(task) == [task EXCEPT !.cindex = @ + 1]

LEMMA AdvancedTask ==
    ASSUME NEW task \in Tasks
    PROVE  LET step == Advanced(task)
           IN  /\ step \in Tasks
               /\ step.cindex = task.cindex + 1
               /\ step.cmds = task.cmds
               /\ step.id = task.id
               /\ step.cpvt = task.cpvt
               /\ task.cindex \in Nat
               /\ Len(task.cmds) \in Nat
               /\ DOMAIN task.cmds = 1 .. Len(task.cmds)
<1>1. task.cindex \in Nat /\ task.cmds \in Seq(CommandsOfLength({0, 1}))
  BY DEF Tasks
<1>. DEFINE n == task.cindex + 1
<1>2. n \in Nat
  BY <1>1
<1>. HIDE DEF n
<1>3. LET step == [task EXCEPT !.cindex = n]
      IN  /\ step \in Tasks /\ step.cindex = n /\ step.cmds = task.cmds
          /\ step.id = task.id /\ step.cpvt = task.cpvt
  BY <1>2 DEF Tasks
<1>. QED  BY <1>1, <1>3, LenProperties DEF Advanced, n

\* at_queue_remove_cmd lets go of the head task, or of its current command.
LEMMA RemoveCmdEffect ==
    ASSUME NEW p, QueueOK(p), ~QueueEmpty(p), NEW res
    PROVE  LET done == at_queue_remove_cmd(p, res)
               task == p.at_queue[1]
           IN  /\ done \in [at_queue : Seq(Tasks), at_tasks : Int, at_cmds : Int]
               /\ TaskOver(p, res) =>
                     /\ done.at_queue = Tail(p.at_queue)
                     /\ done.at_tasks = p.at_tasks - 1
                     /\ done.at_cmds = p.at_cmds - (Len(task.cmds) - task.cindex)
               /\ ~TaskOver(p, res) =>
                     /\ done.at_queue = [p.at_queue EXCEPT ![1] = Advanced(task)]
                     /\ done.at_tasks = p.at_tasks
                     /\ done.at_cmds = p.at_cmds - 1
<1>. DEFINE q == p.at_queue
            task == q[1]
            n == p.at_cmds - 1
            step == Advanced(task)
            r == [q EXCEPT ![1] = step]
            mid == [p EXCEPT !.at_queue = r, !.at_cmds = n]
<1>1. /\ p \in [at_queue : Seq(Tasks), at_tasks : Int, at_cmds : Int]
      /\ q \in Seq(Tasks) /\ q # <<>> /\ task \in Tasks /\ Len(q) \in Nat /\ Len(q) > 0
      /\ DOMAIN q = 1 .. Len(q)
  BY DEF QueueOK, QueueEmpty
<1>2. /\ step \in Tasks /\ step.cindex = task.cindex + 1 /\ step.cmds = task.cmds
      /\ task.cindex \in Nat /\ Len(task.cmds) \in Nat
  BY <1>1, AdvancedTask
<1>3. at_queue_remove_cmd(p, res) =
         IF TaskOver(p, res) THEN at_queue_remove(mid) ELSE mid
  <2>1. [q EXCEPT ![1].cindex = @ + 1] = r
    BY DEF Advanced
  <2>2. mid = [p EXCEPT !.at_queue[1].cindex = @ + 1, !.at_cmds = @ - 1]
    BY <2>1
  <2>. QED  BY <2>2 DEF at_queue_remove_cmd
<1>4. n \in Int
  BY <1>1
<1>. HIDE DEF step
<1>5. /\ r \in Seq(Tasks) /\ Len(r) = Len(q)
      /\ \A j \in 1 .. Len(q) : r[j] = IF j = 1 THEN step ELSE q[j]
  BY <1>1, <1>2, ExceptSeq
<1>. HIDE DEF n, r
<1>6. /\ mid \in [at_queue : Seq(Tasks), at_tasks : Int, at_cmds : Int]
      /\ mid.at_queue = r /\ mid.at_tasks = p.at_tasks /\ mid.at_cmds = n
  BY <1>1, <1>4, <1>5
<1>7. CASE TaskOver(p, res)
  <2>. DEFINE gone == at_queue_remove(mid)
              left == mid.at_cmds - (Len(step.cmds) - step.cindex)
              less == mid.at_tasks - 1
              tl == Tail(r)
  <2>1. r # <<>> /\ at_queue_head_task(mid) = step
    BY <1>1, <1>5, <1>6 DEF at_queue_head_task
  <2>2. gone = [mid EXCEPT !.at_queue = Tail(@), !.at_tasks = less, !.at_cmds = left]
    BY <1>6, <2>1 DEF at_queue_remove, QueueEmpty
  <2>3. left \in Int /\ less \in Int
    BY <1>1, <1>2, <1>4, <1>6, SMTT(20)
  <2>4. tl \in Seq(Tasks) /\ tl = Tail(q)
    <3>1. /\ tl \in Seq(Tasks) /\ Len(tl) = Len(q) - 1
          /\ \A i \in 1 .. Len(q) - 1 : tl[i] = r[i + 1]
      BY <1>1, <1>5, <2>1
    <3>2. /\ Tail(q) \in Seq(Tasks) /\ Len(Tail(q)) = Len(q) - 1
          /\ \A i \in 1 .. Len(q) - 1 : Tail(q)[i] = q[i + 1]
      BY <1>1
    <3>3. \A i \in 1 .. Len(q) - 1 : r[i + 1] = q[i + 1]
      BY <1>1, <1>5
    <3>. QED  BY <3>1, <3>2, <3>3, SeqEqual
  <2>. HIDE DEF left, less, tl, mid
  <2>5. /\ gone.at_queue = tl /\ gone.at_tasks = less /\ gone.at_cmds = left
        /\ gone \in [at_queue : Seq(Tasks), at_tasks : Int, at_cmds : Int]
    BY <1>6, <2>2, <2>3, <2>4 DEF tl
  <2>6. left = p.at_cmds - (Len(task.cmds) - task.cindex)
    <3>1. /\ mid.at_cmds = p.at_cmds - 1 /\ Len(step.cmds) = Len(task.cmds)
          /\ step.cindex = task.cindex + 1
      BY <1>2, <1>6 DEF n
    <3>2. p.at_cmds \in Int /\ task.cindex \in Nat /\ Len(task.cmds) \in Nat
      BY <1>1, <1>2
    <3>. HIDE DEF task
    <3>3. mid.at_cmds - (Len(step.cmds) - step.cindex) = p.at_cmds - (Len(task.cmds) - task.cindex)
      BY <3>1, <3>2, SMTT(20)
    <3>. QED  BY <3>3 DEF left
  <2>. HIDE DEF gone
  <2>. QED  BY <1>3, <1>6, <1>7, <2>4, <2>5, <2>6 DEF less, gone
<1>8. CASE ~TaskOver(p, res)
  BY <1>3, <1>6, <1>8 DEF n, r, step
<1>. QED  BY <1>7, <1>8

\* at_queue_remove_cmd keeps the queue in order.
LEMMA RemoveCmdOK ==
    ASSUME NEW p, QueueOK(p), ~QueueEmpty(p), NEW res
    PROVE  LET done == at_queue_remove_cmd(p, res)
           IN  /\ QueueOK(done)
               /\ TaskOver(p, res) =>
                     /\ LiveIds(done.at_queue) = LiveIds(p.at_queue) \ {p.at_queue[1].id}
                     /\ ~QueueEmpty(done) => Unbegun(done.at_queue[1])
               /\ ~TaskOver(p, res) =>
                     /\ ~QueueEmpty(done)
                     /\ LiveIds(done.at_queue) = LiveIds(p.at_queue)
                     /\ done.at_queue[1] = Advanced(p.at_queue[1])
               /\ ~QueueEmpty(done) => at_queue_head_cmd(done).length = 1
<1>. DEFINE done == at_queue_remove_cmd(p, res)
            q == p.at_queue
            task == q[1]
<1>1. /\ TasksOK(q) /\ q # <<>> /\ task \in Tasks /\ TaskWellFormed(task)
      /\ \A j \in DOMAIN task.cmds : j > task.cindex + 1 => task.cmds[j].length = 1
  BY HeadIsTask, QueueOKIsTasksOK DEF QueueEmpty, QueueOK, HeadAloneBegun
<1>2. done \in [at_queue : Seq(Tasks), at_tasks : Int, at_cmds : Int]
  BY RemoveCmdEffect
<1>3. CASE TaskOver(p, res)
  <2>1. done.at_queue = Tail(q)
    BY <1>3, RemoveCmdEffect
  <2>2. /\ QueueOK(done)
        /\ LiveIds(done.at_queue) = LiveIds(q) \ {task.id}
        /\ ~QueueEmpty(done) => Unbegun(done.at_queue[1])
    BY <1>1, <1>2, <2>1, TailOK, QueueOKIsTasksOK DEF QueueEmpty
  <2>. HIDE DEF done
  <2>3. ~QueueEmpty(done) => at_queue_head_cmd(done).length = 1
    <3>. SUFFICES ASSUME ~QueueEmpty(done) PROVE at_queue_head_cmd(done).length = 1
      OBVIOUS
    <3>1. /\ at_queue_head_cmd(done) = done.at_queue[1].cmds[done.at_queue[1].cindex + 1]
          /\ done.at_queue[1].cindex + 1 \in DOMAIN done.at_queue[1].cmds
      BY <2>2, HeadIsTask
    <3>. QED  BY <2>2, <3>1 DEF Unbegun
  <2>. QED  BY <1>3, <2>2, <2>3 DEF done
<1>4. CASE ~TaskOver(p, res)
  <2>. DEFINE step == Advanced(task)
  <2>1. done.at_queue = [q EXCEPT ![1] = step]
    BY <1>4, RemoveCmdEffect
  <2>2. step \in Tasks /\ step.cindex = task.cindex + 1 /\ step.cmds = task.cmds /\ step.id = task.id
    BY <1>1, AdvancedTask
  <2>3. ~(task.cindex + 1 >= Len(task.cmds)) /\ task.cindex \in Nat /\ Len(task.cmds) \in Nat
        /\ DOMAIN task.cmds = 1 .. Len(task.cmds)
    <3>1. at_queue_head_task(p) = task
      BY HeadIsTask
    <3>2. ~(task.cindex + 1 >= Len(task.cmds))
      BY <1>4, <3>1 DEF TaskOver
    <3>. QED  BY <1>1, <3>2, AdvancedTask
  <2>. HIDE DEF step
  <2>4. TaskWellFormed(step)
    BY <1>1, <2>2, <2>3 DEF TaskWellFormed
  <2>5. \A j \in DOMAIN step.cmds : j > step.cindex + 1 => step.cmds[j].length = 1
    BY <1>1, <2>2, <2>3
  <2>6. /\ TasksOK(done.at_queue) /\ done.at_queue # <<>>
        /\ done.at_queue[1] = step /\ LiveIds(done.at_queue) = LiveIds(q)
    BY <1>1, <2>1, <2>2, <2>4, <2>5, HeadChangedOK
  <2>7. QueueOK(done)
    BY <1>2, <2>6, QueueOKIsTasksOK
  <2>. HIDE DEF done
  <2>8. at_queue_head_cmd(done).length = 1
    <3>1. at_queue_head_cmd(done) = done.at_queue[1].cmds[done.at_queue[1].cindex + 1]
      BY <2>6, <2>7, HeadIsTask DEF QueueEmpty
    <3>. DEFINE k == step.cindex + 1
    <3>2. k \in DOMAIN task.cmds /\ k > task.cindex + 1
      BY <2>2, <2>3, SMTT(20)
    <3>. HIDE DEF k
    <3>3. task.cmds[k].length = 1
      BY <1>1, <3>2
    <3>. QED  BY <2>2, <2>6, <3>1, <3>3 DEF k
  <2>. QED  BY <1>4, <2>6, <2>7, <2>8 DEF step, QueueEmpty, done
<1>. QED  BY <1>3, <1>4

\* The head task with its current command written.
Written(task) == [task EXCEPT !.cmds[task.cindex + 1].length = 0]

LEMMA WrittenTask ==
    ASSUME NEW task \in Tasks, TaskWellFormed(task)
    PROVE  LET w == Written(task)
               k == task.cindex + 1
           IN  /\ w \in Tasks
               /\ TaskWellFormed(w)
               /\ w.id = task.id /\ w.cpvt = task.cpvt /\ w.cindex = task.cindex
               /\ Len(w.cmds) = Len(task.cmds)
               /\ k \in DOMAIN task.cmds
               /\ DOMAIN w.cmds = DOMAIN task.cmds
               /\ w.cmds[k].length = 0
               /\ w.cmds[k].cmd = task.cmds[k].cmd
               /\ w.cmds[k].res = task.cmds[k].res
               /\ w.cmds[k].ign = task.cmds[k].ign
               /\ \A j \in DOMAIN task.cmds : j # k => w.cmds[j] = task.cmds[j]
<1>. DEFINE k == task.cindex + 1
            c == [task.cmds[k] EXCEPT !.length = 0]
            cs == [task.cmds EXCEPT ![k] = c]
            w == [task EXCEPT !.cmds = cs]
<1>1. /\ task.cmds \in Seq(CommandsOfLength({0, 1})) /\ task.cindex \in Nat
      /\ k \in 1 .. Len(task.cmds) /\ DOMAIN task.cmds = 1 .. Len(task.cmds)
      /\ Len(task.cmds) \in Nat
  BY DEF Tasks, TaskWellFormed
<1>2. Written(task) = w
  BY DEF Written
<1>. HIDE DEF k
<1>3. /\ c \in CommandsOfLength({0, 1}) /\ c.length = 0
      /\ c.cmd = task.cmds[k].cmd /\ c.res = task.cmds[k].res /\ c.ign = task.cmds[k].ign
  <2>1. task.cmds[k] \in CommandsOfLength({0, 1})
    BY <1>1
  <2>. QED  BY <2>1 DEF CommandsOfLength
<1>. HIDE DEF c
<1>4. /\ cs \in Seq(CommandsOfLength({0, 1})) /\ Len(cs) = Len(task.cmds)
      /\ \A j \in 1 .. Len(task.cmds) : cs[j] = IF j = k THEN c ELSE task.cmds[j]
  BY <1>1, <1>3, ExceptSeq
<1>5. DOMAIN cs = 1 .. Len(task.cmds)
  BY <1>4, LenProperties
<1>. HIDE DEF cs
<1>6. /\ w \in Tasks /\ w.cmds = cs
      /\ w.id = task.id /\ w.cpvt = task.cpvt /\ w.cindex = task.cindex
  BY <1>4 DEF Tasks
<1>. HIDE DEF w
<1>7. TaskWellFormed(w)
  <2>1. \A j \in 1 .. Len(task.cmds) : /\ cs[j].cmd = task.cmds[j].cmd
                                       /\ cs[j].res = task.cmds[j].res
                                       /\ cs[j].ign = task.cmds[j].ign
    BY <1>3, <1>4
  <2>2. TextsPrompted(task.cmds)
    BY DEF TaskWellFormed
  <2>3. TextsPrompted(cs)
    <3>1. SUFFICES ASSUME NEW j \in 1 .. Len(task.cmds)
                   PROVE  /\ cs[j].cmd = "SMSTEXT" => /\ cs[j].res = "OK"
                                                     /\ j > 1
                                                     /\ cs[j - 1].res = "SMS_PROMPT"
                          /\ cs[j].res = "SMS_PROMPT" => /\ ~cs[j].ign
                                                        /\ j < Len(cs)
                                                        /\ cs[j + 1].cmd = "SMSTEXT"
      BY <1>5 DEF TextsPrompted
    <3>2. /\ j > 1 => j - 1 \in 1 .. Len(task.cmds)
          /\ j < Len(task.cmds) => j + 1 \in 1 .. Len(task.cmds)
      BY <1>1
    <3>. QED  BY <1>1, <1>4, <2>1, <2>2, <3>2 DEF TextsPrompted
  <2>. QED  BY <1>1, <1>4, <1>6, <2>3 DEF TaskWellFormed
<1>. QED  BY <1>1, <1>2, <1>3, <1>4, <1>5, <1>6, <1>7 DEF k

LEMMA MarkWrittenOK ==
    ASSUME NEW p, QueueOK(p), ~QueueEmpty(p)
    PROVE  LET w == MarkWritten(p)
           IN  /\ QueueOK(w)
               /\ w.at_queue = [p.at_queue EXCEPT ![1] = Written(p.at_queue[1])]
               /\ w.at_queue[1] = Written(p.at_queue[1])
               /\ w.at_tasks = p.at_tasks
               /\ w.at_cmds = p.at_cmds
               /\ LiveIds(w.at_queue) = LiveIds(p.at_queue)
               /\ HeadWritten(w)
               /\ OnLine(w) = OnLine(p)
<1>. DEFINE q == p.at_queue
            task == q[1]
            t == Written(task)
            r == [q EXCEPT ![1] = t]
            w == [p EXCEPT !.at_queue = r]
<1>1. /\ TasksOK(q) /\ q # <<>> /\ task \in Tasks /\ TaskWellFormed(task)
      /\ \A j \in DOMAIN task.cmds : j > task.cindex + 1 => task.cmds[j].length = 1
      /\ p \in [at_queue : Seq(Tasks), at_tasks : Int, at_cmds : Int]
  BY HeadIsTask, QueueOKIsTasksOK DEF QueueEmpty, QueueOK, HeadAloneBegun
<1>2. MarkWritten(p) = w
  BY DEF MarkWritten, Written
<1>3. /\ t \in Tasks /\ TaskWellFormed(t) /\ t.id = task.id
      /\ t.cindex = task.cindex
      /\ DOMAIN t.cmds = DOMAIN task.cmds
      /\ task.cindex \in Nat /\ DOMAIN task.cmds \subseteq Nat
      /\ t.cmds[task.cindex + 1].length = 0
      /\ t.cmds[task.cindex + 1].cmd = task.cmds[task.cindex + 1].cmd
      /\ t.cmds[task.cindex + 1].res = task.cmds[task.cindex + 1].res
      /\ \A j \in DOMAIN task.cmds : j # task.cindex + 1 => t.cmds[j] = task.cmds[j]
  <2>1. task.cindex \in Nat /\ DOMAIN task.cmds \subseteq Nat
    BY <1>1 DEF Tasks
  <2>. QED  BY <1>1, <2>1, WrittenTask
<1>. HIDE DEF t
<1>4. \A j \in DOMAIN t.cmds : j > t.cindex + 1 => t.cmds[j].length = 1
  BY <1>1, <1>3
<1>5. /\ TasksOK(r) /\ r # <<>> /\ r[1] = t /\ LiveIds(r) = LiveIds(q)
  BY <1>1, <1>3, <1>4, HeadChangedOK
<1>. HIDE DEF r
<1>6. /\ w \in [at_queue : Seq(Tasks), at_tasks : Int, at_cmds : Int]
      /\ w.at_queue = r /\ w.at_tasks = p.at_tasks /\ w.at_cmds = p.at_cmds
  BY <1>1, <1>5 DEF TasksOK
<1>. HIDE DEF w
<1>7. QueueOK(w) /\ ~QueueEmpty(w)
  BY <1>5, <1>6, QueueOKIsTasksOK DEF QueueEmpty
<1>8. /\ at_queue_head_task(w) = t /\ at_queue_head_task(p) = task
      /\ at_queue_head_cmd(w) = t.cmds[t.cindex + 1]
      /\ at_queue_head_cmd(p) = task.cmds[task.cindex + 1]
  BY <1>5, <1>6, <1>7, HeadIsTask
<1>9. HeadWritten(w) /\ OnLine(w) = OnLine(p)
  BY <1>3, <1>7, <1>8 DEF HeadWritten, OnLine, at_queue_head_cmd
<1>. QED  BY <1>2, <1>5, <1>6, <1>7, <1>9 DEF t, r

LEMMA HeadLength ==
    ASSUME NEW p, QueueOK(p)
    PROVE  /\ ~QueueEmpty(p) <=> HeadUnwritten(p) \/ HeadWritten(p)
           /\ ~(HeadUnwritten(p) /\ HeadWritten(p))
           /\ HeadUnwritten(p) <=> ~QueueEmpty(p) /\ at_queue_head_cmd(p).length = 1
<1>1. ~QueueEmpty(p) => at_queue_head_cmd(p).length \in {0, 1}
  BY HeadIsTask DEF CommandsOfLength
<1>. QED  BY <1>1 DEF HeadUnwritten, HeadWritten

\* at_queue_run: nothing, a write, or the loss of what could not be written.
LEMMA RunOK ==
    ASSUME NEW p, QueueOK(p), NEW ok \in BOOLEAN
    PROVE  LET ran == at_queue_run(p, ok)
           IN  /\ QueueOK(ran)
               /\ LiveIds(ran.at_queue) \subseteq LiveIds(p.at_queue)
               /\ ~HeadUnwritten(p) => ran = p
               /\ RunWrites(p, ok) => HeadWritten(ran) /\ OnLine(ran) = OnLine(p)
               /\ RunFails(p, ok) => ~HeadWritten(ran)
<1>1. CASE HeadUnwritten(p) /\ ok
  <2>1. at_queue_run(p, ok) = MarkWritten(p) /\ ~QueueEmpty(p)
    BY <1>1 DEF at_queue_run, HeadUnwritten
  <2>. QED  BY <1>1, <2>1, MarkWrittenOK DEF RunWrites, RunFails
<1>2. CASE HeadUnwritten(p) /\ ~ok
  <2>1. at_queue_run(p, ok) = at_queue_remove_cmd(p, WRITE_FAILED) /\ ~QueueEmpty(p)
    BY <1>2 DEF at_queue_run, HeadUnwritten
  <2>. DEFINE ran == at_queue_run(p, ok)
  <2>2. /\ QueueOK(ran) /\ LiveIds(ran.at_queue) \subseteq LiveIds(p.at_queue)
        /\ ~QueueEmpty(ran) => at_queue_head_cmd(ran).length = 1
    BY <2>1, RemoveCmdOK
  <2>3. ~HeadWritten(ran)
    BY <2>2 DEF HeadWritten
  <2>. QED  BY <1>2, <2>2, <2>3 DEF RunWrites, RunFails
<1>3. CASE ~HeadUnwritten(p)
  BY <1>3 DEF at_queue_run, RunWrites, RunFails
<1>. QED  BY <1>1, <1>2, <1>3

-----------------------------------------------------------------------------
(* The counters                                                            *)

LEMMA TaskPendingCount ==
    ASSUME NEW task \in Tasks, task.cindex <= Len(task.cmds)
    PROVE  /\ IsFiniteSet(TaskPending(task))
           /\ Cardinality(TaskPending(task)) = Len(task.cmds) - task.cindex
<1>. DEFINE ks == (task.cindex + 1) .. Len(task.cmds)
<1>1. task.cindex \in Nat /\ Len(task.cmds) \in Nat
  BY DEF Tasks
<1>2. IsFiniteSet(ks) /\ Cardinality(ks) = Len(task.cmds) - task.cindex
  <2>. DEFINE a == task.cindex + 1
              b == Len(task.cmds)
  <2>1. a \in Int /\ b \in Int
    BY <1>1
  <2>2. IsFiniteSet(a .. b) /\ Cardinality(a .. b) = IF a > b THEN 0 ELSE b - a + 1
    BY <2>1, FS_Interval
  <2>3. (IF a > b THEN 0 ELSE b - a + 1) = Len(task.cmds) - task.cindex
    BY <1>1
  <2>. QED  BY <2>2, <2>3
<1>3. IsFiniteSet({task.id}) /\ Cardinality({task.id}) = 1
  BY FS_Singleton
<1>4. TaskPending(task) = {task.id} \X ks
  BY DEF TaskPending
<1>. HIDE DEF ks
<1>5. /\ IsFiniteSet({task.id} \X ks)
      /\ Cardinality({task.id} \X ks) = 1 * Cardinality(ks)
  BY <1>2, <1>3, FS_Product
<1>. QED  BY <1>1, <1>2, <1>4, <1>5

LEMMA PendingFinite ==
    ASSUME NEW q, TasksOK(q)
    PROVE  /\ IsFiniteSet(PendingCmds(q))
           /\ Cardinality(PendingCmds(q)) \in Nat
<1>. DEFINE I == DOMAIN q
            S == {TaskPending(q[i]) : i \in I}
            f == [i \in I |-> TaskPending(q[i])]
<1>1. IsFiniteSet(I)
  <2>1. I = 1 .. Len(q) /\ Len(q) \in Nat
    BY LenProperties DEF TasksOK
  <2>. QED  BY <2>1, FS_Interval
<1>2. f \in Surjection(I, S)
  BY DEF Surjection
<1>3. IsFiniteSet(S)
  BY <1>1, <1>2, FS_Surjection
<1>4. \A T \in S : IsFiniteSet(T)
  <2>. SUFFICES ASSUME NEW i \in I PROVE IsFiniteSet(TaskPending(q[i]))
    OBVIOUS
  <2>1. q[i] \in Tasks /\ TaskWellFormed(q[i])
    BY DEF TasksOK
  <2>2. q[i].cindex <= Len(q[i].cmds)
    BY <2>1 DEF TaskWellFormed, Tasks
  <2>. QED  BY <2>1, <2>2, TaskPendingCount
<1>5. IsFiniteSet(UNION S)
  BY <1>3, <1>4, FS_UNION
<1>. QED  BY <1>5, FS_CardinalityType DEF PendingCmds

\* A pending command belongs to a task of the queue.
LEMMA PendingAt ==
    ASSUME NEW q, NEW c
    PROVE  c \in PendingCmds(q) <=>
              \E i \in DOMAIN q : \E k \in (q[i].cindex + 1) .. Len(q[i].cmds) :
                 c = <<q[i].id, k>>
BY DEF PendingCmds, TaskPending

LEMMA InsertedPending ==
    ASSUME NEW q, TasksOK(q), NEW task \in Tasks, TaskWellFormed(task),
           task.id \notin LiveIds(q), NEW athead,
           TasksOK(Inserted(q, task, athead))
    PROVE  Cardinality(PendingCmds(Inserted(q, task, athead))) =
              Cardinality(PendingCmds(q)) + (Len(task.cmds) - task.cindex)
<1>. DEFINE r == Inserted(q, task, athead)
<1>1. PendingCmds(r) = PendingCmds(q) \union TaskPending(task)
  <2>1. /\ DOMAIN q = 1 .. Len(q) /\ Len(q) \in Nat
        /\ r \in Seq(Tasks) /\ DOMAIN r = 1 .. Len(q) + 1
    BY InsertedAt DEF TasksOK
  <2>2. PICK at \in 1 .. Len(q) + 1 :
           \A i \in 1 .. Len(q) + 1 :
              r[i] = IF i = at THEN task ELSE IF i < at THEN q[i] ELSE q[i - 1]
    BY InsertedAt DEF TasksOK
  <2>. HIDE DEF r
  <2>3. \A i \in DOMAIN r : r[i] = task \/ \E j \in DOMAIN q : r[i] = q[j]
    <3>. TAKE i \in DOMAIN r
    <3>1. CASE i = at  BY <3>1, <2>1, <2>2
    <3>2. CASE i < at  BY <3>2, <2>1, <2>2
    <3>3. CASE i > at
      <4>1. i - 1 \in DOMAIN q /\ r[i] = q[i - 1]
        BY <3>3, <2>1, <2>2
      <4>. QED  BY <4>1
    <3>. QED  BY <3>1, <3>2, <3>3, <2>1
  <2>4. \A j \in DOMAIN q : \E i \in DOMAIN r : r[i] = q[j]
    <3>. TAKE j \in DOMAIN q
    <3>1. CASE j < at  BY <3>1, <2>1, <2>2
    <3>2. CASE j >= at
      <4>1. j + 1 \in DOMAIN r /\ r[j + 1] = q[(j + 1) - 1] /\ (j + 1) - 1 = j
        BY <3>2, <2>1, <2>2
      <4>. QED  BY <4>1
    <3>. QED  BY <3>1, <3>2, <2>1
  <2>5. at \in DOMAIN r /\ r[at] = task
    BY <2>1, <2>2
  <2>. QED  BY <2>3, <2>4, <2>5 DEF PendingCmds
<1>2. PendingCmds(q) \intersect TaskPending(task) = {}
  BY PendingAt DEF TaskPending, LiveIds
<1>3. task.cindex <= Len(task.cmds) /\ Len(task.cmds) - task.cindex \in Nat
  BY DEF TaskWellFormed, Tasks
<1>4. /\ IsFiniteSet(TaskPending(task))
      /\ Cardinality(TaskPending(task)) = Len(task.cmds) - task.cindex
  BY <1>3, TaskPendingCount
<1>5. IsFiniteSet(PendingCmds(q)) /\ Cardinality(PendingCmds(q)) \in Nat
  BY PendingFinite
<1>6. Cardinality(PendingCmds(q) \union TaskPending(task)) =
         Cardinality(PendingCmds(q)) + Cardinality(TaskPending(task)) - Cardinality({})
  BY <1>2, <1>4, <1>5, FS_Union
<1>. HIDE DEF r
<1>. QED  BY <1>1, <1>3, <1>4, <1>5, <1>6, FS_EmptySet DEF r

\* What takes a part T out of the pending commands takes its size off the count.
LEMMA PendingShrinks ==
    ASSUME NEW q, TasksOK(q), NEW r, NEW T, T \subseteq PendingCmds(q),
           PendingCmds(r) = PendingCmds(q) \ T
    PROVE  Cardinality(PendingCmds(r)) = Cardinality(PendingCmds(q)) - Cardinality(T)
<1>1. PendingCmds(q) \intersect T = T
  OBVIOUS
<1>. QED  BY <1>1, PendingFinite, FS_Difference

LEMMA TailPending ==
    ASSUME NEW q, TasksOK(q), q # <<>>
    PROVE  Cardinality(PendingCmds(Tail(q))) =
              Cardinality(PendingCmds(q)) - (Len(q[1].cmds) - q[1].cindex)
<1>. DEFINE r == Tail(q)
<1>1. /\ DOMAIN q = 1 .. Len(q) /\ Len(q) \in Nat /\ Len(q) > 0 /\ q[1] \in Tasks
      /\ DOMAIN r = 1 .. Len(q) - 1
      /\ \A i \in DOMAIN r : r[i] = q[i + 1]
      /\ TaskWellFormed(q[1])
  BY DEF TasksOK
<1>. HIDE DEF r
<1>2. \A i \in DOMAIN q : i # 1 =>
         /\ i - 1 \in DOMAIN r /\ r[i - 1] = q[i]
         /\ q[i].id # q[1].id
  <2>. SUFFICES ASSUME NEW i \in DOMAIN q, i # 1
                PROVE  i - 1 \in DOMAIN r /\ r[i - 1] = q[i] /\ q[i].id # q[1].id
    OBVIOUS
  <2>1. i - 1 \in DOMAIN r /\ (i - 1) + 1 = i
    BY <1>1
  <2>2. q[i].id # q[1].id
    BY <1>1 DEF TasksOK, IdsUnique
  <2>. QED  BY <2>1, <2>2, <1>1
<1>3. \A i \in DOMAIN r : i + 1 \in DOMAIN q /\ i + 1 # 1
  BY <1>1
<1>4. PendingCmds(r) = PendingCmds(q) \ TaskPending(q[1])
  <2>1. ASSUME NEW c \in PendingCmds(r) PROVE c \in PendingCmds(q) \ TaskPending(q[1])
    <3>1. PICK i \in DOMAIN r : c \in TaskPending(r[i])
      BY DEF PendingCmds
    <3>2. i + 1 \in DOMAIN q /\ c \in TaskPending(q[i + 1]) /\ q[i + 1].id # q[1].id
      BY <3>1, <1>1, <1>2, <1>3
    <3>. QED  BY <3>2 DEF PendingCmds, TaskPending
  <2>2. ASSUME NEW c \in PendingCmds(q), c \notin TaskPending(q[1])
        PROVE  c \in PendingCmds(r)
    <3>1. PICK i \in DOMAIN q : c \in TaskPending(q[i])
      BY DEF PendingCmds
    <3>2. i # 1
      BY <3>1, <2>2
    <3>. QED  BY <3>1, <3>2, <1>2 DEF PendingCmds
  <2>. QED  BY <2>1, <2>2
<1>5. TaskPending(q[1]) \subseteq PendingCmds(q)
  BY <1>1 DEF PendingCmds
<1>6. Cardinality(TaskPending(q[1])) = Len(q[1].cmds) - q[1].cindex
  <2>1. q[1].cindex <= Len(q[1].cmds)
    BY <1>1 DEF TaskWellFormed, Tasks
  <2>. QED  BY <1>1, <2>1, TaskPendingCount
<1>. QED  BY <1>4, <1>5, <1>6, PendingShrinks DEF r

LEMMA AdvancedPending ==
    ASSUME NEW q, TasksOK(q), q # <<>>
    PROVE  Cardinality(PendingCmds([q EXCEPT ![1] = Advanced(q[1])])) =
              Cardinality(PendingCmds(q)) - 1
<1>. DEFINE task == q[1]
            t == Advanced(task)
            r == [q EXCEPT ![1] = t]
            c == <<task.id, task.cindex + 1>>
<1>1. /\ q \in Seq(Tasks) /\ Len(q) \in Nat /\ Len(q) > 0 /\ DOMAIN q = 1 .. Len(q)
      /\ task \in Tasks /\ TaskWellFormed(task)
  BY DEF TasksOK
<1>2. /\ t \in Tasks /\ t.cindex = task.cindex + 1 /\ t.cmds = task.cmds /\ t.id = task.id
      /\ task.cindex \in Nat /\ Len(task.cmds) \in Nat
  BY <1>1, AdvancedTask
<1>. HIDE DEF t
<1>3. /\ DOMAIN r = DOMAIN q
      /\ r[1] = t /\ \A i \in DOMAIN q : i # 1 => r[i] = q[i]
  BY <1>1, <1>2, ExceptSeq
<1>. HIDE DEF r
<1>4. \A d : d \in TaskPending(task) <=> d = c \/ d \in TaskPending(t)
  BY <1>1, <1>2 DEF TaskPending, TaskWellFormed
<1>5. c \notin TaskPending(t) /\ c \in TaskPending(task)
  BY <1>1, <1>2, <1>4 DEF TaskPending
<1>6. \A i \in DOMAIN q : i # 1 => c \notin TaskPending(q[i])
  BY <1>1 DEF TaskPending, TasksOK, IdsUnique
<1>. HIDE DEF c, task
<1>7. PendingCmds(r) = PendingCmds(q) \ {c}
  <2>1. ASSUME NEW d \in PendingCmds(r) PROVE d \in PendingCmds(q) \ {c}
    <3>1. PICK i \in DOMAIN q : d \in TaskPending(r[i])
      BY <1>3 DEF PendingCmds
    <3>2. CASE i = 1
      <4>1. d \in TaskPending(t) /\ d # c
        BY <3>1, <3>2, <1>3, <1>5
      <4>2. d \in TaskPending(q[1])
        BY <4>1, <1>4 DEF task
      <4>. QED  BY <3>2, <4>1, <4>2 DEF PendingCmds
    <3>3. CASE i # 1
      BY <3>1, <3>3, <1>3, <1>6 DEF PendingCmds
    <3>. QED  BY <3>2, <3>3
  <2>2. ASSUME NEW d \in PendingCmds(q), d # c PROVE d \in PendingCmds(r)
    <3>1. PICK i \in DOMAIN q : d \in TaskPending(q[i])
      BY DEF PendingCmds
    <3>2. d \in TaskPending(r[i])
      BY <3>1, <2>2, <1>3, <1>4 DEF task
    <3>. QED  BY <3>1, <3>2, <1>3 DEF PendingCmds
  <2>. QED  BY <2>1, <2>2
<1>8. {c} \subseteq PendingCmds(q)
  BY <1>1, <1>5 DEF PendingCmds, task
<1>9. Cardinality({c}) = 1
  BY FS_Singleton
<1>10. TasksOK(q)
  OBVIOUS
<1>11. Cardinality(PendingCmds(r)) = Cardinality(PendingCmds(q)) - Cardinality({c})
  BY ONLY <1>7, <1>8, <1>10, PendingShrinks
<1>. QED  BY <1>9, <1>11 DEF r, t, task

LEMMA WrittenPending ==
    ASSUME NEW q, TasksOK(q), q # <<>>
    PROVE  PendingCmds([q EXCEPT ![1] = Written(q[1])]) = PendingCmds(q)
<1>. DEFINE t == Written(q[1])
            r == [q EXCEPT ![1] = t]
<1>1. /\ q \in Seq(Tasks) /\ Len(q) \in Nat /\ Len(q) > 0 /\ DOMAIN q = 1 .. Len(q)
      /\ q[1] \in Tasks /\ TaskWellFormed(q[1])
  BY DEF TasksOK
<1>2. /\ t \in Tasks /\ t.cindex = q[1].cindex /\ Len(t.cmds) = Len(q[1].cmds) /\ t.id = q[1].id
  BY <1>1, WrittenTask
<1>. HIDE DEF t
<1>3. /\ DOMAIN r = DOMAIN q
      /\ r[1] = t /\ \A i \in DOMAIN q : i # 1 => r[i] = q[i]
  BY <1>1, <1>2, ExceptSeq
<1>. HIDE DEF r
<1>4. \A i \in DOMAIN q : TaskPending(r[i]) = TaskPending(q[i])
  BY <1>2, <1>3 DEF TaskPending
<1>. QED  BY <1>3, <1>4 DEF PendingCmds, r, t

\* The counters of p say what is in its queue.
Counted(p) ==
    /\ p.at_tasks = Len(p.at_queue)
    /\ p.at_cmds = Cardinality(PendingCmds(p.at_queue))

LEMMA AddCounted ==
    ASSUME NEW p, QueueOK(p), Counted(p), NEW id \in TaskId \ LiveIds(p.at_queue),
           NEW cpvt \in Cpvt, NEW job, IsJob(job)
    PROVE  Counted(at_queue_add(p, NewTask(id, cpvt, job), job.athead))
<1>. DEFINE task == NewTask(id, cpvt, job)
            added == at_queue_add(p, task, job.athead)
            q == p.at_queue
<1>1. /\ task \in Tasks /\ TaskWellFormed(task) /\ task.id = id
      /\ task.cmds = job.cmds /\ task.cindex = 0 /\ Len(task.cmds) \in Nat
  <2>1. task \in Tasks /\ TaskWellFormed(task)
    BY NewTaskOK
  <2>. QED  BY <2>1 DEF NewTask, Tasks
<1>2. /\ p \in [at_queue : Seq(Tasks), at_tasks : Int, at_cmds : Int] /\ TasksOK(q)
      /\ QueueOK(added)
  BY AddOK, QueueOKIsTasksOK
<1>. HIDE DEF task
<1>3. /\ added.at_queue = Inserted(q, task, job.athead)
      /\ added.at_tasks = p.at_tasks + 1
      /\ added.at_cmds = p.at_cmds + Len(task.cmds)
  BY <1>1, <1>2, AddFields
<1>. HIDE DEF added
<1>4. TasksOK(added.at_queue) /\ Len(added.at_queue) = Len(q) + 1
  BY <1>1, <1>2, <1>3, InsertedAt, QueueOKIsTasksOK DEF TasksOK
<1>5. Cardinality(PendingCmds(added.at_queue)) =
         Cardinality(PendingCmds(q)) + (Len(task.cmds) - task.cindex)
  BY <1>1, <1>2, <1>3, <1>4, InsertedPending
<1>6. Len(task.cmds) - task.cindex = Len(task.cmds)
  BY <1>1
<1>. QED  BY <1>3, <1>4, <1>5, <1>6 DEF Counted, added, task

LEMMA RemoveCmdCounted ==
    ASSUME NEW p, QueueOK(p), Counted(p), ~QueueEmpty(p), NEW res
    PROVE  Counted(at_queue_remove_cmd(p, res))
<1>. DEFINE done == at_queue_remove_cmd(p, res)
            q == p.at_queue
<1>1. /\ TasksOK(q) /\ q # <<>> /\ q \in Seq(Tasks) /\ Len(q) \in Nat /\ Len(q) > 0
      /\ q[1] \in Tasks
  BY QueueOKIsTasksOK DEF TasksOK, QueueEmpty
<1>2. CASE TaskOver(p, res)
  <2>1. /\ done.at_queue = Tail(q) /\ done.at_tasks = p.at_tasks - 1
        /\ done.at_cmds = p.at_cmds - (Len(q[1].cmds) - q[1].cindex)
    BY <1>2, RemoveCmdEffect
  <2>2. /\ Len(Tail(q)) = Len(q) - 1
        /\ Cardinality(PendingCmds(Tail(q))) =
              Cardinality(PendingCmds(q)) - (Len(q[1].cmds) - q[1].cindex)
    BY <1>1, TailOK, TailPending
  <2>3. p.at_tasks = Len(q) /\ p.at_cmds = Cardinality(PendingCmds(q))
    BY DEF Counted
  <2>. QED  BY <2>1, <2>2, <2>3 DEF Counted
<1>3. CASE ~TaskOver(p, res)
  <2>1. /\ done.at_queue = [q EXCEPT ![1] = Advanced(q[1])]
        /\ done.at_tasks = p.at_tasks /\ done.at_cmds = p.at_cmds - 1
    BY <1>3, RemoveCmdEffect
  <2>2. Len(done.at_queue) = Len(q)
    BY <1>1, <2>1, AdvancedTask, ExceptSeq
  <2>. QED  BY <1>1, <2>1, <2>2, AdvancedPending DEF Counted
<1>. QED  BY <1>2, <1>3

LEMMA RunCounted ==
    ASSUME NEW p, QueueOK(p), Counted(p), NEW ok \in BOOLEAN
    PROVE  Counted(at_queue_run(p, ok))
<1>1. CASE HeadUnwritten(p) /\ ok
  <2>1. at_queue_run(p, ok) = MarkWritten(p) /\ ~QueueEmpty(p)
    BY <1>1 DEF at_queue_run, HeadUnwritten
  <2>2. TasksOK(p.at_queue) /\ p.at_queue # <<>> /\ p.at_queue[1] \in Tasks
        /\ TaskWellFormed(p.at_queue[1]) /\ p.at_queue \in Seq(Tasks) /\ 1 \in 1 .. Len(p.at_queue)
    BY <2>1, QueueOKIsTasksOK DEF TasksOK, QueueEmpty
  <2>3. Len([p.at_queue EXCEPT ![1] = Written(p.at_queue[1])]) = Len(p.at_queue)
    BY <2>2, WrittenTask, ExceptSeq
  <2>4. PendingCmds([p.at_queue EXCEPT ![1] = Written(p.at_queue[1])]) = PendingCmds(p.at_queue)
    BY <2>2, WrittenPending
  <2>5. LET w == MarkWritten(p)
        IN  /\ w.at_queue = [p.at_queue EXCEPT ![1] = Written(p.at_queue[1])]
            /\ w.at_tasks = p.at_tasks /\ w.at_cmds = p.at_cmds
    BY <2>1, MarkWrittenOK
  <2>. QED  BY <2>1, <2>3, <2>4, <2>5 DEF Counted
<1>2. CASE HeadUnwritten(p) /\ ~ok
  BY <1>2, RemoveCmdCounted DEF at_queue_run, HeadUnwritten
<1>3. CASE ~HeadUnwritten(p)
  BY <1>3 DEF at_queue_run
<1>. QED  BY <1>1, <1>2, <1>3

\* A flush leaves an empty queue, and both counters at zero if they were right.
LEMMA FlushOK ==
    ASSUME NEW p, QueueOK(p)
    PROVE  LET flushed == at_queue_flush(p)
           IN  /\ QueueOK(flushed)
               /\ QueueEmpty(flushed)
               /\ Counted(p) => Counted(flushed)
<1>. DEFINE t == p.at_tasks - Len(p.at_queue)
            c == p.at_cmds - Cardinality(PendingCmds(p.at_queue))
            none == <<>>
            flushed == [p EXCEPT !.at_queue = none, !.at_tasks = t, !.at_cmds = c]
<1>1. /\ p \in [at_queue : Seq(Tasks), at_tasks : Int, at_cmds : Int]
      /\ Len(p.at_queue) \in Nat /\ Cardinality(PendingCmds(p.at_queue)) \in Nat
  BY PendingFinite, QueueOKIsTasksOK DEF TasksOK
<1>2. t \in Int /\ c \in Int
  BY <1>1
<1>3. Counted(p) => t = 0 /\ c = 0
  BY <1>1 DEF Counted
<1>4. at_queue_flush(p) = flushed
  BY DEF at_queue_flush
<1>. HIDE DEF t, c
<1>4a. none \in Seq(Tasks)
  OBVIOUS
<1>. HIDE DEF none
<1>5. /\ flushed.at_queue = none /\ flushed.at_tasks = t /\ flushed.at_cmds = c
      /\ flushed \in [at_queue : Seq(Tasks), at_tasks : Int, at_cmds : Int]
  BY <1>1, <1>2, <1>4a
<1>. HIDE DEF flushed
<1>6. QueueOK(flushed) /\ QueueEmpty(flushed)
  BY <1>5 DEF none, QueueOK, QueueEmpty, IdsUnique, HeadAloneBegun
<1>7. Counted(p) => Counted(flushed)
  <2>1. PendingCmds(<<>>) = {}
    BY DEF PendingCmds
  <2>. QED  BY <1>3, <1>5, <2>1, FS_EmptySet DEF none, Counted
<1>. QED  BY <1>4, <1>6, <1>7
=============================================================================
