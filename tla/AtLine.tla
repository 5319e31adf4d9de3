------------------------------- MODULE AtLine -------------------------------
(***************************************************************************)
(* What the AT channel of a device promises, whatever order jobs are       *)
(* queued in: the line to the modem belongs to one job at a time, from its *)
(* first command to its last; the modem has at most one command at a time; *)
(* and a job's commands are given to it one after the other, each once.    *)
(***************************************************************************)
EXTENDS Naturals

CONSTANTS Task, NoTask

VARIABLES
    owner,  \* the job the line belongs to, or NoTask
    pos,    \* how many of its commands are done with
    busy    \* the modem has the command number pos + 1 and was not heard since

vars == <<owner, pos, busy>>

Init == owner = NoTask /\ pos = 0 /\ busy = FALSE

\* A job gets the free line with its first command...
Claim(t) == owner = NoTask /\ owner' = t /\ pos' = 0 /\ busy' = TRUE

\* ...or by giving up a first command that could not be written.
ClaimSkipping(t) == owner = NoTask /\ owner' = t /\ pos' = 1 /\ busy' = FALSE

\* The owner's next command goes out, after the result of the one before.
Continue == owner # NoTask /\ ~busy /\ busy' = TRUE /\ UNCHANGED <<owner, pos>>

\* The owner gives up a command that could not be written.
Skip == owner # NoTask /\ ~busy /\ pos' = pos + 1 /\ UNCHANGED <<owner, busy>>

\* The modem's result moves the owner on.
Answered == owner # NoTask /\ busy /\ busy' = FALSE /\ pos' = pos + 1 /\ UNCHANGED owner

\* The owner is done, gives up, or loses the line with the connection.
Release == owner # NoTask /\ owner' = NoTask /\ pos' = 0 /\ busy' = FALSE

Next ==
    \/ \E t \in Task : Claim(t) \/ ClaimSkipping(t)
    \/ Continue \/ Skip \/ Answered \/ Release

Spec == Init /\ [][Next]_vars
=============================================================================
