----------------------------- MODULE MCAtQueue -----------------------------
(* Instances of AtQueue for TLC: a short initialisation, and jobs that      *)
(* differ in everything the queue looks at: one command or several, prompt, *)
(* tolerated failures, place in the queue.                                  *)
EXTENDS AtQueue, TLC

\* The initialisation cut to its first MCInitLength commands.
MCInitLength == 1
MCInitJob == Job(SubSeq(at_enque_initialization_modem.cmds, 1, MCInitLength), FALSE)

\* An SMS, a dialled number with CLIR, and a hangup.
MCJobs == {at_enque_sms, at_enque_dial(FALSE, TRUE), at_enque_hangup}

\* The reading of an SMS, a user's command, a dialled number.
MCJobsRead == {at_enque_retrive_sms(TRUE), at_enque_user_cmd, at_enque_dial(FALSE, FALSE)}

MCJobsAll == MCJobs \union MCJobsRead

Symmetry == Permutations(TaskId)
=============================================================================
