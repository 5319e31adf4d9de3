----------------------------- MODULE AtCommands -----------------------------
(***************************************************************************)
(* The jobs the driver gives the AT command queue: for each at_enque_*     *)
(* function of at_command.c the list of commands it queues and the place   *)
(* it asks for (athead: directly behind the head of the queue).            *)
(*                                                                         *)
(* Of a command only what the queue looks at is kept: its code, the result *)
(* it waits for, whether another result is tolerated                       *)
(* (ATQ_CMD_FLAG_IGNORE), and whether its text has still to be written     *)
(* (length = 1) or was written and freed (length = 0).                     *)
(***************************************************************************)
EXTENDS Sequences

\* The codes of the commands, those of the jobs below and a few that no
\* job uses.
at_cmd_t ==
    {"USER", "AT", "A", "CCWA_STATUS", "CCWA_SET", "CFUN_V", "CFUN", "CGMI",
     "CGMM", "CGMR", "CGSN", "CHUP", "CIMI", "CLIR", "CLVL", "CMGD", "CMGF",
     "CMGR", "CMGS", "SMSTEXT", "CNMI", "CNUM", "COPS", "COPS_INIT", "SPN",
     "CPIN", "CPMS", "CREG", "CREG_INIT", "CSCS", "CSQ", "CSSN", "CUSD",
     "CVOICE", "CARDLOCK", "D", "DDSETEX", "DTMF", "AT_E", "U2DIAG", "AT_Z",
     "CMEE", "CSCA", "CHLD_1x", "CHLD_2x", "CHLD_2", "CHLD_3", "CLCC", "SN",
     "ICCID", "FREQLOCK", "CSNR", "SYSINFO"}

\* ATQ_CMD_DECLARE_DYNF / _STF: expected result and flags are given.
Command(cmd, res, ign) == [cmd |-> cmd, res |-> res, ign |-> ign, length |-> 1]

\* ATQ_CMD_DECLARE_ST and _DYN: the command must be answered by OK.
ST(cmd)  == Command(cmd, "OK", FALSE)

\* ATQ_CMD_DECLARE_STI and _DYNI: the job goes on whatever the answer is.
STI(cmd) == Command(cmd, "OK", TRUE)

Job(cmds, athead) == [cmds |-> cmds, athead |-> athead]

\* Commands whose ERROR answer makes at_response_error return -1: the modem
\* is taken for lost and the monitor thread tears the connection down.
CriticalCmds ==
    {"AT", "AT_Z", "AT_E", "CLCC", "CGMI", "CGMM", "CGMR", "CMEE", "SN",
     "ICCID", "CREG_INIT", "CNUM", "CARDLOCK", "CVOICE", "CSSN"}

-----------------------------------------------------------------------------
(* Initialisation of the modem and of its SIM                              *)

at_enque_initialization_modem ==
    Job(<<ST("AT"), ST("AT_E"), ST("CGMI"), ST("CGMM"), ST("CGMR"),
          ST("CMEE"), ST("CGSN"), ST("CFUN_V")>>, FALSE)

at_enque_initialization_sim_e ==
    Job(<<ST("SN"), ST("ICCID"), ST("SPN"), ST("CIMI"), ST("FREQLOCK"),
          ST("COPS_INIT"), STI("CREG_INIT"), ST("CREG"), ST("CNUM"),
          ST("CSSN"), ST("CMGF"), STI("CSCS"), ST("CNMI"), ST("CSQ"),
          ST("CSNR")>>, FALSE)

at_enque_initialization_sim_mb ==
    Job(<<ST("CIMI"), STI("CREG_INIT"), ST("CREG"), ST("CSSN"), ST("CMGF"),
          ST("CNMI"), ST("CSQ"), ST("CSNR")>>, FALSE)

-----------------------------------------------------------------------------
(* Texts queued as they are (CMD_USER), and the ping                       *)

at_enque_cmd_proc == Job(<<ST("USER")>>, FALSE)

at_enque_user_cmd == Job(<<ST("USER")>>, TRUE)

at_enque_ping     == Job(<<STI("AT")>>, TRUE)

at_enque_reset    == Job(<<ST("CFUN")>>, FALSE)

-----------------------------------------------------------------------------
(* SMS and USSD                                                            *)

\* AT+CMGS is answered by the prompt "> ", the text is answered by OK.
at_enque_sms == Job(<<Command("CMGS", "SMS_PROMPT", FALSE), ST("SMSTEXT")>>, FALSE)

at_enque_ussd == Job(<<ST("CUSD")>>, FALSE)

\* +CMGR: swallows the OK that follows it.
at_enque_retrive_sms(delete) ==
    Job(<<Command("CMGR", "CMGR", FALSE)>> \o (IF delete THEN <<ST("CMGD")>> ELSE <<>>),
        FALSE)

-----------------------------------------------------------------------------
(* Calls                                                                   *)

\* hold: an active call has to be put on hold first; clir: the caller asked
\* for a presentation of the number.
at_enque_dial(hold, clir) ==
    Job((IF hold THEN <<ST("CHLD_2")>> ELSE <<>>)
          \o (IF clir THEN <<STI("CLIR")>> ELSE <<>>)
          \o <<STI("D"), ST("CLCC"), ST("DDSETEX")>>, TRUE)

at_enque_answer(state) ==
    IF state = "INCOMING" THEN Job(<<ST("A"), ST("DDSETEX")>>, TRUE)
                          ELSE Job(<<ST("CHLD_2x")>>, TRUE)

at_enque_activate   == Job(<<ST("CHLD_2x"), ST("CLCC")>>, TRUE)
at_enque_flip_hold  == Job(<<ST("CHLD_2"), ST("CLCC")>>, TRUE)
at_enque_conference == Job(<<ST("CHLD_3"), ST("CLCC")>>, TRUE)
at_enque_hangup     == Job(<<ST("CHUP"), ST("CLCC")>>, TRUE)
at_enque_clcc       == Job(<<ST("CLCC")>>, TRUE)
at_enque_volsync    == Job(<<ST("CLVL"), ST("CLVL")>>, TRUE)
at_enque_dtmf       == Job(<<ST("DTMF")>>, TRUE)

\* set: the caller asked for a value; otherwise only the query is queued.
at_enque_set_ccwa(set) ==
    Job((IF set THEN <<STI("CCWA_SET")>> ELSE <<>>) \o <<STI("CCWA_STATUS")>>, FALSE)
=============================================================================
