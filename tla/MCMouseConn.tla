---------------------------- MODULE MCMouseConn ----------------------------
(* The daemon with connection type mouse, and the file daemons log to.     *)
(* The two share no state, so each is explored with the other one in its   *)
(* initial state: the log is written to while the daemon of MouseConn is   *)
(* not started, and its actions, which leave the log alone, are explored   *)
(* with an empty one.                                                      *)
EXTENDS MouseConn, LogFile

MCVars == <<vars, logVars>>
MCInit == Init /\ LogInit
MouseRuns == calls = <<>> /\ Next /\ UNCHANGED logVars
LogRuns == (\A d \in Daemons : pc[d] = "unborn") /\ LogNext /\ UNCHANGED vars

(* FairSpec asks nothing of a daemon that is not started.                  *)
MCSpec ==
    /\ MCInit /\ [][MouseRuns \/ LogRuns]_MCVars /\ WF_vars(WriterRuns)
    /\ \A d \in Daemons : WF_vars(DaemonRuns(d)) /\ SF_vars(OpenStream(d))
=============================================================================
