----------------------------- MODULE Heartbeat ------------------------------
(***************************************************************************)
(* oob/heartbeatcli.c and heartbeatserv.c, as strcliselect02.c and         *)
(* strecho02.c use them: both ends count alarms, the client's alarm sends  *)
(* an out-of-band byte, the server's SIGURG handler returns it, and either *)
(* SIGURG handler clears its count.  The network between them may fail.    *)
(***************************************************************************)
EXTENDS Integers

CONSTANTS
  MAXNPROBES,   \* maxnprobes and maxnalarms
  NHLINE        \* bound: lines typed

VARIABLES
  up,                    \* the network works
  hcpc, hspc,            \* places of the two ends
  cprobes, sprobes,      \* nprobes in each
  calarm, salarm,        \* alarm(nsec) is running
  toserv, tocli,         \* an out-of-band byte has arrived, SIGURG is pending
  nline, owed,           \* lines typed; lines and FIN the server has to answer
  stdineof, shut

hvars == <<up, hcpc, hspc, cprobes, sprobes, calarm, salarm, toserv, tocli, nline, owed, stdineof, shut>>
beatVars == <<cprobes, sprobes, calarm, salarm, toserv, tocli>>

Init ==
  /\ up = TRUE /\ hcpc = "select" /\ hspc = "read"
  /\ cprobes = 0 /\ sprobes = 0 /\ calarm = TRUE /\ salarm = TRUE
  /\ toserv = FALSE /\ tocli = FALSE /\ nline = 0 /\ owed = 0 /\ stdineof = FALSE /\ shut = FALSE

NetFails == up /\ up' = FALSE /\
  UNCHANGED <<hcpc, hspc, beatVars, nline, owed, stdineof, shut>>

Running(pc) == pc \notin {"exit", "killed"}

\* The client's sig_alrm(): Send() after the connection was shut down raises SIGPIPE.
CliAlrm ==
  /\ Running(hcpc) /\ calarm
  /\ cprobes' = cprobes + 1
  /\ \/ /\ cprobes + 1 > MAXNPROBES /\ hcpc' = "exit" /\ calarm' = FALSE /\ UNCHANGED toserv
     \/ /\ cprobes + 1 <= MAXNPROBES /\ ~shut /\ toserv' = (toserv \/ up)
        /\ calarm' = TRUE /\ UNCHANGED hcpc
     \/ /\ cprobes + 1 <= MAXNPROBES /\ shut /\ hcpc' = "killed" /\ UNCHANGED <<calarm, toserv>>
  /\ UNCHANGED <<up, hspc, sprobes, salarm, tocli, nline, owed, stdineof, shut>>

CliUrg ==
  /\ Running(hcpc) /\ tocli /\ tocli' = FALSE /\ cprobes' = 0
  /\ UNCHANGED <<up, hcpc, hspc, sprobes, calarm, salarm, toserv, nline, owed, stdineof, shut>>

ServAlrm ==
  /\ Running(hspc) /\ salarm
  /\ sprobes' = sprobes + 1
  /\ \/ sprobes + 1 > MAXNPROBES /\ hspc' = "exit" /\ salarm' = FALSE
     \/ sprobes + 1 <= MAXNPROBES /\ salarm' = TRUE /\ UNCHANGED hspc
  /\ UNCHANGED <<up, hcpc, cprobes, calarm, toserv, tocli, nline, owed, stdineof, shut>>

\* recv() of the byte, which is returned.
ServUrg ==
  /\ Running(hspc) /\ toserv /\ toserv' = FALSE
  /\ tocli' = (tocli \/ up) /\ sprobes' = 0
  /\ UNCHANGED <<up, hcpc, hspc, cprobes, calarm, salarm, nline, owed, stdineof, shut>>

\* strcliselect02.c: a line is sent; at the end of the input the alarm is
\* turned off and then the connection is shut down.
Line ==
  /\ hcpc = "select" /\ ~stdineof /\ nline < NHLINE
  /\ nline' = nline + 1 /\ owed' = owed + 1
  /\ UNCHANGED <<up, hcpc, hspc, beatVars, stdineof, shut>>
Eof ==
  /\ hcpc = "select" /\ ~stdineof /\ stdineof' = TRUE /\ hcpc' = "eof"
  /\ UNCHANGED <<up, hspc, beatVars, nline, owed, shut>>

StopAlarm ==
  /\ hcpc = "eof" /\ calarm' = FALSE /\ hcpc' = "shutdown"
  /\ UNCHANGED <<up, hspc, cprobes, sprobes, salarm, toserv, tocli, nline, owed, stdineof, shut>>
Shutdown ==
  /\ hcpc = "shutdown" /\ shut' = TRUE /\ hcpc' = "select"
  /\ UNCHANGED <<up, hspc, beatVars, nline, owed, stdineof>>

\* strecho02.c: a line is echoed; at FIN the server is done.  The client
\* reads the echo, or the end.
Echo ==
  /\ hspc = "read" /\ owed > 0 /\ up /\ owed' = owed - 1
  /\ UNCHANGED <<up, hcpc, hspc, beatVars, nline, stdineof, shut>>
Fin ==
  /\ hspc = "read" /\ owed = 0 /\ shut /\ up /\ hspc' = "exit"
  /\ UNCHANGED <<up, hcpc, beatVars, nline, owed, stdineof, shut>>
ReadEnd ==
  /\ hcpc = "select" /\ hspc = "exit" /\ up /\ hcpc' = "exit"
  /\ UNCHANGED <<up, hspc, beatVars, nline, owed, stdineof, shut>>

Next == NetFails \/ CliAlrm \/ ServAlrm \/ CliUrg \/ ServUrg \/ Line \/ Eof \/ StopAlarm \/ Shutdown
          \/ Echo \/ Fin \/ ReadEnd

\* Alarms go off, signals are delivered, and neither program stops by itself.
Fairness == /\ WF_hvars(CliAlrm) /\ WF_hvars(ServAlrm) /\ WF_hvars(CliUrg) /\ WF_hvars(ServUrg)
            /\ WF_hvars(StopAlarm) /\ WF_hvars(Shutdown)
            /\ WF_hvars(Echo) /\ WF_hvars(Fin) /\ WF_hvars(ReadEnd)
Spec == Init /\ [][Next]_hvars /\ Fairness

-----------------------------------------------------------------------------
\* heartbeatcli.c, heartbeatserv.c: once the network has failed each end
\* notices, the client unless its input had ended and the alarm is off.
FailureNoticed == (~up) ~> (hspc = "exit" /\ (hcpc = "exit" \/ stdineof))

\* strcliselect02.c: alarm(0) comes before Shutdown(), so that no heartbeat is
\* sent on a connection that was shut down.
NoBeatAfterShutdown == hcpc # "killed"
=============================================================================
