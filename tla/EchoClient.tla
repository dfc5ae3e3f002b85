----------------------------- MODULE EchoClient -----------------------------
(***************************************************************************)
(* The versions of str_cli(), the client that copies lines from standard   *)
(* input to a server and the server's echo to standard output, with        *)
(* str_echo() at the other end of the connection.                          *)
(*                                                                         *)
(* Lines are numbered as they are typed and never change their order, so   *)
(* each stage of a line's way is a count: typed by the user, taken by      *)
(* stdio (nfile), returned by fgets() or read() (nread), written to the    *)
(* socket (nsent), read and written back by the server (nserved, nback),   *)
(* read from the socket (nrecv), printed (nout).  Each direction of the    *)
(* connection holds CAP lines, each buffer of a program MAXLINE lines.     *)
(* The server may die at any time.                                         *)
(***************************************************************************)
EXTENDS Integers, FiniteSets

CONSTANTS
  CAP, Progs,
  Sizes        \* how many lines are typed at most, how many a buffer holds

VARIABLES
  prog, sizes,                                   \* the version that runs; see Sizes
  typed, eof, nfile, nread,                      \* standard input
  nsent, shut, nserved, nback, sfin, died, rst,  \* the connection
  nrecv, nout,                                   \* standard output
  pc, rpc,                                       \* the writer, the reader of its own
  stdineof, rset, wset, isfile, toiptr, friptr   \* the program's own variables

inVars == <<typed, eof>>
srvVars == <<nserved, nback, sfin, died>>
readVars == <<nfile, nread>>
recvVars == <<nrecv, nout>>
bufVars == <<toiptr, friptr>>
selVars == <<rset, wset, isfile>>
vars == <<prog, sizes, inVars, srvVars, readVars, nsent, shut, rst, recvVars, pc, rpc,
          stdineof, selVars, bufVars>>

\* str_cli: lib; select01, select02: select; advio02: advio; nonb, fork:
\* nonblock; thread, thread2: threads; devpoll, kqueue: advio.
Versions == {"str_cli", "select01", "select02", "advio02", "devpoll", "kqueue",
             "nonb", "fork", "thread", "thread2"}
Lined == {"str_cli", "select01", "advio02", "fork", "thread", "thread2"}
Ordered == {"select01", "select02", "advio02"}
Evented == Ordered \cup {"devpoll", "kqueue"}
Twofold == {"fork", "thread", "thread2"}

ASSUME EchoConstants ==
  /\ Sizes \subseteq Nat \X (Nat \ {0}) /\ CAP \in Nat \ {0}
  /\ Progs \subseteq Versions

\* How a client ends: its work done, with "server terminated prematurely", or
\* by err_sys() or SIGPIPE.
Ended == {"end", "quit", "error"}

NLINES == sizes[1]
MAXLINE == sizes[2]
Least(a, b) == IF a < b THEN a ELSE b
tooptr == toiptr - (nread - nsent)

\* Where str_cli() starts; only str_cli_kqueue looks whether its input is a
\* regular file, all of which is there at once.
Init ==
  /\ prog \in Progs /\ sizes \in Sizes
  /\ isfile \in IF prog = "kqueue" THEN BOOLEAN ELSE {FALSE}
  /\ typed = (IF isfile THEN NLINES ELSE 0) /\ eof = isfile
  /\ nfile = 0 /\ nread = 0 /\ nsent = 0 /\ nserved = 0 /\ nback = 0 /\ nrecv = 0 /\ nout = 0
  /\ shut = FALSE /\ sfin = FALSE /\ died = FALSE /\ rst = FALSE
  /\ pc = (IF prog \in Evented \cup {"nonb"} THEN "select" ELSE "gets")
  /\ rpc = (IF prog \in Twofold THEN "rd" ELSE "none")
  /\ stdineof = FALSE /\ rset = {} /\ wset = {} /\ toiptr = 0 /\ friptr = 0

-----------------------------------------------------------------------------
(* The user and the server.                                                *)

Type == /\ typed < NLINES /\ ~eof /\ typed' = typed + 1
        /\ UNCHANGED <<prog, sizes, eof, srvVars, readVars, nsent, shut, rst, recvVars, pc, rpc,
                       stdineof, selVars, bufVars>>

CloseInput == /\ ~eof /\ eof' = TRUE
              /\ UNCHANGED <<prog, sizes, typed, srvVars, readVars, nsent, shut, rst, recvVars, pc, rpc,
                             stdineof, selVars, bufVars>>

cliVars == <<prog, sizes, inVars, readVars, nsent, shut, rst, recvVars, pc, rpc,
             stdineof, selVars, bufVars>>

\* str_echo(): read what is there, write it back, line by line into what room
\* there is, until the end-of-file.
SrvRead == /\ ~sfin /\ nback = nserved /\ nserved < nsent
           /\ nserved' = nserved + Least(MAXLINE, nsent - nserved)
           /\ UNCHANGED <<nback, sfin, died, cliVars>>

SrvWrite == /\ ~sfin /\ nback < nserved /\ nback - nrecv < CAP
            /\ nback' = nback + 1
            /\ UNCHANGED <<nserved, sfin, died, cliVars>>

SrvEnd == /\ ~sfin /\ shut /\ nback = nsent /\ sfin' = TRUE
          /\ UNCHANGED <<nserved, nback, died, cliVars>>

\* The server is killed; its end of the connection is closed.
SrvDie == /\ ~sfin /\ sfin' = TRUE /\ died' = TRUE
          /\ UNCHANGED <<nserved, nback, cliVars>>

-----------------------------------------------------------------------------
(* The calls of the clients.                                               *)

StdinReady == typed > nfile \/ eof
SockReady == nback > nrecv \/ sfin

\* fgets(): stdio takes all that was typed and returns one line of it.
FgetsLine == /\ nread < typed
             /\ nfile' = IF nfile > nread THEN nfile ELSE typed
             /\ nread' = nread + 1

\* Mutant: the end is seen although stdio still holds lines.
FgetsNullEarly == eof /\ UNCHANGED readVars

FgetsNull == nread = typed /\ eof /\ UNCHANGED readVars

\* read() from standard input: some of what was typed.
ReadStdin(size) == \E n \in 1 .. Least(size, typed - nread) :
                     nread' = nread + n /\ nfile' = nread'

\* Readline(): my_read() takes all the socket has, up to its buffer's size,
\* when the buffer is empty, and returns one line of it.
ReadlineLine ==
  /\ nrecv > nout \/ nback > nrecv
  /\ nrecv' = IF nrecv > nout THEN nrecv ELSE nrecv + Least(MAXLINE, nback - nrecv)
  /\ nout' = nout + 1
ReadlineEof == nrecv = nout /\ nback = nrecv /\ sfin
ReadlineError == nrecv = nout /\ rst

\* One line of a Writen(), when the server has died: the first writes are
\* answered with a reset, later ones fail.
WriteOk == /\ nsent' = nsent + 1
           /\ died \/ nsent - nserved < CAP
           /\ rst' = died
WriteError == rst /\ UNCHANGED <<nsent, rst>>

\* Mutant: the connection is not shut down.
ShutdownForgotten == FALSE

\* Shutdown(sockfd, SHUT_WR) at the end of the input.
Shutdown == TRUE

\* The end of the connection: "normal termination" after the end of the input,
\* "server terminated prematurely" before it.
AtServerEof == IF stdineof THEN "end" ELSE "quit"

-----------------------------------------------------------------------------
(* str_cli() as a loop of Fgets, Writen, Readline; the writer of the        *)
(* versions with two processes or threads.                                 *)

Gets == /\ pc = "gets"
        /\ \/ FgetsLine /\ pc' = "write" /\ UNCHANGED shut
           \/ /\ FgetsNull
              /\ shut' = (prog \in Twofold /\ Shutdown)
              /\ pc' = CASE prog = "str_cli" -> "end"
                         [] prog = "thread2" -> "setdone"
                         [] OTHER -> "pause"
        /\ UNCHANGED <<prog, sizes, inVars, srvVars, nsent, rst, recvVars, rpc, stdineof, selVars, bufVars>>

\* strclithread2: copyto() says that it has seen the end of the input.
SetDone == /\ pc = "setdone" /\ pc' = "pause" /\ stdineof' = TRUE
           /\ UNCHANGED <<prog, sizes, inVars, srvVars, readVars, nsent, shut, rst, recvVars, rpc,
                          selVars, bufVars>>

\* Where a version goes on when the last line of a Writen() is out.
AfterWrite == CASE prog = "str_cli" -> "read"
                [] prog \in Twofold -> "gets"
                [] prog \in Evented /\ rset # {} -> "events"
                [] OTHER -> "select"

\* With a regular file str_cli_kqueue knows at once that it has read the end.
Write ==
  /\ pc = "write"
  /\ LET last == nsent + 1 = nread
         whole == last /\ isfile /\ nread = typed IN
       \/ /\ WriteOk
          /\ pc' = IF last THEN AfterWrite ELSE "write"
          /\ stdineof' = (stdineof \/ whole) /\ shut' = (shut \/ whole)
       \/ WriteError /\ pc' = "error" /\ UNCHANGED <<stdineof, shut>>
  /\ UNCHANGED <<prog, sizes, inVars, srvVars, readVars, recvVars, rpc, selVars, bufVars>>

Read ==
  /\ pc = "read"
  /\ \/ ReadlineLine /\ pc' = "gets"
     \/ ReadlineEof /\ pc' = "quit" /\ UNCHANGED recvVars
     \/ ReadlineError /\ pc' = "error" /\ UNCHANGED recvVars
  /\ UNCHANGED <<prog, sizes, inVars, srvVars, readVars, nsent, shut, rst, rpc, stdineof, selVars, bufVars>>

\* The reader: the child of strclifork, which ends its parent, or the main
\* thread, whose return ends the process.
Reader ==
  /\ rpc = "rd" /\ (prog = "fork" \/ pc \notin Ended)
  /\ \/ ReadlineLine /\ UNCHANGED <<pc, rpc>>
     \/ /\ ReadlineEof /\ rpc' = "gone" /\ UNCHANGED recvVars
        /\ pc' = CASE pc \in Ended -> pc
                   [] prog = "thread2" /\ ~stdineof -> "quit"
                   [] OTHER -> "end"
     \/ /\ ReadlineError /\ rpc' = "gone" /\ UNCHANGED recvVars
        /\ pc' = IF prog = "fork" THEN pc ELSE "error"
  /\ UNCHANGED <<prog, sizes, inVars, srvVars, readVars, nsent, shut, rst, stdineof, selVars, bufVars>>

-----------------------------------------------------------------------------
(* The versions that wait for both descriptors and block in their calls.   *)

\* Which descriptors are ready; str_cli_poll03 never takes standard input off
\* its set.
Select ==
  /\ pc = "select" /\ prog \in Evented
  /\ rset' = (IF StdinReady /\ (~stdineof \/ prog = "devpoll") THEN {"stdin"} ELSE {})
             \cup (IF SockReady THEN {"sock"} ELSE {})
  /\ rset' # {} /\ pc' = "events"
  /\ UNCHANGED <<prog, sizes, inVars, srvVars, readVars, nsent, shut, rst, recvVars, rpc, stdineof, wset, isfile, bufVars>>

AfterEvent(rs) == IF rs = {} THEN "select" ELSE "events"

SockEvent ==
  /\ pc = "events" /\ "sock" \in rset
  /\ rset' = rset \ {"sock"}
  /\ \/ /\ prog \in Lined /\ ReadlineLine /\ pc' = AfterEvent(rset')
     \/ /\ prog \notin Lined /\ nback > nrecv /\ pc' = AfterEvent(rset')
        /\ nrecv' = nrecv + Least(MAXLINE, nback - nrecv) /\ nout' = nrecv'
     \/ /\ ReadlineEof /\ UNCHANGED recvVars
        /\ pc' = AtServerEof
     \/ ReadlineError /\ pc' = "error" /\ UNCHANGED recvVars
  /\ UNCHANGED <<prog, sizes, inVars, srvVars, readVars, nsent, shut, rst, rpc, stdineof, wset, isfile, bufVars>>

\* select looks at the socket first.  A shutdown() of a connection that both
\* ends have shut down fails.
StdinEvent ==
  /\ pc = "events" /\ "stdin" \in rset /\ (prog \in Ordered => "sock" \notin rset)
  /\ rset' = rset \ {"stdin"}
  /\ \/ /\ IF prog \in Lined THEN FgetsLine ELSE ReadStdin(MAXLINE)
        /\ pc' = "write" /\ UNCHANGED <<stdineof, shut>>
     \/ /\ FgetsNull /\ prog = "select01" /\ pc' = "end" /\ UNCHANGED <<stdineof, shut>>
     \/ /\ FgetsNull /\ prog # "select01"
        /\ stdineof' = TRUE /\ shut' = Shutdown
        /\ pc' = IF shut /\ sfin THEN "error" ELSE AfterEvent(rset')
  /\ UNCHANGED <<prog, sizes, inVars, srvVars, nsent, rst, recvVars, rpc, wset, isfile, bufVars>>

-----------------------------------------------------------------------------
(* strclinonb: nothing blocks but select().                                *)

\* "back to beginning of buffer" when a write has emptied it.
BackToStart(iptr, n, empty) == IF n > 0 /\ empty THEN 0 ELSE iptr

NbSelect ==
  /\ pc = "select" /\ prog = "nonb"
  /\ rset' = (IF ~stdineof /\ toiptr < MAXLINE /\ StdinReady THEN {"stdin"} ELSE {})
             \cup (IF friptr < MAXLINE /\ SockReady THEN {"sock"} ELSE {})
  /\ wset' = (IF tooptr # toiptr /\ (died \/ nsent - nserved < CAP) THEN {"sock"} ELSE {})
             \cup (IF nrecv # nout THEN {"stdout"} ELSE {})
  /\ rset' # {} \/ wset' # {}
  /\ pc' = "nstdin"
  /\ UNCHANGED <<prog, sizes, inVars, srvVars, readVars, nsent, shut, rst, recvVars, rpc, stdineof, isfile, bufVars>>

NbStdin ==
  /\ pc = "nstdin" /\ pc' = "nsock"
  /\ \/ "stdin" \notin rset /\ UNCHANGED <<readVars, wset, stdineof, shut, toiptr>>
     \/ /\ "stdin" \in rset /\ ReadStdin(MAXLINE - toiptr)
        /\ toiptr' = toiptr + (nread' - nread)
        /\ wset' = wset \cup {"sock"} /\ UNCHANGED <<stdineof, shut>>
     \/ /\ "stdin" \in rset /\ FgetsNull
        /\ stdineof' = TRUE /\ shut' = (tooptr = toiptr /\ Shutdown) /\ UNCHANGED <<wset, toiptr>>
  /\ UNCHANGED <<prog, sizes, inVars, srvVars, nsent, rst, recvVars, rpc, rset, isfile, friptr>>

NbSock ==
  /\ pc = "nsock"
  /\ \/ "sock" \notin rset /\ pc' = "nout" /\ UNCHANGED <<nrecv, friptr, wset>>
     \/ /\ "sock" \in rset /\ nback > nrecv /\ pc' = "nout"
        /\ nrecv' = nrecv + Least(MAXLINE - friptr, nback - nrecv)
        /\ friptr' = friptr + (nrecv' - nrecv) /\ wset' = wset \cup {"stdout"}
     \/ /\ "sock" \in rset /\ nback = nrecv /\ UNCHANGED <<nrecv, friptr, wset>>
        /\ pc' = AtServerEof
     \/ "sock" \in rset /\ rst /\ pc' = "error" /\ UNCHANGED <<nrecv, friptr, wset>>
  /\ UNCHANGED <<prog, sizes, inVars, srvVars, readVars, nsent, shut, rst, nout, rpc, stdineof, rset, isfile, toiptr>>

\* Standard output takes some of what is waiting, or nothing.
NbOut ==
  /\ pc = "nout" /\ pc' = "nwrite"
  /\ \E n \in IF "stdout" \in wset THEN 0 .. nrecv - nout ELSE {0} :
       /\ nout' = nout + n
       /\ friptr' = BackToStart(friptr, n, nout' = nrecv)
  /\ UNCHANGED <<prog, sizes, inVars, srvVars, readVars, nsent, shut, rst, nrecv, rpc, stdineof, selVars, toiptr>>

NbWrite ==
  /\ pc = "nwrite"
  /\ \/ /\ \E n \in (IF "sock" \notin wset THEN {0}
                     ELSE IF died THEN {nread - nsent}
                     ELSE {Least(nread - nsent, CAP - (nsent - nserved))}) :
             /\ nsent' = nsent + n
             /\ rst' = (rst \/ (died /\ n > 0))
             /\ toiptr' = BackToStart(toiptr, n, nsent' = nread)
             /\ shut' = (shut \/ (n > 0 /\ nsent' = nread /\ stdineof /\ Shutdown))
        /\ pc' = "select"
     \/ "sock" \in wset /\ nread > nsent /\ WriteError /\ pc' = "error" /\ UNCHANGED <<toiptr, shut>>
  /\ UNCHANGED <<prog, sizes, inVars, srvVars, readVars, recvVars, rpc, stdineof, selVars, friptr>>

-----------------------------------------------------------------------------
WriterStep == Gets \/ SetDone \/ Write \/ Read \/ Select \/ SockEvent \/ StdinEvent
              \/ NbSelect \/ NbStdin \/ NbSock \/ NbOut \/ NbWrite
SrvStep == SrvRead \/ SrvWrite \/ SrvEnd
Next == Type \/ CloseInput \/ SrvStep \/ SrvDie \/ WriterStep \/ Reader

\* Processes, threads and the kernel at both ends go on; nobody need type.
\* Standard output takes what it is offered in the end.
Fairness == WF_vars(WriterStep) /\ WF_vars(Reader) /\ WF_vars(SrvStep)
            /\ SF_vars(NbOut /\ nout' = nrecv)
Spec == Init /\ [][Next]_vars /\ Fairness

-----------------------------------------------------------------------------
\* A client that ends without complaint has had every line back that was typed,
\* unless the server was killed.  strcliselect01 (select/strcliselect01.c) stops
\* at the end of its input and is the exception.
NothingLost ==
  pc = "end" /\ ~died /\ prog # "select01" => nrecv = typed

\* ... and has printed every one of them; strclinonb (nonblock/strclinonb.c) may
\* leave some behind as well, see AllPrinted.
PrintedAll ==
  pc = "end" /\ ~died /\ prog \notin {"select01", "nonb"} => nout = typed

\* "server terminated prematurely" is said only of a server that was killed;
\* strclithread2 (threads/strclithread2.c) is the exception, see NoFalseAlarm.
AlarmsAreTrue == pc = "quit" /\ prog # "thread2" => died

\* The copies of the pointers of strclinonb: neither buffer overruns, and
\* tooptr stays between the start of its buffer and toiptr, and froptr likewise.
PointersRight ==
  prog = "nonb" => 0 <= tooptr /\ tooptr <= toiptr /\ 0 <= friptr - (nrecv - nout) /\ nout <= nrecv

\* After the end of its input a client ends, unless the server is killed: it never
\* waits for a server that waits for it, however little the connection holds.  The
\* versions that wait for events but block in Writen() are safe from that only when
\* each direction holds two of their buffers (Roomy).
Roomy == prog \notin Evented \/ 2 * MAXLINE <= CAP
EndsAfterEof == (eof /\ ~died /\ Roomy) ~> (pc \in Ended \/ died)

\* "normal termination" (nonblock/strclinonb.c:74): all that was typed has come
\* out on standard output.
AllPrinted == pc = "end" /\ ~died => nout = typed

\* "server terminated prematurely" (threads/strclithread2.c:24).
NoFalseAlarm == pc = "quit" => died
=============================================================================
