---------------------------- MODULE ForkServer -----------------------------
(***************************************************************************)
(* The servers that make a process or a thread for each connection, or     *)
(* serve it themselves: tcpserv01 to tcpserv09 of src/tcpcliserv/, their   *)
(* copies in other chapters, serv00, serv01, serv06 of src/server/, the    *)
(* threaded ones of src/threads/ and udpservselect01, which also answers   *)
(* datagrams.  Connections are numbered as they come in; the child made    *)
(* for the n-th one accepted has that connection's number.                 *)
(***************************************************************************)
EXTENDS Integers, FiniteSets, FiniteSetsExt

CONSTANTS NCONN    \* bound: connections that come in

VARIABLES
  arrived, pending, done,  \* connections: last one, not accepted, closed
  srv,                     \* the program, as the features below
  ppc, pfd,                \* the parent's place and its connfd
  kid, kfd,                \* each child's state and its descriptor
  open,                    \* who has a connection open
  chld, hpc,               \* SIGCHLD is pending; the handler runs
  ready, datagram          \* select()'s result; a datagram waits

clients == <<arrived, pending, done>>
kidVars == <<kid, kfd>>
sigVars == <<chld, hpc>>
udpVars == <<ready, datagram>>
forkVars == <<srv, ppc, pfd, kidVars, open, sigVars, udpVars>>

\* per: who serves; handler: what sig_chld() calls, if there is one; again:
\* an interrupted accept() goes back to for(); select: datagrams too.
Program(per, handler, again, select) ==
  [per |-> per, handler |-> handler, again |-> again, select |-> select]
tcpserv01 == Program("process", "none", FALSE, FALSE)
tcpserv02 == Program("process", "wait", FALSE, FALSE)
tcpserv03 == Program("process", "wait", TRUE, FALSE)
tcpserv04 == Program("process", "waitpid", TRUE, FALSE)
tcpserv08 == tcpserv04
tcpserv09 == tcpserv04
advio_tcpserv02 == tcpserv04
oob_tcpserv02 == tcpserv04
ipopts_tcpserv01 == tcpserv04
unixstrserv01 == tcpserv04
unixstrserv02 == tcpserv04
serv01 == tcpserv04
serv00 == Program("self", "none", FALSE, FALSE)
serv06 == Program("thread", "none", FALSE, FALSE)
threads_tcpserv01 == serv06
threads_tcpserv02 == serv06
udpservselect01 == Program("process", "waitpid", FALSE, TRUE)

Programs == {tcpserv01, tcpserv02, tcpserv03, tcpserv04, serv00, serv06, udpservselect01}

Top == IF srv.select THEN "select" ELSE "accept"
Kids == 1 .. NCONN

Begin ==
  /\ arrived = 0 /\ pending = {} /\ done = {}
  /\ ppc = Top /\ pfd = 0
  /\ kid = [k \in Kids |-> "none"] /\ kfd = [k \in Kids |-> 0]
  /\ open = [c \in Kids |-> {}]
  /\ chld = FALSE /\ hpc = "no"
  /\ ready = {} /\ datagram = FALSE
Init == srv \in Programs /\ Begin

Arrive ==
  /\ arrived < NCONN
  /\ arrived' = arrived + 1 /\ pending' = pending \cup {arrived + 1}
  /\ UNCHANGED <<done, forkVars>>

\* A client resets its connection before accept() has returned it.
Abort(c) ==
  /\ c \in pending
  /\ pending' = pending \ {c} /\ done' = done \cup {c}
  /\ UNCHANGED <<arrived, forkVars>>

Datagram ==
  /\ srv.select /\ ~datagram /\ datagram' = TRUE
  /\ UNCHANGED <<clients, srv, ppc, pfd, kidVars, open, sigVars, ready>>

-----------------------------------------------------------------------------
(* The parent.  It stands still while its handler runs.                    *)

Select ==
  /\ ppc = "select" /\ hpc = "no"
  /\ ready' = (IF pending # {} THEN {"listenfd"} ELSE {}) \cup (IF datagram THEN {"udpfd"} ELSE {})
  /\ ready' # {} /\ ppc' = IF "listenfd" \in ready' THEN "accept" ELSE "udp"
  /\ UNCHANGED <<clients, srv, pfd, kidVars, open, sigVars, datagram>>

Accept ==
  /\ ppc = "accept" /\ hpc = "no" /\ pending # {}
  /\ pfd' = Min(pending) /\ pending' = pending \ {Min(pending)}
  /\ open' = [open EXCEPT ![pfd'] = {"parent"}]
  /\ ppc' = IF srv.per = "self" THEN "serve" ELSE "fork"
  /\ UNCHANGED <<arrived, done, srv, kidVars, sigVars, udpVars>>

\* Fork(): the child has the descriptor too; Pthread_create(): the thread is
\* given its number.
Fork ==
  /\ ppc = "fork" /\ hpc = "no"
  /\ kfd' = [kfd EXCEPT ![pfd] = pfd] /\ kid' = [kid EXCEPT ![pfd] = "run"]
  /\ IF srv.per = "process"
     THEN open' = [open EXCEPT ![pfd] = @ \cup {"child"}] /\ ppc' = "close"
     ELSE UNCHANGED open /\ ppc' = Top
  /\ UNCHANGED <<clients, srv, pfd, sigVars, udpVars>>

\* c is closed once nobody has it open.
Closed(c) == IF open'[c] = {} THEN done' = done \cup {c} ELSE UNCHANGED done

\* No process or thread is to be had: the parent ends.
ForkFails ==
  /\ ppc = "fork" /\ hpc = "no" /\ ppc' = "ended"
  /\ open' = [open EXCEPT ![pfd] = {}] /\ Closed(pfd)
  /\ UNCHANGED <<arrived, pending, srv, pfd, kidVars, sigVars, udpVars>>

Close ==
  /\ ppc = "close" /\ hpc = "no"
  /\ open' = [open EXCEPT ![pfd] = @ \ {"parent"}] /\ Closed(pfd)
  /\ ppc' = IF "udpfd" \in ready THEN "udp" ELSE Top
  /\ UNCHANGED <<arrived, pending, srv, pfd, kidVars, sigVars, udpVars>>

\* serv00 serves its client itself; web_child() may end it.
Serve ==
  /\ ppc = "serve"
  /\ open' = [open EXCEPT ![pfd] = {}] /\ Closed(pfd)
  /\ ppc' \in {Top, "ended"}
  /\ UNCHANGED <<arrived, pending, srv, pfd, kidVars, sigVars, udpVars>>

\* The datagram is echoed.
Udp ==
  /\ ppc = "udp" /\ hpc = "no"
  /\ datagram' = FALSE /\ ppc' = Top /\ ready' = {}
  /\ UNCHANGED <<clients, srv, pfd, kidVars, open, sigVars>>

-----------------------------------------------------------------------------
(* The children and the signal of their end.                               *)

\* str_echo() returns or ends the process; a thread that does so ends all.
Finish(k) ==
  /\ kid[k] = "run"
  /\ srv.per = "process" \/ ppc # "ended"
  /\ kid' = [kid EXCEPT ![k] = IF srv.per = "process" THEN "zombie" ELSE "gone"]
  /\ open' = [open EXCEPT ![kfd[k]] = @ \ {IF srv.per = "process" THEN "child" ELSE "parent"}]
  /\ Closed(kfd[k])
  /\ chld' = (srv.handler # "none" /\ ppc # "ended")
  /\ UNCHANGED <<arrived, pending, srv, ppc, pfd, kfd, hpc, udpVars>>

ThreadFails(k) ==
  /\ kid[k] = "run" /\ srv.per = "thread" /\ ppc # "ended" /\ ppc' = "ended"
  /\ UNCHANGED <<clients, srv, pfd, kidVars, open, sigVars, udpVars>>

\* SIGCHLD is delivered; while the handler runs, another one stays pending,
\* and several are one.
Deliver ==
  /\ chld /\ hpc = "no" /\ ppc # "ended"
  /\ hpc' = "in" /\ chld' = FALSE
  /\ UNCHANGED <<clients, srv, ppc, pfd, kidVars, open, udpVars>>

Zombies == {k \in Kids : kid[k] = "zombie"}

\* The handler returns into accept(), which is restarted or fails, as the
\* system has it, or into select(), which always fails: back to for().
Return ==
  /\ hpc' = "no"
  /\ ppc' \in {ppc} \cup (IF ppc = "accept" /\ ~srv.again THEN {"ended"} ELSE {})

\* Mutant: only one child is waited for.
WaitpidOnce ==
  /\ hpc = "in" /\ srv.handler = "waitpid"
  /\ \E k \in Zombies : kid' = [kid EXCEPT ![k] = "gone"]
  /\ Return
  /\ UNCHANGED <<clients, srv, pfd, kfd, open, chld, udpVars>>

\* sigchldwaitpid.c: until no child is left that has ended.
Waitpid ==
  /\ hpc = "in" /\ srv.handler = "waitpid"
  /\ IF Zombies # {} THEN /\ \E k \in Zombies : kid' = [kid EXCEPT ![k] = "gone"]
                          /\ UNCHANGED <<hpc, ppc>>
                     ELSE UNCHANGED kid /\ Return
  /\ UNCHANGED <<clients, srv, pfd, kfd, open, chld, udpVars>>

\* sigchldwait.c: one child.
Wait ==
  /\ hpc = "in" /\ srv.handler = "wait"
  /\ \E k \in Zombies : kid' = [kid EXCEPT ![k] = "gone"]
  /\ Return
  /\ UNCHANGED <<clients, srv, pfd, kfd, open, chld, udpVars>>

-----------------------------------------------------------------------------
ParentStep == Select \/ Accept \/ Fork \/ ForkFails \/ Close \/ Serve \/ Udp
              \/ Deliver \/ Waitpid \/ Wait
Next ==
  \/ Arrive \/ (\E c \in pending : Abort(c)) \/ Datagram
  \/ ParentStep \/ \E k \in Kids : Finish(k) \/ ThreadFails(k)

\* The abstract state: see WorkerPool.
Worker(c) == IF open[c] = {} THEN -1
             ELSE IF srv.per = "self" THEN 0
             ELSE IF \E k \in Kids : kfd[k] = c THEN CHOOSE k \in Kids : kfd[k] = c ELSE -1

-----------------------------------------------------------------------------
(* Properties.                                                             *)

\* "must call waitpid()" (tcpcliserv/tcpserv04.c:23): a child that has ended is
\* waited for as soon as the handler has run, however many ended together and
\* whenever they did.  The servers without a handler, or with the one of
\* sigchldwait.c, leave zombies.
ZombiesSeen == srv.handler = "waitpid" /\ Zombies # {} => chld \/ hpc = "in" \/ ppc = "ended"

\* wait() never makes the handler wait for a child that has not ended
\* (tcpcliserv/sigchldwait.c:9).
WaitReturns == hpc = "in" /\ srv.handler = "wait" => Zombies # {}

\* The parent waits in accept() for a connection that was reset after select()
\* had reported it (udpcliserv/udpservselect01.c:58).
Blocked == ppc = "accept" /\ pending = {}
=============================================================================
