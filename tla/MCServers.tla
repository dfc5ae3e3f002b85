----------------------------- MODULE MCServers -----------------------------
(***************************************************************************)
(* The servers for TLC, those of src/server/ and the echo servers: one of  *)
(* them runs, the variables of the others stay as they are.  All are       *)
(* compared with WorkerPool.                                               *)
(***************************************************************************)
EXTENDS ServQueue

CONSTANTS NCHILD, MsgLen, NWORKER, NFEW, NCLIENT, NLINE

ASSUME ServersAssumption ==
  NCHILD \in Nat /\ MsgLen \in Nat /\ NWORKER \in Nat /\ NFEW \in Nat
  /\ NCLIENT \in Nat \ {0} /\ NLINE \in Nat

VARIABLES
  which,
  pc, rset, nsel, navail, child_status, passed, bytes, cpc, conn,
  lock, wpc, fd,
  srv, ppc, pfd, kid, kfd, open, chld, hpc, ready, datagram,
  loop, spc, nready, i, client, maxi, maxfd, allset, sready, sconn, data, left, buf

PassFd == INSTANCE ServPassFd
Locked == INSTANCE ServLock WITH server <- which
Forking == INSTANCE ForkServer WITH NCONN <- NFEW
Looping == INSTANCE SelectServer WITH NCONN <- NFEW, rset <- sready, conn <- sconn

serv05Vars ==
  <<pc, rset, nsel, navail, child_status, passed, bytes, cpc, conn>>
acceptVars == <<lock, wpc, fd>>
forkVars == <<srv, ppc, pfd, kid, kfd, open, chld, hpc, ready, datagram>>
selectVars == <<loop, spc, nready, i, client, maxi, maxfd, allset, sready, sconn, data, left, buf>>
MCvars == <<which, vars, serv05Vars, acceptVars, forkVars, selectVars>>

MCInit ==
  /\ which \in {"serv05", "serv08", "fork", "select"} \cup Locked!Servers
  /\ Init /\ PassFd!Init /\ Locked!Begin
  /\ srv \in (IF which = "fork" THEN Forking!Programs ELSE {Forking!serv00}) /\ Forking!Begin
  /\ loop \in (IF which = "select" THEN Looping!Loops ELSE {"none"}) /\ Looping!Begin

Serv05 == which = "serv05" /\ UNCHANGED <<which, queueVars, acceptVars, forkVars, selectVars>>
Serv08 == which = "serv08" /\ UNCHANGED <<which, serv05Vars, acceptVars, forkVars, selectVars>>
Others == which \in Locked!Servers /\ UNCHANGED <<which, queueVars, serv05Vars, forkVars, selectVars>>
Forks == which = "fork" /\ UNCHANGED <<which, queueVars, serv05Vars, acceptVars, selectVars>>
Selects == which = "select" /\ UNCHANGED <<which, queueVars, serv05Vars, acceptVars, forkVars>>

MCNext == (Serv05 /\ PassFd!Next) \/ (Serv08 /\ Next) \/ (Others /\ Locked!Next)
          \/ (Forks /\ Forking!Next) \/ (Selects /\ Looping!Next)

\* The fairness of the server that runs.
MCFairness ==
  /\ WF_MCvars(Serv05 /\ PassFd!ParentStep)
  /\ \A w \in PassFd!Children : WF_MCvars(Serv05 /\ PassFd!ChildStep(w))
  /\ WF_MCvars(Serv08 /\ MainStep) /\ SF_MCvars(Serv08 /\ MainLock)
  /\ \A t \in Threads : WF_MCvars(Serv08 /\ ThreadStep(t)) /\ SF_MCvars(Serv08 /\ Lock(t))
  /\ \A w \in Locked!Workers : WF_MCvars(Others /\ Locked!WorkerStep(w))
  /\ WF_MCvars(Forks /\ Forking!ParentStep)
  /\ \A k \in 1 .. NFEW : WF_MCvars(Forks /\ Forking!Finish(k))
  /\ WF_MCvars(Selects /\ Looping!ServerStep)
  /\ \A c \in 1 .. NFEW : WF_MCvars(Selects /\ Looping!Leave(c))

MCSpec == MCInit /\ [][MCNext]_MCvars /\ MCFairness

\* The state of the server that runs, seen as a pool of workers.
ServedBy(c) == IF c > arrived THEN -1
               ELSE CASE which = "serv05" -> PassFd!Worker(c)
                      [] which = "serv08" -> Worker(c)
                      [] which = "fork" -> Forking!Worker(c)
                      [] which = "select" -> Looping!Worker(c)
                      [] OTHER -> Locked!Worker(c)
Stage(c) == IF c > arrived THEN "coming" ELSE IF c \in done THEN "done"
            ELSE IF ServedBy(c) # -1 THEN "serving" ELSE "waiting"

Pool == INSTANCE WorkerPool
  WITH Conns <- 1 .. NCONN, NoOne <- -1,
       Workers <- PassFd!Children \cup Threads \cup Locked!Workers \cup Looping!Slots \cup 0 .. NCONN,
       stage <- [c \in 1 .. NCONN |-> Stage(c)], worker <- [c \in 1 .. NCONN |-> ServedBy(c)]

\* Every server implements the pool: no connection is served twice or by two,
\* no worker has two.
ServesOnce == Pool!Spec

\* serv05: the parent's table of its children is right (ServPassFd).
TableRight == which = "serv05" => PassFd!TableRight

\* serv08: no connection is lost between the main thread and the pool
\* (ServQueue).
RingKeepsAll == which = "serv08" => NoneLost

\* The lock around accept() is with the worker that accepts (ServLock).
LockRight == which \in Locked!Servers => Locked!LockRight

\* A connection that comes in is served in the end, unless it is reset, the
\* server has ended, a child of serv05 has died, or nobody is left to accept:
\* neither a descriptor passed, nor a byte in a pipe, nor a signal to the
\* condition variable, nor the lock is lost.  A datagram that comes in between
\* the connections is answered as well, unless the parent waits for a connection
\* that was reset (ForkServer).
ServedInTheEnd ==
  /\ \A c \in 1 .. NCONN :
       c <= arrived ~> c \in done \/ pc = "quit" \/ mpc = "quit" \/ ~PassFd!NobodyDied
                       \/ Locked!Stuck \/ ppc = "ended" \/ spc = "ended" \/ Looping!Blocked
  /\ datagram ~> (~datagram \/ ppc = "ended" \/ Forking!Blocked)

\* No child stays a zombie where the handler calls waitpid(), and the handler
\* never waits (ForkServer).
ZombiesSeen == which = "fork" => Forking!ZombiesSeen /\ Forking!WaitReturns

\* The table of clients is right, and nobody is waited for in read()
\* (SelectServer).
SlotsRight == which = "select" => Looping!SlotsRight /\ Looping!NeverWaitsInRead
=============================================================================
