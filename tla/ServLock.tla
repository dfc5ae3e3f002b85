------------------------------ MODULE ServLock ------------------------------
(***************************************************************************)
(* The preallocated servers of src/server/ in which every worker calls     *)
(* accept() itself: serv02 with child02 (no lock), serv03 with child03 and *)
(* lock_fcntl (a lock on a file), serv04 with child04 and lock_pthread (a  *)
(* mutex in shared memory), serv07 with pthread07 (threads and a mutex)    *)
(* and serv09 with pthread09 (threads, no lock).  Connections are numbered *)
(* as they come in.                                                        *)
(***************************************************************************)
EXTENDS Integers, FiniteSets, FiniteSetsExt

CONSTANTS
  NWORKER,    \* children or threads
  NCONN       \* bound: connections that come in

Workers == 1 .. NWORKER
Free == 0

VARIABLES
  arrived, pending, done,    \* connections: last one, not accepted, finished
  server,     \* which of the five
  lock,       \* who holds the lock
  wpc, fd     \* a worker's place and its descriptor

clients == <<arrived, pending, done>>
lockVars == <<server, lock, wpc, fd>>
vars == <<clients, lockVars>>

Servers == {"serv02", "serv03", "serv04", "serv07", "serv09"}
Threaded == server \in {"serv07", "serv09"}
Unlocked == {"serv02", "serv09"}

\* Where a worker's loop begins.
Top == IF server \in Unlocked THEN "accept" ELSE "lock"

Begin ==
  /\ arrived = 0 /\ pending = {} /\ done = {}
  /\ lock = Free
  /\ wpc = [w \in Workers |-> Top] /\ fd = [w \in Workers |-> 0]

Init == server \in Servers /\ Begin

Arrive ==
  /\ arrived < NCONN
  /\ arrived' = arrived + 1 /\ pending' = pending \cup {arrived + 1}
  /\ UNCHANGED <<done, lockVars>>

\* A client resets its connection before accept() has returned it.
Abort(c) ==
  /\ c \in pending
  /\ pending' = pending \ {c} /\ done' = done \cup {c}
  /\ UNCHANGED <<arrived, lockVars>>

\* my_lock_wait(), or the mutex of serv07.
Wait(w) ==
  /\ wpc[w] = "lock" /\ lock = Free
  /\ lock' = w /\ wpc' = [wpc EXCEPT ![w] = "accept"]
  /\ UNCHANGED <<clients, server, fd>>

Accept(w) ==
  /\ wpc[w] = "accept" /\ pending # {}
  /\ fd' = [fd EXCEPT ![w] = Min(pending)] /\ pending' = pending \ {Min(pending)}
  /\ wpc' = [wpc EXCEPT ![w] = IF server \in Unlocked THEN "serve" ELSE "unlock"]
  /\ UNCHANGED <<arrived, done, server, lock>>

Release(w) ==
  /\ wpc[w] = "unlock"
  /\ lock' = Free /\ wpc' = [wpc EXCEPT ![w] = "serve"]
  /\ UNCHANGED <<clients, server, fd>>

Finish(w) ==
  /\ wpc[w] = "serve"
  /\ done' = done \cup {fd[w]} /\ fd' = [fd EXCEPT ![w] = 0]
  /\ wpc' = [wpc EXCEPT ![w] = Top]
  /\ UNCHANGED <<arrived, pending, server, lock>>

\* web_child() ends the process over a bad request or a connection that fails;
\* if that is the process of all threads, nothing happens any more.
Die(w) ==
  /\ wpc[w] = "serve"
  /\ IF Threaded
     THEN wpc' = [v \in Workers |-> "dead"] /\ UNCHANGED <<done, fd>>
     ELSE /\ wpc' = [wpc EXCEPT ![w] = "dead"]
          /\ done' = done \cup {fd[w]} /\ fd' = [fd EXCEPT ![w] = 0]
  /\ UNCHANGED <<arrived, pending, server, lock>>

\* Mutant: the lock on the file stays with the dead.
HolderKeeps(w) == lock

\* The kernel takes a file lock back from a process that ends, and leaves a
\* mutex in shared memory as it is.
Holder(w) == IF lock = w /\ server = "serv03" THEN Free ELSE lock

\* A child is killed, wherever it is.
Kill(w) ==
  /\ ~Threaded /\ wpc[w] # "dead"
  /\ wpc' = [wpc EXCEPT ![w] = "dead"] /\ fd' = [fd EXCEPT ![w] = 0]
  /\ done' = done \cup ({fd[w]} \ {0})
  /\ lock' = Holder(w)
  /\ UNCHANGED <<arrived, pending, server>>

WorkerStep(w) == Wait(w) \/ Accept(w) \/ Release(w) \/ Finish(w)

Next ==
  \/ Arrive \/ (\E c \in pending : Abort(c))
  \/ \E w \in Workers : WorkerStep(w) \/ Die(w) \/ Kill(w)

\* Every worker goes on when it can.
Fairness == \A w \in Workers : WF_vars(WorkerStep(w))

Spec == Init /\ [][Next]_vars /\ Fairness

\* The abstract state: see WorkerPool.
WorkerOf(f, c) ==
  IF \E w \in Workers : f[w] = c THEN CHOOSE w \in Workers : f[w] = c ELSE -1

Worker(c) == WorkerOf(fd, c)

-----------------------------------------------------------------------------
(* Properties.                                                             *)

\* Nobody is left who could accept, or who could be given the lock.
Stuck ==
  \/ \A w \in Workers : wpc[w] = "dead"
  \/ lock # Free /\ wpc[lock] = "dead"

\* Where there is a lock, one worker at most is at accept(), and the lock is
\* with it: nobody keeps it while serving, and a child that is killed takes it
\* along only if it is a mutex (child03.c:28-30, pthread07.c:26-28).
LockRight ==
  server \notin Unlocked =>
    /\ \A w \in Workers : wpc[w] \in {"accept", "unlock"} => lock = w
    /\ lock # Free => \/ wpc[lock] \in {"accept", "unlock"}
                      \/ wpc[lock] = "dead" /\ server # "serv03"
=============================================================================
