----------------------------- MODULE ServQueue -----------------------------
(***************************************************************************)
(* src/server/serv08.c with pthread08.c: the main thread accepts           *)
(* connections and puts their descriptors into the ring clifd[], the       *)
(* threads of the pool take them out; one mutex and one condition variable *)
(* between them.  Connections are numbered as they come in.                *)
(***************************************************************************)
EXTENDS Integers, FiniteSets, FiniteSetsExt

CONSTANTS
  MAXNCLI,    \* entries of clifd[]: 32
  NTHREAD,    \* threads of the pool
  NCONN       \* bound: connections that come in

ASSUME QueueAssumption ==
  MAXNCLI \in Nat \ {0, 1} /\ NTHREAD \in Nat \ {0} /\ NCONN \in Nat

Threads == 1 .. NTHREAD
Main == 0
Nobody == -1
Slots == 0 .. MAXNCLI - 1

VARIABLES
  arrived, pending, done,    \* connections: last one, not accepted, finished
  mpc, connfd,               \* the main thread
  clifd, iput, iget,         \* the ring
  mutex,                     \* who holds clifd_mutex
  tpc, tconn                 \* a thread's place and its descriptor

clients == <<arrived, pending, done>>
ring == <<clifd, iput, iget>>
queueVars == <<mpc, connfd, ring, mutex, tpc, tconn>>

Init ==
  /\ arrived = 0 /\ pending = {} /\ done = {}
  /\ mpc = "accept" /\ connfd = 0
  /\ clifd = [k \in Slots |-> 0] /\ iput = 0 /\ iget = 0
  /\ mutex = Nobody
  /\ tpc = [t \in Threads |-> "lock"] /\ tconn = [t \in Threads |-> 0]

Arrive ==
  /\ arrived < NCONN
  /\ arrived' = arrived + 1 /\ pending' = pending \cup {arrived + 1}
  /\ UNCHANGED <<done, queueVars>>

\* A client resets its connection before accept() has returned it.
Abort(c) ==
  /\ c \in pending
  /\ pending' = pending \ {c} /\ done' = done \cup {c}
  /\ UNCHANGED <<arrived, queueVars>>

After(k) == IF k + 1 = MAXNCLI THEN 0 ELSE k + 1

-----------------------------------------------------------------------------
(* The main thread.                                                        *)

Accept ==
  /\ mpc = "accept" /\ pending # {}
  /\ connfd' = Min(pending) /\ pending' = pending \ {Min(pending)}
  /\ mpc' = "lock"
  /\ UNCHANGED <<arrived, done, ring, mutex, tpc, tconn>>

MainLock ==
  /\ mpc = "lock" /\ mutex = Nobody
  /\ mutex' = Main /\ mpc' = "put"
  /\ UNCHANGED <<clients, connfd, ring, tpc, tconn>>

\* Mutant: the full ring is not noticed.
PutUnchecked ==
  /\ mpc = "put"
  /\ clifd' = [clifd EXCEPT ![iput] = connfd]
  /\ iput' = After(iput) /\ connfd' = 0
  /\ mpc' = "signal"
  /\ UNCHANGED <<clients, iget, mutex, tpc, tconn>>

\* A ring that would be full ends the process.
Put ==
  /\ mpc = "put"
  /\ clifd' = [clifd EXCEPT ![iput] = connfd]
  /\ iput' = After(iput) /\ connfd' = 0
  /\ mpc' = IF iput' = iget THEN "quit" ELSE "signal"
  /\ UNCHANGED <<clients, iget, mutex, tpc, tconn>>

Waiting == {t \in Threads : tpc[t] = "wait"}

\* Mutant: nobody is woken.
SignalNobody ==
  /\ mpc = "signal"
  /\ mutex' = Nobody /\ mpc' = "accept"
  /\ UNCHANGED <<clients, connfd, ring, tpc, tconn>>

\* One of the waiting threads, if there are any, is made to lock again.
Signal ==
  /\ mpc = "signal"
  /\ IF Waiting = {} THEN UNCHANGED tpc
     ELSE \E t \in Waiting : tpc' = [tpc EXCEPT ![t] = "lock"]
  /\ mutex' = Nobody /\ mpc' = "accept"
  /\ UNCHANGED <<clients, connfd, ring, tconn>>

-----------------------------------------------------------------------------
(* A thread of the pool.                                                   *)

Lock(t) ==
  /\ mpc # "quit" /\ tpc[t] = "lock" /\ mutex = Nobody
  /\ mutex' = t /\ tpc' = [tpc EXCEPT ![t] = "test"]
  /\ UNCHANGED <<clients, mpc, connfd, ring, tconn>>

\* Nothing in the ring: pthread_cond_wait() releases the mutex.
Wait(t) ==
  /\ mpc # "quit" /\ tpc[t] = "test" /\ iget = iput
  /\ tpc' = [tpc EXCEPT ![t] = "wait"] /\ mutex' = Nobody
  /\ UNCHANGED <<clients, mpc, connfd, ring, tconn>>

\* pthread_cond_wait() may return without a signal.
Spurious(t) ==
  /\ mpc # "quit" /\ tpc[t] = "wait"
  /\ tpc' = [tpc EXCEPT ![t] = "lock"]
  /\ UNCHANGED <<clients, mpc, connfd, ring, mutex, tconn>>

\* Mutant: a thread that was woken takes a descriptor without testing again.
TakeUntested(t) ==
  /\ mpc # "quit" /\ tpc[t] = "test"
  /\ tconn' = [tconn EXCEPT ![t] = clifd[iget]]
  /\ iget' = After(iget)
  /\ tpc' = [tpc EXCEPT ![t] = "serve"] /\ mutex' = Nobody
  /\ UNCHANGED <<clients, mpc, connfd, clifd, iput>>

Take(t) ==
  /\ mpc # "quit" /\ tpc[t] = "test" /\ iget # iput
  /\ tconn' = [tconn EXCEPT ![t] = clifd[iget]]
  /\ iget' = After(iget)
  /\ tpc' = [tpc EXCEPT ![t] = "serve"] /\ mutex' = Nobody
  /\ UNCHANGED <<clients, mpc, connfd, clifd, iput>>

Finish(t) ==
  /\ mpc # "quit" /\ tpc[t] = "serve"
  /\ done' = done \cup {tconn[t]} /\ tconn' = [tconn EXCEPT ![t] = 0]
  /\ tpc' = [tpc EXCEPT ![t] = "lock"]
  /\ UNCHANGED <<arrived, pending, mpc, connfd, ring, mutex>>

\* web_child() ends the process over a bad request or a connection that fails.
Die(t) ==
  /\ mpc # "quit" /\ tpc[t] = "serve"
  /\ mpc' = "quit"
  /\ UNCHANGED <<clients, connfd, ring, mutex, tpc, tconn>>

Next ==
  \/ Arrive \/ (\E c \in pending : Abort(c))
  \/ Accept \/ MainLock \/ Put \/ Signal
  \/ \E t \in Threads : Lock(t) \/ Wait(t) \/ Spurious(t) \/ Take(t) \/ Finish(t) \/ Die(t)

vars == <<clients, queueVars>>

MainStep == Accept \/ Put \/ Signal
ThreadStep(t) == Wait(t) \/ Take(t) \/ Finish(t)

\* Every thread goes on when it can, and gets the mutex if it is free again and
\* again.
Fairness ==
  /\ WF_vars(MainStep) /\ SF_vars(MainLock)
  /\ \A t \in Threads : WF_vars(ThreadStep(t)) /\ SF_vars(Lock(t))

Spec == Init /\ [][Next]_vars /\ Fairness

\* The abstract state: see WorkerPool.
Worker(c) ==
  IF \E t \in Threads : tconn[t] = c THEN CHOOSE t \in Threads : tconn[t] = c ELSE -1

-----------------------------------------------------------------------------
(* Properties.                                                             *)

\* The descriptors in the ring, from iget up to iput.
Held == {clifd[(iget + k) % MAXNCLI] : k \in 0 .. ((iput - iget) % MAXNCLI) - 1}

\* As long as the process lives, every connection that was accepted is in one
\* place: in the hand of the main thread, in the ring or with one thread.
\* iput and iget, moved by different threads, never lose one.
NoneLost ==
  mpc # "quit" =>
    LET open == (1 .. arrived) \ (pending \cup done)
        inHand == {connfd} \ {0}
        withThreads == {tconn[t] : t \in Threads} \ {0}
    IN /\ open = inHand \cup Held \cup withThreads
       /\ Cardinality(open) = Cardinality(inHand) + Cardinality(withThreads)
                              + ((iput - iget) % MAXNCLI)
=============================================================================
