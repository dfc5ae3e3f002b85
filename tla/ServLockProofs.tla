--------------------------- MODULE ServLockProofs ---------------------------
(***************************************************************************)
(* TLAPS proofs about ServLock: for every number of workers and of         *)
(* connections, each of the servers in which every worker accepts keeps    *)
(* its lock right and implements WorkerPool.                               *)
(***************************************************************************)
EXTENDS ServLock, WellFoundedInduction, TLAPS

Places == {"lock", "accept", "unlock", "serve", "dead"}

TypeOK ==
  /\ arrived \in Nat /\ pending \subseteq 1 .. arrived /\ done \subseteq 1 .. arrived
  /\ server \in Servers /\ lock \in Workers \cup {Free}
  /\ wpc \in [Workers -> Places] /\ fd \in [Workers -> 0 .. arrived]

\* A connection is in one place: pending, done, or with one worker that is
\* past accept() or went down with its process.
OnePlace ==
  /\ pending \cap done = {}
  /\ \A w \in Workers :
       /\ fd[w] \notin pending \cup done
       /\ fd[w] # 0 => wpc[w] \in {"unlock", "serve", "dead"}
       /\ wpc[w] \in {"unlock", "serve"} => fd[w] # 0
       /\ \A v \in Workers : v # w /\ fd[v] = fd[w] => fd[w] = 0

\* A worker waits for a lock or gives one back only where there is one.
Loop == server \in Unlocked =>
          lock = Free /\ \A w \in Workers : wpc[w] \notin {"lock", "unlock"}

IInv == TypeOK /\ OnePlace /\ Loop /\ LockRight

\* Workers are positive numbers, and so never the mark of a free lock.
LEMMA WorkersPositive ==
  ASSUME NEW w \in Workers
  PROVE  w \in Int /\ w # Free /\ w # -1
BY DEF Workers, Free

\* accept() has a first connection to return if there is one at all.
LEMMA MinPending ==
  ASSUME NEW S, S \subseteq Nat, S # {}
  PROVE  Min(S) \in S
<1> DEFINE R == {p \in Nat \X Nat : p[1] < p[2]}
<1>1. R = OpToRel(<, Nat)
  BY Zenon DEF OpToRel
<1>2. IsWellFoundedOn(R, Nat)
  BY <1>1, NatLessThanWellFounded, Zenon
<1>3. PICK x \in S : \A y \in S : ~ (<<y, x>> \in R)
  <2> HIDE DEF R
  <2> QED BY <1>2, WFMin, Zenon
<1>4. ASSUME NEW y \in S PROVE x =< y
  <2>1. x \in Nat /\ y \in Nat
    OBVIOUS
  <2>2. <<y, x>> \notin R
    BY <1>3
  <2>3. ~ (y < x)
    BY <2>1, <2>2
  <2> QED BY <2>1, <2>3
<1> QED
  BY <1>4 DEF Min

\* Every one of the five servers begins in the invariant.
LEMMA InitIInv == Init => IInv
BY DEF Init, Begin, IInv, TypeOK, OnePlace, Loop, LockRight, Places, Top, Servers,
       Unlocked, Free

\* Where a connection is, without where the workers are.
Apart ==
  /\ pending \cap done = {}
  /\ \A w \in Workers :
       /\ fd[w] \notin pending \cup done
       /\ \A v \in Workers : v # w /\ fd[v] = fd[w] => fd[w] = 0

\* Closing a worker's connection, at the end of a request or by the death of
\* its process, keeps the connections apart.
LEMMA CloseApart ==
  ASSUME TypeOK, OnePlace, NEW w \in Workers,
         fd' = [fd EXCEPT ![w] = 0], done' = done \cup ({fd[w]} \ {0}),
         UNCHANGED <<arrived, pending>>
  PROVE  /\ done' \subseteq 1 .. arrived'
         /\ fd' \in [Workers -> 0 .. arrived']
         /\ Apart'
<1>1. fd \in [Workers -> 0 .. arrived] /\ arrived \in Nat
  BY DEF TypeOK
<1>2. fd' \in [Workers -> 0 .. arrived']
  BY <1>1
<1>3. \A v \in Workers : fd'[v] = IF v = w THEN 0 ELSE fd[v]
  BY <1>1
<1>4. fd[w] \in 0 .. arrived
  BY <1>1
<1>5. {fd[w]} \ {0} \subseteq 1 .. arrived
  BY <1>1, <1>4
<1>6. done' \subseteq 1 .. arrived'
  BY <1>5 DEF TypeOK
<1>7. 0 \notin pending /\ 0 \notin done'
  BY <1>5 DEF TypeOK
<1>8. fd[w] \notin pending
  BY DEF OnePlace
<1>9. pending' \cap done' = {}
  BY <1>8 DEF OnePlace
<1>10. ASSUME NEW v \in Workers PROVE fd'[v] \notin pending' \cup done'
  <2>1. CASE v = w
    BY <1>3, <1>7, <2>1
  <2>2. CASE v # w
    <3>1. fd'[v] = fd[v] /\ fd[v] \notin pending \cup done
      BY <1>3, <2>2 DEF OnePlace
    <3>2. fd[v] \notin {fd[w]} \ {0}
      BY <2>2 DEF OnePlace
    <3> QED BY <3>1, <3>2
  <2> QED BY <2>1, <2>2
<1>11. ASSUME NEW u \in Workers, NEW v \in Workers, v # u, fd'[v] = fd'[u]
       PROVE  fd'[u] = 0
  BY <1>3, <1>11 DEF OnePlace
<1> QED
  BY <1>2, <1>6, <1>9, <1>10, <1>11 DEF Apart

(***************************************************************************)
(* Every step preserves the invariant.  Only Accept moves a connection     *)
(* from pending to a worker; only Wait, Release and Kill move the lock.    *)
(***************************************************************************)
LEMMA NextIInv == IInv /\ [Next]_vars => IInv'
<1> SUFFICES ASSUME IInv, [Next]_vars PROVE IInv'
  OBVIOUS
<1> USE WorkersPositive DEF IInv
<1>1. CASE Arrive
  <2>1. TypeOK'
    BY <1>1 DEF Arrive, TypeOK, lockVars
  <2>2. OnePlace'
    BY <1>1 DEF Arrive, TypeOK, OnePlace, lockVars
  <2>3. Loop' /\ LockRight'
    BY <1>1 DEF Arrive, Loop, LockRight, lockVars
  <2> QED BY <2>1, <2>2, <2>3
<1>2. ASSUME NEW c \in pending, Abort(c) PROVE IInv'
  <2>1. TypeOK'
    BY <1>2 DEF Abort, TypeOK, lockVars
  <2>2. OnePlace'
    BY <1>2 DEF Abort, TypeOK, OnePlace, lockVars
  <2>3. Loop' /\ LockRight'
    BY <1>2 DEF Abort, Loop, LockRight, lockVars
  <2> QED BY <2>1, <2>2, <2>3
<1>3. ASSUME NEW w \in Workers, Wait(w) PROVE IInv'
  <2>1. TypeOK'
    BY <1>3 DEF Wait, TypeOK, clients, Places
  <2>2. OnePlace'
    BY <1>3 DEF Wait, TypeOK, OnePlace, clients
  <2>3. Loop'
    BY <1>3 DEF Wait, TypeOK, Loop, clients
  <2>4. LockRight'
    BY <1>3 DEF Wait, TypeOK, LockRight, clients
  <2> QED BY <2>1, <2>2, <2>3, <2>4
<1>4. ASSUME NEW w \in Workers, Accept(w) PROVE IInv'
  <2>0. pending \subseteq Nat
    BY DEF TypeOK
  <2>1. PICK c \in pending : /\ pending' = pending \ {c}
                             /\ fd' = [fd EXCEPT ![w] = c]
    BY <1>4, <2>0, MinPending DEF Accept
  <2>c. c \in 1 .. arrived /\ c # 0
    BY DEF TypeOK
  <2>2. TypeOK'
    <3>1. fd' \in [Workers -> 0 .. arrived]
      BY <2>1, <2>c DEF TypeOK
    <3> QED BY <1>4, <2>1, <3>1 DEF Accept, TypeOK, Places
  <2>3. OnePlace'
    <3>1. \A v \in Workers : fd[v] # c
      BY DEF OnePlace
    <3>2. \A v \in Workers : /\ fd'[v] = IF v = w THEN c ELSE fd[v]
                             /\ v # w => wpc'[v] = wpc[v]
      BY <1>4, <2>1 DEF Accept, TypeOK
    <3>3. wpc'[w] \in {"unlock", "serve"} /\ done' = done /\ c \notin done
      BY <1>4 DEF Accept, TypeOK, OnePlace
    <3>4. ASSUME NEW v \in Workers PROVE fd'[v] \notin pending' \cup done'
      BY <2>1, <3>2, <3>3 DEF OnePlace
    <3>5. ASSUME NEW v \in Workers
          PROVE  /\ fd'[v] # 0 => wpc'[v] \in {"unlock", "serve", "dead"}
                 /\ wpc'[v] \in {"unlock", "serve"} => fd'[v] # 0
      BY <2>c, <3>2, <3>3 DEF OnePlace
    <3>6. ASSUME NEW u \in Workers, NEW v \in Workers, v # u, fd'[v] = fd'[u]
          PROVE  fd'[u] = 0
      BY <3>1, <3>2, <3>6 DEF OnePlace
    <3> QED BY <2>1, <3>3, <3>4, <3>5, <3>6 DEF OnePlace
  <2>4. Loop'
    BY <1>4 DEF Accept, TypeOK, Loop
  <2>5. LockRight'
    BY <1>4 DEF Accept, TypeOK, LockRight
  <2> QED BY <2>2, <2>3, <2>4, <2>5
<1>5. ASSUME NEW w \in Workers, Release(w) PROVE IInv'
  <2>1. TypeOK'
    BY <1>5 DEF Release, TypeOK, clients, Places
  <2>2. OnePlace'
    BY <1>5 DEF Release, TypeOK, OnePlace, clients
  <2>3. Loop'
    BY <1>5 DEF Release, TypeOK, Loop
  <2>4. LockRight'
    BY <1>5 DEF Release, TypeOK, LockRight
  <2> QED BY <2>1, <2>2, <2>3, <2>4
<1>6. ASSUME NEW w \in Workers, Finish(w) PROVE IInv'
  <2>w. fd[w] # 0 /\ done' = done \cup ({fd[w]} \ {0})
    BY <1>6 DEF Finish, OnePlace
  <2>a. done' \subseteq 1 .. arrived' /\ fd' \in [Workers -> 0 .. arrived'] /\ Apart'
    BY <1>6, <2>w, CloseApart DEF Finish
  <2>1. TypeOK'
    BY <1>6, <2>a DEF Finish, TypeOK, Places, Top
  <2>2. OnePlace'
    BY <1>6, <2>a DEF Finish, TypeOK, OnePlace, Apart, Top
  <2>3. Loop'
    BY <1>6 DEF Finish, TypeOK, Loop, Top
  <2>4. LockRight'
    BY <1>6 DEF Finish, TypeOK, LockRight, Top
  <2> QED BY <2>1, <2>2, <2>3, <2>4
<1>7. ASSUME NEW w \in Workers, Die(w) PROVE IInv'
  <2>w. fd[w] # 0 /\ {fd[w]} = {fd[w]} \ {0}
    BY <1>7 DEF Die, OnePlace
  <2>1. CASE Threaded
    BY <1>7, <2>1 DEF Die, TypeOK, OnePlace, Places, Loop, LockRight, Threaded
  <2>2. CASE ~Threaded
    <3>a. done' \subseteq 1 .. arrived' /\ fd' \in [Workers -> 0 .. arrived'] /\ Apart'
      BY <1>7, <2>2, <2>w, CloseApart DEF Die
    <3>1. TypeOK'
      BY <1>7, <2>2, <3>a DEF Die, TypeOK, Places
    <3>2. OnePlace'
      BY <1>7, <2>2, <3>a DEF Die, TypeOK, OnePlace, Apart
    <3>3. Loop'
      BY <1>7, <2>2 DEF Die, TypeOK, Loop
    <3>4. LockRight'
      BY <1>7, <2>2 DEF Die, TypeOK, LockRight
    <3> QED BY <3>1, <3>2, <3>3, <3>4
  <2> QED BY <2>1, <2>2
<1>8. ASSUME NEW w \in Workers, Kill(w) PROVE IInv'
  <2>a. done' \subseteq 1 .. arrived' /\ fd' \in [Workers -> 0 .. arrived'] /\ Apart'
    BY <1>8, CloseApart DEF Kill
  <2>1. TypeOK'
    BY <1>8, <2>a DEF Kill, TypeOK, Places, Holder
  <2>2. OnePlace'
    BY <1>8, <2>a DEF Kill, TypeOK, OnePlace, Apart
  <2>3. Loop'
    BY <1>8 DEF Kill, TypeOK, Loop, Holder
  <2>4. LockRight'
    BY <1>8 DEF Kill, TypeOK, LockRight, Holder
  <2> QED BY <2>1, <2>2, <2>3, <2>4
<1>9. CASE UNCHANGED vars
  BY <1>9 DEF vars, clients, lockVars, TypeOK, OnePlace, Loop, LockRight
<1> QED
  BY <1>1, <1>2, <1>3, <1>4, <1>5, <1>6, <1>7, <1>8, <1>9 DEF Next, WorkerStep

\* The invariant holds in every state.
LEMMA IInvAlways == Spec => []IInv
BY InitIInv, NextIInv, PTL DEF Spec

(***************************************************************************)
(* However many workers there are and wherever one of them is killed: the  *)
(* lock around accept() is with the worker that accepts, and a lock on a   *)
(* file never stays with a dead child (child03.c:28-30, lock_fcntl.c).     *)
(***************************************************************************)
THEOREM LockStaysRight == Spec => []LockRight
BY IInvAlways, PTL DEF IInv

-----------------------------------------------------------------------------
(* The servers implement WorkerPool.                                       *)

Conns == Nat \ {0}

\* The stage of connection c, with the last arrival a, the finished ones D and
\* the workers' descriptors f.
StageOf(a, D, f, c) ==
  IF c > a THEN "coming"
  ELSE IF c \in D THEN "done"
  ELSE IF WorkerOf(f, c) # -1 THEN "serving" ELSE "waiting"

stages == [c \in Conns |-> StageOf(arrived, done, fd, c)]
servers == [c \in Conns |-> WorkerOf(fd, c)]

Pool == INSTANCE WorkerPool WITH NoOne <- -1, stage <- stages, worker <- servers

\* No connection is served twice or by two, no worker has two: the servers
\* implement WorkerPool.
ServesOnce == Pool!Spec

\* WorkerOf finds the worker that has connection c, if one has it.
LEMMA WorkerOfFinds ==
  ASSUME NEW f, NEW c,
         \A v, w \in Workers : f[v] = c /\ f[w] = c => v = w
  PROVE  /\ \A w \in Workers : f[w] = c => WorkerOf(f, c) = w
         /\ (\A w \in Workers : f[w] # c) => WorkerOf(f, c) = -1
BY DEF WorkerOf

\* Two descriptor tables that give connection c to the same workers.
LEMMA WorkerOfSame ==
  ASSUME NEW f, NEW g, NEW c, \A w \in Workers : f[w] = c <=> g[w] = c
  PROVE  WorkerOf(f, c) = WorkerOf(g, c)
<1>1. (CHOOSE w \in Workers : f[w] = c) = (CHOOSE w \in Workers : g[w] = c)
  OBVIOUS
<1> QED BY <1>1 DEF WorkerOf

\* What the invariant says of the pool.
LEMMA PoolFacts ==
  ASSUME IInv, NEW c \in Conns
  PROVE  /\ \A w \in Workers : fd[w] = c => WorkerOf(fd, c) = w
         /\ (\A w \in Workers : fd[w] # c) => WorkerOf(fd, c) = -1
<1>1. \A v, w \in Workers : fd[v] = c /\ fd[w] = c => v = w
  BY DEF IInv, OnePlace, Conns
<1> QED BY <1>1, WorkerOfFinds

\* A worker that closes its connection is done with it.
LEMMA CloseStep ==
  ASSUME IInv, NEW w \in Workers, fd[w] # 0,
         fd' = [fd EXCEPT ![w] = 0], done' = done \cup {fd[w]}, arrived' = arrived
  PROVE  Pool!Finish(fd[w])
<1> DEFINE c == fd[w]
<1>1. c \in Conns /\ c <= arrived /\ c \notin done /\ fd \in [Workers -> 0 .. arrived]
  BY DEF IInv, TypeOK, OnePlace, Conns
<1>2. WorkerOf(fd, c) = w
  BY <1>1, PoolFacts
<1>3. stages[c] = "serving"
  BY <1>1, <1>2, WorkersPositive DEF stages, StageOf, Conns, IInv, TypeOK
<1>4. \A v \in Workers : fd'[v] # c
  BY <1>1 DEF IInv, OnePlace
<1>5. WorkerOf(fd', c) = -1
  BY <1>4, WorkerOfFinds
<1>6. ASSUME NEW d \in Conns, d # c PROVE WorkerOf(fd', d) = WorkerOf(fd, d)
  <2>1. \A v \in Workers : fd'[v] = d <=> fd[v] = d
    BY <1>1, <1>6 DEF Conns
  <2> QED BY ONLY <2>1, WorkerOfSame, Zenon
<1>7. ASSUME NEW d \in Conns
      PROVE  stages'[d] = [stages EXCEPT ![c] = "done"][d]
  <2>1. stages'[d] = StageOf(arrived', done', fd', d) /\ stages[d] = StageOf(arrived, done, fd, d)
    BY DEF stages
  <2>2. CASE d = c
    BY <1>1, <2>1, <2>2 DEF StageOf, stages, Conns, IInv, TypeOK
  <2>3. CASE d # c
    BY <1>6, <2>1, <2>3 DEF StageOf, stages
  <2> QED BY <2>2, <2>3
<1>8. ASSUME NEW d \in Conns
      PROVE  servers'[d] = [servers EXCEPT ![c] = -1][d]
  BY <1>1, <1>5, <1>6 DEF servers
<1> QED
  BY <1>1, <1>3, <1>7, <1>8 DEF Pool!Finish, stages, servers

\* A connection that comes in waits.
LEMMA ArriveStep == IInv /\ Arrive => Pool!Arrive(arrived + 1)
<1> SUFFICES ASSUME IInv, Arrive PROVE Pool!Arrive(arrived + 1)
  OBVIOUS
<1> DEFINE c == arrived + 1
<1>1. arrived \in Nat /\ c \in Conns /\ c > arrived /\ c \notin done
  BY DEF IInv, TypeOK, Conns
<1>2. \A w \in Workers : fd[w] # c
  BY DEF IInv, TypeOK
<1>3. WorkerOf(fd, c) = -1
  BY <1>1, <1>2, PoolFacts
<1>4. arrived' = arrived + 1 /\ done' = done /\ fd' = fd
  BY DEF Arrive, lockVars
<1>5. ASSUME NEW d \in Conns
      PROVE  stages'[d] = [stages EXCEPT ![c] = "waiting"][d]
  <2>1. stages'[d] = StageOf(arrived + 1, done, fd, d) /\ stages[d] = StageOf(arrived, done, fd, d)
    BY <1>4 DEF stages
  <2>2. CASE d = c
    BY <1>1, <1>3, <2>1, <2>2 DEF StageOf, stages
  <2>3. CASE d # c
    BY <1>1, <2>1, <2>3 DEF StageOf, stages, Conns
  <2> QED BY <2>2, <2>3
<1>6. servers' = servers
  BY <1>4 DEF servers
<1>7. stages[c] = "coming"
  BY <1>1 DEF stages, StageOf
<1> QED
  BY <1>1, <1>5, <1>6, <1>7 DEF Pool!Arrive, stages

\* A connection that is reset leaves the queue.
LEMMA AbortStep ==
  ASSUME IInv, NEW c \in pending, Abort(c)
  PROVE  Pool!Abort(c)
<1>1. arrived \in Nat /\ c \in Conns /\ c <= arrived /\ c \notin done
  BY DEF IInv, TypeOK, OnePlace, Conns
<1>2. \A w \in Workers : fd[w] # c
  BY DEF IInv, OnePlace
<1>3. WorkerOf(fd, c) = -1
  BY <1>1, <1>2, PoolFacts
<1>4. arrived' = arrived /\ done' = done \cup {c} /\ fd' = fd
  BY DEF Abort, lockVars
<1>5. ASSUME NEW d \in Conns
      PROVE  stages'[d] = [stages EXCEPT ![c] = "done"][d]
  <2>1. stages'[d] = StageOf(arrived, done \cup {c}, fd, d) /\ stages[d] = StageOf(arrived, done, fd, d)
    BY <1>4 DEF stages
  <2>2. CASE d = c
    BY <1>1, <2>1, <2>2 DEF StageOf, stages, Conns
  <2>3. CASE d # c
    BY <2>1, <2>3 DEF StageOf, stages
  <2> QED BY <2>2, <2>3
<1>6. servers' = servers
  BY <1>4 DEF servers
<1>7. stages[c] = "waiting"
  BY <1>1, <1>3 DEF stages, StageOf, Conns
<1> QED
  BY <1>5, <1>6, <1>7 DEF Pool!Abort, stages

\* accept() gives a waiting connection to a worker that has none.
LEMMA AcceptStep ==
  ASSUME IInv, NEW w \in Workers, Accept(w)
  PROVE  Pool!Take(Min(pending), w)
<1> DEFINE c == Min(pending)
<1>0. c \in pending
  <2>1. pending \subseteq Nat /\ pending # {}
    BY DEF IInv, TypeOK, Accept
  <2> QED BY <2>1, MinPending
<1> HIDE DEF c
<1>1. arrived \in Nat /\ c \in Conns /\ c <= arrived /\ c \notin done /\ c # 0
  BY <1>0 DEF IInv, TypeOK, OnePlace, Conns
<1>2. \A v \in Workers : fd[v] # c
  BY <1>0 DEF IInv, OnePlace
<1>3. WorkerOf(fd, c) = -1
  BY <1>1, <1>2, PoolFacts
<1>4. arrived' = arrived /\ done' = done /\ fd' = [fd EXCEPT ![w] = c]
  BY DEF Accept, c
<1>5. fd[w] = 0 /\ fd \in [Workers -> 0 .. arrived]
  BY DEF Accept, IInv, TypeOK, OnePlace
<1>6. \A v \in Workers : fd'[v] = IF v = w THEN c ELSE fd[v]
  BY <1>4, <1>5
<1>7. WorkerOf(fd', c) = w
  BY <1>2, <1>6, WorkerOfFinds
<1>8. ASSUME NEW d \in Conns, d # c PROVE WorkerOf(fd', d) = WorkerOf(fd, d)
  <2>1. \A v \in Workers : fd'[v] = d <=> fd[v] = d
    BY <1>5, <1>6, <1>8 DEF Conns
  <2> QED BY <2>1, WorkerOfSame, Zenon
<1>9. ASSUME NEW d \in Conns
      PROVE  stages'[d] = [stages EXCEPT ![c] = "serving"][d]
  <2>1. stages'[d] = StageOf(arrived, done, fd', d) /\ stages[d] = StageOf(arrived, done, fd, d)
    BY <1>4 DEF stages
  <2>2. CASE d = c
    BY <1>1, <1>7, <2>1, <2>2, WorkersPositive DEF StageOf, stages, Conns
  <2>3. CASE d # c
    BY <1>8, <2>1, <2>3 DEF StageOf, stages
  <2> QED BY <2>2, <2>3
<1>10. ASSUME NEW d \in Conns
       PROVE  servers'[d] = [servers EXCEPT ![c] = w][d]
  BY <1>1, <1>7, <1>8 DEF servers
<1>11. stages[c] = "waiting"
  BY <1>1, <1>3 DEF stages, StageOf, Conns
<1>12. ASSUME NEW d \in Conns PROVE servers[d] # w
  <2>1. CASE \E v \in Workers : fd[v] = d
    BY <1>5, <2>1, PoolFacts DEF servers, Conns
  <2>2. CASE \A v \in Workers : fd[v] # d
    BY <2>2, PoolFacts, WorkersPositive DEF servers
  <2> QED BY <2>1, <2>2
<1> QED
  BY <1>9, <1>10, <1>11, <1>12 DEF Pool!Take, stages, servers, c

\* Steps that do not touch a connection are not seen.
LEMMA OtherStep ==
  ASSUME arrived' = arrived, done' = done, fd' = fd
  PROVE  UNCHANGED <<stages, servers>>
BY DEF stages, servers

\* Every step of a server is a step of the pool, or not seen.
LEMMA StepImplements == IInv /\ [Next]_vars => [Pool!Next]_<<stages, servers>>
<1> SUFFICES ASSUME IInv, [Next]_vars PROVE [Pool!Next]_<<stages, servers>>
  OBVIOUS
<1>1. CASE Arrive
  <2>1. arrived + 1 \in Conns
    BY DEF IInv, TypeOK, Conns
  <2> QED BY <1>1, <2>1, ArriveStep DEF Pool!Next
<1>2. ASSUME NEW c \in pending, Abort(c) PROVE Pool!Next
  <2>1. c \in Conns
    BY DEF IInv, TypeOK, Conns
  <2> QED BY <1>2, <2>1, AbortStep DEF Pool!Next
<1>3. ASSUME NEW w \in Workers, Wait(w) \/ Release(w)
      PROVE  UNCHANGED <<stages, servers>>
  BY <1>3, OtherStep DEF Wait, Release, clients
<1>4. ASSUME NEW w \in Workers, Accept(w) PROVE Pool!Next
  <2>1. pending \subseteq Nat \ {0} /\ pending # {}
    BY <1>4 DEF Accept, IInv, TypeOK
  <2>2. Min(pending) \in Conns
    BY <2>1, MinPending DEF Conns
  <2> QED BY <1>4, <2>2, AcceptStep DEF Pool!Next
<1>5. ASSUME NEW w \in Workers, Finish(w) PROVE Pool!Next
  <2>1. fd[w] \in Conns
    BY <1>5 DEF Finish, IInv, TypeOK, OnePlace, Conns
  <2>2. fd[w] # 0 /\ arrived' = arrived
    BY <1>5, <2>1 DEF Finish, Conns
  <2> QED BY <1>5, <2>1, <2>2, CloseStep DEF Finish, Pool!Next
<1>6. ASSUME NEW w \in Workers, Die(w)
      PROVE  Pool!Next \/ UNCHANGED <<stages, servers>>
  <2>1. CASE Threaded
    BY <1>6, <2>1, OtherStep DEF Die
  <2>2. CASE ~Threaded
    <3>1. fd[w] \in Conns
      BY <1>6 DEF Die, IInv, TypeOK, OnePlace, Conns
    <3>2. fd[w] # 0 /\ arrived' = arrived
      BY <1>6, <3>1 DEF Die, Conns
    <3> QED BY <1>6, <2>2, <3>1, <3>2, CloseStep DEF Die, Pool!Next
  <2> QED BY <2>1, <2>2
<1>7. ASSUME NEW w \in Workers, Kill(w)
      PROVE  Pool!Next \/ UNCHANGED <<stages, servers>>
  <2>1. CASE fd[w] = 0
    <3>1. done' = done /\ arrived' = arrived
      BY <1>7, <2>1 DEF Kill
    <3>2. fd' = fd
      BY <1>7, <2>1 DEF Kill, IInv, TypeOK
    <3> QED BY <3>1, <3>2, OtherStep
  <2>2. CASE fd[w] # 0
    <3>1. fd[w] \in Conns
      BY <2>2 DEF IInv, TypeOK, Conns
    <3>2. done' = done \cup {fd[w]} /\ arrived' = arrived
      BY <1>7, <2>2 DEF Kill
    <3> QED BY <1>7, <2>2, <3>1, <3>2, CloseStep DEF Kill, Pool!Next
  <2> QED BY <2>1, <2>2
<1>8. CASE UNCHANGED vars
  BY <1>8, OtherStep DEF vars, clients, lockVars
<1> QED
  BY <1>1, <1>2, <1>3, <1>4, <1>5, <1>6, <1>7, <1>8 DEF Next, WorkerStep

\* Before anything happens every connection is still to come.
LEMMA InitImplements == Init => Pool!Init
<1> SUFFICES ASSUME Init PROVE Pool!Init
  OBVIOUS
<1>1. ASSUME NEW c \in Conns PROVE WorkerOf(fd, c) = -1
  <2>1. \A w \in Workers : fd[w] # c
    BY DEF Init, Begin, Conns
  <2> QED BY <2>1, WorkerOfFinds
<1>2. stages = [c \in Conns |-> "coming"]
  BY DEF Init, Begin, stages, StageOf, Conns
<1>3. servers = [c \in Conns |-> -1]
  BY <1>1 DEF servers
<1> QED BY <1>2, <1>3 DEF Pool!Init

(***************************************************************************)
(* Each of serv02, serv03, serv04, serv07 and serv09, with any number of   *)
(* workers and connections, serves a connection by one worker, once, and   *)
(* no worker has two, wherever clients reset and children are killed.      *)
(***************************************************************************)
THEOREM Implements == Spec => ServesOnce
<1>1. Spec => [][Pool!Next]_<<stages, servers>>
  BY IInvAlways, StepImplements, PTL DEF Spec
<1>2. Spec => Pool!Init
  BY InitImplements DEF Spec
<1> QED BY <1>1, <1>2, PTL DEF ServesOnce, Pool!Spec
=============================================================================
