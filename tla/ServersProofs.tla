--------------------------- MODULE ServersProofs ----------------------------
(***************************************************************************)
(* TLAPS proofs about MCServers, in which one of the servers of            *)
(* src/server/, src/tcpcliserv/ and the chapters that copy them runs: what *)
(* the runs check of each of them holds for every number of children,      *)
(* threads, slots and connections.                                         *)
(***************************************************************************)
EXTENDS MCServers, FiniteSetTheorems, WellFoundedInduction, TLAPS

\* accept() has a first connection to return if there is one at all; the same
\* for the first free child and the first free entry.
LEMMA MinIn ==
  ASSUME NEW S, S \subseteq Nat, S # {}
  PROVE  Min(S) \in S /\ \A y \in S : Min(S) <= y
<1> DEFINE R == {p \in Nat \X Nat : p[1] < p[2]}
<1>1. R = OpToRel(<, Nat)
  BY Zenon DEF OpToRel
<1>2. IsWellFoundedOn(R, Nat)
  BY <1>1, NatLessThanWellFounded, Zenon
<1>3. PICK x \in S : \A y \in S : ~ (<<y, x>> \in R)
  <2> HIDE DEF R
  <2> QED BY <1>2, WFMin, Zenon
<1>4. ASSUME NEW y \in S PROVE x =< y
  <2>1. x \in Nat /\ y \in Nat
    OBVIOUS
  <2>2. <<y, x>> \notin R
    BY <1>3
  <2> QED BY <2>1, <2>2
<1> QED
  BY <1>4 DEF Min

\* The instances count as this module does.
LEMMA SameCardinality ==
  ASSUME NEW S
  PROVE  PassFd!Cardinality(S) = Cardinality(S) /\ Looping!Cardinality(S) = Cardinality(S)
<1>1. PassFd!Cardinality(S) = Cardinality(S)
  BY Zenon DEF PassFd!Cardinality, Cardinality
<1>2. Looping!Cardinality(S) = Cardinality(S)
  BY Zenon DEF Looping!Cardinality, Cardinality
<1> QED BY <1>1, <1>2

\* Two finite sets with nothing in common.
LEMMA DisjointUnion ==
  ASSUME NEW S, NEW T, IsFiniteSet(S), IsFiniteSet(T), S \cap T = {}
  PROVE  IsFiniteSet(S \cup T) /\ Cardinality(S \cup T) = Cardinality(S) + Cardinality(T)
<1>1. Cardinality(S) \in Nat /\ Cardinality(T) \in Nat
  BY FS_CardinalityType
<1>2. Cardinality(S \cap T) = 0
  BY FS_EmptySet
<1>3. /\ IsFiniteSet(S \cup T)
      /\ Cardinality(S \cup T) = Cardinality(S) + Cardinality(T) - Cardinality(S \cap T)
  BY FS_Union
<1> QED BY <1>1, <1>2, <1>3

-----------------------------------------------------------------------------
(* serv08: the ring between the main thread and the pool.                  *)

\* The slots of clifd[] between iget and iput.
Filled == {k \in Slots : IF iget <= iput THEN iget <= k /\ k < iput
                                         ELSE iget <= k \/ k < iput}

MainPlaces == {"accept", "lock", "put", "signal", "quit"}
ThreadPlaces == {"lock", "test", "wait", "serve"}

QueueTyped ==
  /\ arrived \in 0 .. NCONN /\ pending \subseteq 1 .. arrived /\ done \subseteq 1 .. arrived
  /\ mpc \in MainPlaces /\ connfd \in 0 .. arrived
  /\ clifd \in [Slots -> 0 .. arrived] /\ iput \in Slots /\ iget \in Slots
  /\ tpc \in [Threads -> ThreadPlaces] /\ tconn \in [Threads -> 0 .. arrived]

\* The main thread has a descriptor in hand from accept() until it is in the
\* ring, a thread while it serves.
InHand ==
  /\ mpc \in {"accept", "signal"} => connfd = 0
  /\ mpc \in {"lock", "put"} => connfd # 0
  /\ \A t \in Threads : tconn[t] # 0 <=> tpc[t] = "serve"

\* A connection is never in two places.
RingApart ==
  /\ \A j, k \in Filled : clifd[j] = clifd[k] => j = k
  /\ \A k \in Filled : /\ clifd[k] # 0 /\ clifd[k] # connfd
                       /\ clifd[k] \notin pending \cup done
                       /\ \A t \in Threads : tconn[t] # clifd[k]
HandsApart ==
  /\ pending \cap done = {} /\ connfd \notin pending \cup done
  /\ \A t \in Threads : /\ tconn[t] \notin pending \cup done
                        /\ tconn[t] # 0 => tconn[t] # connfd
  /\ \A s, t \in Threads : tconn[s] = tconn[t] /\ s # t => tconn[s] = 0

\* As long as the process lives, it is in one.
Somewhere(c) == \/ c \in pending \cup done \/ c = connfd
                \/ \E k \in Filled : clifd[k] = c
                \/ \E t \in Threads : tconn[t] = c
AllSomewhere == mpc # "quit" => \A c \in 1 .. arrived : Somewhere(c)

QueueInv == QueueTyped /\ InHand /\ RingApart /\ HandsApart /\ AllSomewhere

\* Putting fills the slot at iput, unless the ring was as good as full, and
\* taking empties the slot at iget.
LEMMA RingMoves ==
  ASSUME iput \in Slots, iget \in Slots
  PROVE  /\ After(iput) \in Slots /\ After(iget) \in Slots
         /\ Filled \subseteq Slots /\ iput \notin Filled
         /\ iput' = After(iput) /\ iget' = iget /\ iput' # iget => Filled' = Filled \cup {iput}
         /\ iput' = iget /\ iget' = iget => Filled' = {}
         /\ iget # iput => iget \in Filled
         /\ iget # iput /\ iget' = After(iget) /\ iput' = iput => Filled' = Filled \ {iget}
         /\ iput' = iput /\ iget' = iget => Filled' = Filled
<1> USE QueueAssumption DEF Slots, After
<1>1. /\ After(iput) \in Slots /\ After(iget) \in Slots
      /\ Filled \subseteq Slots /\ iput \notin Filled
  BY DEF Filled
<1>2. ASSUME iput' = After(iput), iget' = iget, iput' # iget PROVE Filled' = Filled \cup {iput}
  BY <1>2 DEF Filled
<1>3. ASSUME iput' = iget, iget' = iget PROVE Filled' = {}
  BY <1>3 DEF Filled
<1>4. ASSUME iget # iput PROVE iget \in Filled
  BY <1>4 DEF Filled
<1>5. ASSUME iget # iput, iget' = After(iget), iput' = iput PROVE Filled' = Filled \ {iget}
  BY <1>5 DEF Filled
<1>6. ASSUME iput' = iput, iget' = iget PROVE Filled' = Filled
  BY <1>6 DEF Filled
<1> QED BY <1>1, <1>2, <1>3, <1>4, <1>5, <1>6

\* serv08 begins with nothing in the ring.
LEMMA QueueInit == Init /\ arrived = 0 => QueueInv
<1> SUFFICES ASSUME Init PROVE QueueInv
  OBVIOUS
<1> USE QueueAssumption DEF Init
<1>1. Filled = {}
  BY DEF Filled, Slots
<1>2. QueueTyped
  BY DEF QueueTyped, MainPlaces, ThreadPlaces, Slots
<1>3. InHand /\ RingApart /\ HandsApart /\ AllSomewhere
  BY <1>1 DEF InHand, RingApart, HandsApart, AllSomewhere, Slots
<1> QED BY <1>2, <1>3 DEF QueueInv

\* Every step of the clients, the main thread and the pool keeps it.
LEMMA QueueNext ==
  ASSUME QueueInv, Next
  PROVE  QueueInv'
<1> USE QueueAssumption DEF QueueInv
<1>0. iput \in Slots /\ iget \in Slots
  BY DEF QueueTyped
<1>1. CASE Arrive
  <2> USE <1>1 DEF Arrive, queueVars, ring
  <2>1. Filled' = Filled
    BY <1>0, RingMoves
  <2>2. QueueTyped'
    BY DEF QueueTyped
  <2>3. InHand'
    BY DEF InHand
  <2>4. RingApart'
    BY <2>1, RingMoves, <1>0 DEF RingApart, QueueTyped
  <2>5. HandsApart'
    BY DEF HandsApart, QueueTyped
  <2>6. AllSomewhere'
    BY <2>1 DEF AllSomewhere, Somewhere, QueueTyped
  <2> QED BY <2>2, <2>3, <2>4, <2>5, <2>6
<1>2. ASSUME NEW c \in pending, Abort(c) PROVE QueueInv'
  <2> USE <1>2 DEF Abort, queueVars, ring
  <2>1. Filled' = Filled
    BY <1>0, RingMoves
  <2>2. QueueTyped'
    BY DEF QueueTyped
  <2>3. InHand'
    BY DEF InHand
  <2>4. RingApart'
    BY <2>1 DEF RingApart
  <2>5. HandsApart'
    BY DEF HandsApart, QueueTyped
  <2>6. AllSomewhere'
    BY <2>1 DEF AllSomewhere, Somewhere, QueueTyped
  <2> QED BY <2>2, <2>3, <2>4, <2>5, <2>6
<1>3. CASE Accept
  <2> USE <1>3 DEF Accept, ring
  <2>1. Filled' = Filled
    BY <1>0, RingMoves
  <2>0. PICK c \in pending : connfd' = c /\ pending' = pending \ {c}
    <3>1. pending \subseteq Nat /\ pending # {}
      BY DEF QueueTyped
    <3>2. Min(pending) \in pending
      BY <3>1, MinIn
    <3> QED BY <3>2
  <2>c. c \in 1 .. arrived /\ c # 0 /\ connfd = 0
    BY DEF QueueTyped, InHand
  <2>2. QueueTyped'
    BY <2>0, <2>c DEF QueueTyped, MainPlaces
  <2>3. InHand'
    BY <2>0, <2>c DEF InHand
  <2>4. RingApart'
    BY <2>0, <2>1, <2>c DEF RingApart
  <2>5. HandsApart'
    BY <2>0, <2>c DEF HandsApart
  <2>6. AllSomewhere'
    BY <2>0, <2>1, <2>c DEF AllSomewhere, Somewhere
  <2> QED BY <2>2, <2>3, <2>4, <2>5, <2>6
<1>4. CASE MainLock
  <2> USE <1>4 DEF MainLock, clients, ring
  <2>1. Filled' = Filled
    BY <1>0, RingMoves
  <2>2. QueueTyped'
    BY DEF QueueTyped, MainPlaces
  <2>3. InHand' /\ HandsApart'
    BY DEF InHand, HandsApart
  <2>4. RingApart'
    BY <2>1 DEF RingApart
  <2>6. AllSomewhere'
    BY <2>1 DEF AllSomewhere, Somewhere
  <2> QED BY <2>2, <2>3, <2>4, <2>6
<1>5. CASE Put
  <2> USE <1>5 DEF Put, clients
  <2>0. /\ connfd \in 1 .. arrived /\ connfd # 0 /\ connfd' = 0
        /\ \A k \in Slots : clifd'[k] = IF k = iput THEN connfd ELSE clifd[k]
    BY DEF QueueTyped, InHand
  <2>1. iput \notin Filled /\ Filled \subseteq Slots
    BY <1>0, RingMoves
  <2>f. Filled' = {} \/ Filled' = Filled \cup {iput}
    BY <1>0, RingMoves
  <2>g. mpc' # "quit" => Filled' = Filled \cup {iput}
    BY <1>0, RingMoves
  <2>2. QueueTyped'
    BY <1>0, <2>0, RingMoves DEF QueueTyped, MainPlaces
  <2>3. InHand'
    BY <2>0 DEF InHand
  <2>4. RingApart'
    BY <1>0, <2>0, <2>1, <2>f DEF RingApart, HandsApart
  <2>5. HandsApart'
    BY <2>0 DEF HandsApart, QueueTyped
  <2>6. AllSomewhere'
    <3> SUFFICES ASSUME mpc' # "quit", NEW c \in 1 .. arrived PROVE Somewhere(c)'
      BY DEF AllSomewhere
    <3>1. Somewhere(c)
      BY DEF AllSomewhere
    <3> QED BY <1>0, <2>0, <2>1, <2>g, <3>1 DEF Somewhere
  <2> QED BY <2>2, <2>3, <2>4, <2>5, <2>6
<1>6. CASE Signal
  <2> USE <1>6 DEF Signal, clients, ring
  <2>1. Filled' = Filled
    BY <1>0, RingMoves
  <2>0. /\ tpc' \in [Threads -> ThreadPlaces]
        /\ \A t \in Threads : tpc'[t] = "serve" <=> tpc[t] = "serve"
    <3>1. CASE Waiting = {}
      BY <3>1 DEF QueueTyped
    <3>2. CASE Waiting # {}
      BY <3>2 DEF Waiting, QueueTyped, ThreadPlaces
    <3> QED BY <3>1, <3>2
  <2>2. QueueTyped'
    BY <2>0 DEF QueueTyped, MainPlaces
  <2>3. InHand' /\ HandsApart'
    BY <2>0 DEF InHand, HandsApart
  <2>4. RingApart'
    BY <2>1 DEF RingApart
  <2>6. AllSomewhere'
    BY <2>1 DEF AllSomewhere, Somewhere
  <2> QED BY <2>2, <2>3, <2>4, <2>6
<1>7. ASSUME NEW t \in Threads, Lock(t) \/ Wait(t) \/ Spurious(t) \/ Die(t) PROVE QueueInv'
  <2> USE <1>7 DEF Lock, Wait, Spurious, Die, clients, ring
  <2>1. Filled' = Filled
    BY <1>0, RingMoves
  <2>0. /\ tpc' \in [Threads -> ThreadPlaces]
        /\ \A u \in Threads : tpc'[u] = "serve" <=> tpc[u] = "serve"
    BY DEF QueueTyped, ThreadPlaces
  <2>2. QueueTyped'
    BY <2>0 DEF QueueTyped, MainPlaces
  <2>3. HandsApart'
    BY DEF HandsApart
  <2>4. RingApart'
    BY <2>1 DEF RingApart
  <2>5. InHand'
    BY <2>0 DEF InHand
  <2>6. AllSomewhere'
    BY <2>1 DEF AllSomewhere, Somewhere
  <2> QED BY <2>2, <2>3, <2>4, <2>5, <2>6
<1>8. ASSUME NEW t \in Threads, Take(t) PROVE QueueInv'
  <2> USE <1>8 DEF Take, clients
  <2>1. iget \in Filled /\ Filled \subseteq Slots /\ Filled' = Filled \ {iget}
    BY <1>0, RingMoves
  <2>0. /\ \A u \in Threads : tconn'[u] = IF u = t THEN clifd[iget] ELSE tconn[u]
        /\ \A u \in Threads : tpc'[u] = IF u = t THEN "serve" ELSE tpc[u]
        /\ tconn[t] = 0
    BY DEF QueueTyped, InHand
  <2>2. QueueTyped'
    BY <1>0, RingMoves DEF QueueTyped, ThreadPlaces
  <2>3. HandsApart'
    BY <2>0, <2>1 DEF HandsApart, RingApart
  <2>4. RingApart'
    BY <2>0, <2>1 DEF RingApart
  <2>5. InHand'
    BY <2>0, <2>1 DEF InHand, RingApart
  <2>6. AllSomewhere'
    <3> SUFFICES ASSUME mpc' # "quit", NEW c \in 1 .. arrived PROVE Somewhere(c)'
      BY DEF AllSomewhere
    <3>1. Somewhere(c) /\ c # 0
      BY DEF AllSomewhere, QueueTyped
    <3> QED BY <2>0, <2>1, <3>1 DEF Somewhere
  <2> QED BY <2>2, <2>3, <2>4, <2>5, <2>6
<1>9. ASSUME NEW t \in Threads, Finish(t) PROVE QueueInv'
  <2> USE <1>9 DEF Finish, ring
  <2>1. Filled' = Filled
    BY <1>0, RingMoves
  <2>0. /\ \A u \in Threads : tconn'[u] = IF u = t THEN 0 ELSE tconn[u]
        /\ \A u \in Threads : tpc'[u] = IF u = t THEN "lock" ELSE tpc[u]
        /\ tconn[t] # 0 /\ tconn[t] \in 1 .. arrived /\ 0 \notin pending /\ 0 \notin done
    BY DEF QueueTyped, InHand
  <2>2. QueueTyped'
    <3>1. done' \subseteq 1 .. arrived
      BY <2>0 DEF QueueTyped
    <3>2. tconn' \in [Threads -> 0 .. arrived] /\ tpc' \in [Threads -> ThreadPlaces]
      BY DEF QueueTyped, ThreadPlaces
    <3> QED BY <3>1, <3>2 DEF QueueTyped
  <2>3. HandsApart'
    BY <2>0 DEF HandsApart
  <2>4. RingApart'
    BY <2>0, <2>1 DEF RingApart
  <2>5. InHand'
    BY <2>0 DEF InHand
  <2>6. AllSomewhere'
    <3> SUFFICES ASSUME mpc' # "quit", NEW c \in 1 .. arrived PROVE Somewhere(c)'
      BY DEF AllSomewhere
    <3>1. Somewhere(c) /\ c # 0
      BY DEF AllSomewhere, QueueTyped
    <3> QED BY <2>0, <2>1, <3>1 DEF Somewhere
  <2> QED BY <2>2, <2>3, <2>4, <2>5, <2>6
<1> QED BY <1>1, <1>2, <1>3, <1>4, <1>5, <1>6, <1>7, <1>8, <1>9 DEF Next

\* Held, the descriptors from iget up to iput, is what the filled slots hold.
LEMMA HeldIsFilled ==
  ASSUME QueueTyped, RingApart
  PROVE  LET n == (iput - iget) % MAXNCLI
         IN /\ n \in 0 .. MAXNCLI - 1
            /\ Held = {clifd[k] : k \in Filled}
            /\ IsFiniteSet(Held) /\ Cardinality(Held) = n
<1> DEFINE n == (iput - iget) % MAXNCLI
           at(k) == (iget + k) % MAXNCLI
<1> USE QueueAssumption
<1>0. iput \in 0 .. MAXNCLI - 1 /\ iget \in 0 .. MAXNCLI - 1
  BY DEF QueueTyped, Slots
<1>1. n = IF iget <= iput THEN iput - iget ELSE iput - iget + MAXNCLI
  BY <1>0
<1>2. \A k \in 0 .. MAXNCLI - 1 :
        at(k) = IF iget + k < MAXNCLI THEN iget + k ELSE iget + k - MAXNCLI
  BY <1>0
<1> HIDE DEF n, at
<1>3. n \in 0 .. MAXNCLI - 1
  BY <1>0, <1>1
<1>4. \A k \in 0 .. n - 1 : at(k) \in Filled
  BY <1>0, <1>1, <1>2 DEF Filled, Slots
<1>5. \A s \in Filled : \E k \in 0 .. n - 1 : at(k) = s
  <2> SUFFICES ASSUME NEW s \in Filled PROVE \E k \in 0 .. n - 1 : at(k) = s
    OBVIOUS
  <2> DEFINE k == IF iget <= s THEN s - iget ELSE s - iget + MAXNCLI
  <2>1. k \in 0 .. n - 1 /\ k \in 0 .. MAXNCLI - 1
    BY <1>0, <1>1 DEF Filled, Slots
  <2>2. at(k) = s
    BY <1>0, <1>2, <2>1 DEF Filled, Slots
  <2> QED BY <2>1, <2>2
<1>6. \A j, k \in 0 .. n - 1 : at(j) = at(k) => j = k
  BY <1>0, <1>1, <1>2
<1>7. Held = {clifd[at(k)] : k \in 0 .. n - 1}
  BY DEF Held, n, at
<1>8. Held = {clifd[k] : k \in Filled}
  BY <1>4, <1>5, <1>7
<1>9. ExistsBijection(1 .. n, Held)
  <2> DEFINE f == [j \in 1 .. n |-> clifd[at(j - 1)]]
  <2>0. \A j \in 1 .. n : j - 1 \in 0 .. n - 1
    BY <1>3
  <2>1. f \in [1 .. n -> Held]
    BY <1>7, <2>0
  <2>2. \A h, j \in 1 .. n : f[h] = f[j] => h = j
    <3> SUFFICES ASSUME NEW h \in 1 .. n, NEW j \in 1 .. n, f[h] = f[j] PROVE h = j
      OBVIOUS
    <3>1. h - 1 \in 0 .. n - 1 /\ j - 1 \in 0 .. n - 1
      BY <2>0
    <3>2. clifd[at(h - 1)] = clifd[at(j - 1)] /\ at(h - 1) \in Filled /\ at(j - 1) \in Filled
      BY <1>4, <3>1
    <3>3. at(h - 1) = at(j - 1)
      BY <3>2 DEF RingApart
    <3>4. h - 1 = j - 1
      BY <1>6, <3>1, <3>3
    <3> QED BY <3>4
  <2>3. \A x \in Held : \E j \in 1 .. n : f[j] = x
    <3> SUFFICES ASSUME NEW k \in 0 .. n - 1 PROVE \E j \in 1 .. n : f[j] = clifd[at(k)]
      BY <1>7
    <3>1. k + 1 \in 1 .. n /\ (k + 1) - 1 = k
      BY <1>3
    <3>2. f[k + 1] = clifd[at(k)]
      BY <3>1
    <3> QED BY <3>1, <3>2
  <2> HIDE DEF f
  <2>4. f \in Bijection(1 .. n, Held)
    BY <2>1, <2>2, <2>3 DEF Bijection, Injection, Surjection, IsInjective
  <2> QED BY <2>4 DEF ExistsBijection
<1>10. Cardinality(Held) = n
  BY <1>3, <1>9, FS_CountingElements
<1>11. IsFiniteSet(Held)
  BY <1>3, <1>9, FS_NatBijection
<1> QED BY <1>3, <1>8, <1>10, <1>11 DEF n

\* The invariant says that no connection is lost.
LEMMA QueueKeepsAll == QueueInv => NoneLost
<1> SUFFICES ASSUME QueueInv, mpc # "quit"
             PROVE  LET unclosed == (1 .. arrived) \ (pending \cup done)
                        inHand == {connfd} \ {0}
                        withThreads == {tconn[t] : t \in Threads} \ {0}
                    IN /\ unclosed = inHand \cup Held \cup withThreads
                       /\ Cardinality(unclosed) = Cardinality(inHand) + Cardinality(withThreads)
                                              + ((iput - iget) % MAXNCLI)
  BY DEF NoneLost
<1> DEFINE Open == (1 .. arrived) \ (pending \cup done)
           hand == {connfd} \ {0}
           threads == {tconn[t] : t \in Threads} \ {0}
<1> USE DEF QueueInv
<1>1. (iput - iget) % MAXNCLI \in Nat
  BY HeldIsFilled
<1>2. Held = {clifd[k] : k \in Filled}
  BY HeldIsFilled
<1>3. IsFiniteSet(Held) /\ Cardinality(Held) = (iput - iget) % MAXNCLI
  BY HeldIsFilled
<1>f. Filled \subseteq Slots
  BY DEF Filled
<1>4. ASSUME NEW c \in Open PROVE c \in hand \cup Held \cup threads
  <2>1. Somewhere(c) /\ c # 0 /\ c \notin pending \cup done
    BY DEF AllSomewhere, QueueTyped
  <2> QED BY <1>2, <2>1 DEF Somewhere
<1>5. ASSUME NEW c \in hand \cup Held \cup threads PROVE c \in Open
  <2>1. CASE c \in hand
    BY <2>1 DEF QueueTyped, HandsApart
  <2>2. CASE c \in threads
    BY <2>2 DEF QueueTyped, HandsApart
  <2>3. CASE c \in Held
    BY <1>2, <1>f, <2>3 DEF QueueTyped, RingApart
  <2> QED BY <2>1, <2>2, <2>3
<1>6. Open = hand \cup Held \cup threads
  BY <1>4, <1>5
<1>7. hand \cap Held = {} /\ (hand \cup Held) \cap threads = {}
  BY <1>2 DEF RingApart, HandsApart
<1>8. IsFiniteSet(Open)
  <2>1. IsFiniteSet(1 .. arrived)
    BY FS_Interval DEF QueueTyped
  <2> QED BY <2>1, FS_Difference
<1>9. IsFiniteSet(hand) /\ IsFiniteSet(threads)
  <2>1. hand \in SUBSET Open /\ threads \in SUBSET Open
    BY <1>6
  <2> HIDE DEF hand, threads, Open
  <2> QED BY <1>8, <2>1, FS_Subset
<1> HIDE DEF hand, threads, Open
<1>10. Cardinality(hand) \in Nat /\ Cardinality(threads) \in Nat
  BY <1>9, FS_CardinalityType
<1>11. IsFiniteSet(hand \cup Held) /\ Cardinality(hand \cup Held) = Cardinality(hand) + Cardinality(Held)
  BY <1>3, <1>7, <1>9, DisjointUnion
<1>12. Cardinality((hand \cup Held) \cup threads) = Cardinality(hand) + Cardinality(Held) + Cardinality(threads)
  BY <1>3, <1>7, <1>9, <1>11, DisjointUnion
<1>13. Cardinality(Open) = Cardinality(hand) + Cardinality(threads) + ((iput - iget) % MAXNCLI)
  BY <1>1, <1>3, <1>6, <1>10, <1>12
<1> QED BY <1>6, <1>13 DEF hand, threads, Open

\* One server runs, and stays the one that runs.
LEMMA OneRuns ==
  ASSUME [MCNext]_MCvars
  PROVE  /\ which' = which
         /\ \/ UNCHANGED MCvars
            \/ which = "serv05" /\ Serv05 /\ PassFd!Next
            \/ which = "serv08" /\ Serv08 /\ Next
            \/ which \in Locked!Servers /\ Others /\ Locked!Next
            \/ which = "fork" /\ Forks /\ Forking!Next
            \/ which = "select" /\ Selects /\ Looping!Next
<1>1. UNCHANGED MCvars => which' = which
  BY DEF MCvars
<1> QED BY <1>1 DEF MCNext, Serv05, Serv08, Others, Forks, Selects

\* The names of the servers are different.
LEMMA NamesApart == {"serv05", "serv08", "fork", "select"} \cap Locked!Servers = {}
BY DEF Locked!Servers

QueueRuns == which = "serv08" => QueueInv

\* QueueInv holds as long as serv08 runs.
LEMMA QueueAlways == MCSpec => []QueueRuns
<1>1. MCInit => QueueRuns
  BY QueueInit DEF MCInit, QueueRuns, Init
<1>2. QueueRuns /\ [MCNext]_MCvars => QueueRuns'
  <2> SUFFICES ASSUME QueueRuns, [MCNext]_MCvars, which = "serv08" PROVE QueueInv'
    BY OneRuns DEF QueueRuns
  <2>1. QueueInv
    BY DEF QueueRuns
  <2>2. CASE Next
    BY <2>1, <2>2, QueueNext
  <2>3. CASE UNCHANGED MCvars
    <3>1. UNCHANGED <<clients, queueVars>>
      BY <2>3 DEF MCvars, vars
    <3>2. UNCHANGED <<arrived, pending, done, mpc, connfd, clifd, iput, iget, tpc, tconn>>
      BY <3>1 DEF clients, queueVars, ring
    <3>3. Filled' = Filled
      BY <3>2 DEF Filled
    <3> QED BY <2>1, <3>2, <3>3
            DEF QueueInv, QueueTyped, InHand, RingApart, HandsApart, AllSomewhere, Somewhere
  <2> QED BY <2>2, <2>3, OneRuns, NamesApart
<1> QED BY <1>1, <1>2, PTL DEF MCSpec

(***************************************************************************)
(* serv08 loses no descriptor, whatever the size of clifd[], the number of *)
(* threads and the order in which they move iput and iget (serv08.c:39-46, *)
(* pthread08.c:21-27): while the process lives, each connection accepted   *)
(* and not closed is in one place.                                         *)
(***************************************************************************)
THEOREM NoDescriptorLost == MCSpec => []RingKeepsAll
<1>1. QueueRuns => RingKeepsAll
  BY QueueKeepsAll DEF QueueRuns, RingKeepsAll
<1> QED BY <1>1, QueueAlways, PTL

-----------------------------------------------------------------------------
(* serv02, serv03, serv04, serv07 and serv09: every worker accepts.  What  *)
(* ServLockProofs says of ServLock is said here of the server that runs.   *)

LockProofs == INSTANCE ServLockProofs WITH server <- which

\* Both instances of ServLock have the same steps.
LEMMA SameLockNext == ASSUME Locked!Next PROVE LockProofs!Next
<1> USE DEF Locked!clients, LockProofs!clients, Locked!lockVars, LockProofs!lockVars,
            Locked!Unlocked, LockProofs!Unlocked, Locked!Free, LockProofs!Free,
            Locked!Top, LockProofs!Top, Locked!Threaded, LockProofs!Threaded
<1>0. Locked!Workers = LockProofs!Workers
  BY DEF Locked!Workers, LockProofs!Workers
<1>1. CASE Locked!Arrive
  BY <1>1 DEF LockProofs!Next, Locked!Arrive, LockProofs!Arrive
<1>2. ASSUME NEW c \in pending, Locked!Abort(c) PROVE LockProofs!Next
  BY <1>2 DEF LockProofs!Next, Locked!Abort, LockProofs!Abort
<1>3. ASSUME NEW w \in Locked!Workers, Locked!WorkerStep(w) \/ Locked!Die(w) \/ Locked!Kill(w)
      PROVE  LockProofs!Next
  <2>1. Locked!Wait(w) => LockProofs!Wait(w)
    BY DEF Locked!Wait, LockProofs!Wait
  <2>2. Locked!Accept(w) => LockProofs!Accept(w)
    BY DEF Locked!Accept, LockProofs!Accept, Locked!Min, LockProofs!Min
  <2>3. Locked!Release(w) => LockProofs!Release(w)
    BY DEF Locked!Release, LockProofs!Release
  <2>4. Locked!Finish(w) => LockProofs!Finish(w)
    BY DEF Locked!Finish, LockProofs!Finish
  <2>5. Locked!Die(w) => LockProofs!Die(w)
    BY DEF Locked!Die, LockProofs!Die, Locked!Workers, LockProofs!Workers
  <2>6. Locked!Kill(w) => LockProofs!Kill(w)
    BY DEF Locked!Kill, LockProofs!Kill, Locked!Holder, LockProofs!Holder
  <2> QED BY <1>0, <1>3, <2>1, <2>2, <2>3, <2>4, <2>5, <2>6, Zenon
          DEF Locked!WorkerStep, LockProofs!WorkerStep, LockProofs!Next
<1> QED BY <1>1, <1>2, <1>3, Zenon DEF Locked!Next

LockRuns == which \in Locked!Servers => LockProofs!IInv

\* The invariant of ServLockProofs holds as long as one of the five runs.
LEMMA LockAlways == MCSpec => []LockRuns
<1>1. MCInit => LockRuns
  <2> SUFFICES ASSUME MCInit, which \in Locked!Servers PROVE LockProofs!IInv
    BY DEF LockRuns
  <2>1. LockProofs!Init
    BY DEF MCInit, Locked!Servers, LockProofs!Servers, Locked!Begin, LockProofs!Begin,
           LockProofs!Init, Locked!Workers, LockProofs!Workers, Locked!Free, LockProofs!Free,
           Locked!Top, LockProofs!Top, Locked!Unlocked, LockProofs!Unlocked
  <2> QED BY <2>1, LockProofs!InitIInv
<1>2. LockRuns /\ [MCNext]_MCvars => LockRuns'
  <2> SUFFICES ASSUME LockRuns, [MCNext]_MCvars, which \in Locked!Servers PROVE LockProofs!IInv'
    BY OneRuns DEF LockRuns, Locked!Servers
  <2>1. LockProofs!IInv
    BY DEF LockRuns
  <2>2. CASE Locked!Next
    BY <2>1, <2>2, SameLockNext, LockProofs!NextIInv
  <2>3. CASE UNCHANGED MCvars
    <3>1. UNCHANGED LockProofs!vars
      BY <2>3 DEF MCvars, vars, clients, acceptVars,
                  LockProofs!vars, LockProofs!clients, LockProofs!lockVars
    <3> QED BY <2>1, <3>1, LockProofs!NextIInv
  <2> QED BY <2>2, <2>3, OneRuns, NamesApart
<1> QED BY <1>1, <1>2, PTL DEF MCSpec

(***************************************************************************)
(* The lock around accept() is with the worker that accepts, however many  *)
(* workers there are and wherever one of them is killed (child03.c:28-30,  *)
(* lock_fcntl.c:32-50, pthread07.c:26-28): nobody keeps it while serving.  *)
(***************************************************************************)
THEOREM LockWithAcceptor == MCSpec => []LockRight
<1>1. LockRuns => LockRight
  BY DEF LockRuns, LockRight, LockProofs!IInv, LockProofs!LockRight, Locked!LockRight,
         LockProofs!Workers, Locked!Workers, LockProofs!Free, Locked!Free,
         LockProofs!Unlocked, Locked!Unlocked
<1> QED BY <1>1, LockAlways, PTL

-----------------------------------------------------------------------------
(* serv05: the parent's table of its children.                             *)

Children == PassFd!Children
ChildPlaces == {"read", "serve", "ready", "dead"}

PassTyped ==
  /\ arrived \in 0 .. NCONN /\ pending \subseteq 1 .. arrived /\ done \subseteq 1 .. arrived
  /\ pc \in {"select", "accept", "scan", "quit"} /\ navail \in Int
  /\ child_status \in [Children -> {0, 1}] /\ passed \in [Children -> 0 .. arrived]
  /\ bytes \in [Children -> Nat] /\ cpc \in [Children -> ChildPlaces]
  /\ conn \in [Children -> 0 .. arrived]

\* A connection is never in two places: in the queue of the listening socket,
\* in the pipe to one child, with one child, or closed.
PassApart ==
  /\ pending \cap done = {}
  /\ \A w \in Children : passed[w] \notin pending \cup done /\ conn[w] \notin pending \cup done
  /\ \A v, w \in Children : /\ passed[v] = passed[w] /\ v # w => passed[v] = 0
                            /\ conn[v] = conn[w] /\ v # w => conn[v] = 0
                            /\ passed[v] = conn[w] => passed[v] = 0
  /\ \A w \in Children : conn[w] # 0 <=> cpc[w] = "serve"

\* The rounds a child makes, as the parent's table has them: free; given a
\* descriptor; serving; done; its byte in the pipe.
Round(w) ==
  \/ child_status[w] = 0 /\ cpc[w] = "read" /\ passed[w] = 0 /\ bytes[w] = 0
  \/ child_status[w] = 1 /\ cpc[w] = "read" /\ passed[w] # 0 /\ bytes[w] = 0
  \/ child_status[w] = 1 /\ cpc[w] \in {"serve", "ready"} /\ passed[w] = 0 /\ bytes[w] = 0
  \/ child_status[w] = 1 /\ cpc[w] = "read" /\ passed[w] = 0 /\ bytes[w] = 1

FreeOnes == {w \in Children : child_status[w] = 0}

\* While nobody has died, every child is in its round, the parent has counted
\* the free ones, has one for the connection it is about to accept, and a pipe
\* that select() reported has its byte still.
RoundsRight ==
  PassFd!NobodyDied =>
    /\ pc # "quit" /\ \A w \in Children : Round(w)
    /\ navail = Cardinality(FreeOnes)
    /\ pc = "accept" => navail > 0
    /\ pc \in {"accept", "scan"} => \A w \in Children \cap rset : bytes[w] > 0

PassInv == PassTyped /\ PassApart /\ RoundsRight

\* There are finitely many children.
LEMMA ChildrenFinite ==
  /\ Children \subseteq Nat /\ IsFiniteSet(Children)
  /\ \A S \in SUBSET Children : IsFiniteSet(S) /\ Cardinality(S) \in Nat
<1>1. Children = 0 .. NCHILD - 1 /\ NCHILD \in Nat
  BY ServersAssumption DEF Children, PassFd!Children
<1>2. IsFiniteSet(Children)
  BY <1>1, FS_Interval
<1>3. ASSUME NEW S \in SUBSET Children PROVE IsFiniteSet(S) /\ Cardinality(S) \in Nat
  BY <1>2, FS_Subset, FS_CardinalityType
<1>4. Children \subseteq Nat
  BY <1>1
<1> QED BY <1>2, <1>3, <1>4

\* serv05 begins with all children free.
LEMMA PassInit == PassFd!Init => PassInv
<1> SUFFICES ASSUME PassFd!Init PROVE PassInv
  OBVIOUS
<1> USE DEF PassFd!Init, Children
<1>1. PassTyped
  BY QueueAssumption, ServersAssumption DEF PassTyped, ChildPlaces
<1>2. PassApart
  BY DEF PassApart
<1>3. FreeOnes = Children
  BY DEF FreeOnes
<1>4. Cardinality(Children) = NCHILD
  BY FS_Interval, ServersAssumption DEF PassFd!Children
<1>5. RoundsRight
  BY <1>3, <1>4 DEF RoundsRight, Round
<1> QED BY <1>1, <1>2, <1>5 DEF PassInv

\* What PassInv says does not depend on anything else.
LEMMA PassKept ==
  ASSUME PassInv,
         UNCHANGED <<arrived, pending, done, pc, rset, navail, child_status, passed, bytes, cpc, conn>>
  PROVE  PassInv'
BY DEF PassInv, PassTyped, PassApart, RoundsRight, Round, FreeOnes, PassFd!NobodyDied, Children

\* The steps of the clients and of select(): nothing in the table moves.
LEMMA PassClients ==
  ASSUME PassInv,
         PassFd!Arrive \/ (\E c \in pending : PassFd!Abort(c)) \/ PassFd!Select
  PROVE  PassInv'
<1> USE DEF PassInv, Children
<1>1. CASE PassFd!Arrive
  <2> USE <1>1 DEF PassFd!Arrive, PassFd!passVars, PassFd!parent
  <2>1. PassTyped'
    BY QueueAssumption DEF PassTyped
  <2>2. PassApart'
    BY DEF PassApart, PassTyped
  <2>3. RoundsRight'
    BY DEF RoundsRight, Round, FreeOnes, PassFd!NobodyDied
  <2> QED BY <2>1, <2>2, <2>3
<1>2. ASSUME NEW c \in pending, PassFd!Abort(c) PROVE PassInv'
  <2> USE <1>2 DEF PassFd!Abort, PassFd!passVars, PassFd!parent
  <2>1. PassTyped'
    BY DEF PassTyped
  <2>2. PassApart'
    BY DEF PassApart
  <2>3. RoundsRight'
    BY DEF RoundsRight, Round, FreeOnes, PassFd!NobodyDied
  <2> QED BY <2>1, <2>2, <2>3
<1>3. CASE PassFd!Select
  <2> USE <1>3 DEF PassFd!Select, PassFd!clients
  <2>1. PassTyped'
    BY DEF PassTyped
  <2>2. PassApart'
    BY DEF PassApart
  <2>3. RoundsRight'
    <3> SUFFICES ASSUME PassFd!NobodyDied PROVE RoundsRight'
      BY DEF RoundsRight, PassFd!NobodyDied
    <3>1. /\ pc' # "quit" /\ \A w \in Children : Round(w)'
          /\ navail' = Cardinality(FreeOnes')
      BY DEF RoundsRight, Round, FreeOnes
    <3>2. pc' = "accept" => navail' > 0
      BY ServersAssumption DEF PassFd!Listen, PassFd!Children
    <3>3. \A w \in Children \cap rset' : bytes'[w] > 0
      BY ServersAssumption DEF PassFd!NobodyDied, PassFd!Listen, PassFd!Children
    <3> QED BY <3>1, <3>2, <3>3 DEF RoundsRight
  <2> QED BY <2>1, <2>2, <2>3
<1> QED BY <1>1, <1>2, <1>3

\* Accepting: the first child marked free gets the descriptor.
LEMMA PassAccept == ASSUME PassInv, PassFd!Accept PROVE PassInv'
<1> USE DEF PassInv, Children
<1> DEFINE c == PassFd!Min(pending)
           w == PassFd!Min(FreeOnes)
<1>1. /\ pc = "accept" /\ pending # {} /\ pending' = pending \ {c}
      /\ UNCHANGED <<arrived, done, rset, bytes, cpc, conn>>
      /\ IF FreeOnes = {}
         THEN pc' = "quit" /\ UNCHANGED <<nsel, navail, child_status, passed>>
         ELSE /\ child_status' = [child_status EXCEPT ![w] = 1]
              /\ navail' = navail - 1
              /\ passed' = [passed EXCEPT ![w] = c]
              /\ pc' = IF cpc[w] = "dead" THEN "quit"
                       ELSE IF nsel = 1 THEN "select" ELSE "scan"
  BY DEF PassFd!Accept, FreeOnes
<1>2. c \in pending
  <2>1. pending \subseteq Nat
    BY DEF PassTyped
  <2>2. Min(pending) \in pending
    BY <1>1, <2>1, MinIn
  <2> QED BY <2>2 DEF PassFd!Min, Min
<1>3. ASSUME FreeOnes # {} PROVE w \in FreeOnes
  <2>1. FreeOnes \subseteq Nat
    BY ChildrenFinite DEF FreeOnes
  <2>2. Min(FreeOnes) \in FreeOnes
    BY <1>3, <2>1, MinIn
  <2> QED BY <2>2 DEF PassFd!Min, Min
<1> HIDE DEF c, w
<1>4. CASE FreeOnes = {}
  <2>1. PassTyped'
    BY <1>1, <1>4 DEF PassTyped
  <2>2. PassApart'
    BY <1>1, <1>4 DEF PassApart
  <2>3. ~PassFd!NobodyDied
    <3>1. Cardinality(FreeOnes) = 0
      BY <1>4, FS_EmptySet
    <3> QED BY <1>1, <3>1 DEF RoundsRight
  <2>4. RoundsRight'
    BY <1>1, <2>3 DEF RoundsRight, PassFd!NobodyDied
  <2> QED BY <2>1, <2>2, <2>4
<1>5. CASE FreeOnes # {}
  <2>0. w \in Children /\ child_status[w] = 0 /\ w \in FreeOnes
    BY <1>3, <1>5 DEF FreeOnes
  <2>c. c \in 1 .. arrived /\ c # 0
    BY <1>2 DEF PassTyped
  <2>1. PassTyped'
    BY <1>1, <1>5, <2>0, <2>c DEF PassTyped
  <2>p. \A v \in Children : passed'[v] = IF v = w THEN c ELSE passed[v]
    BY <1>1, <1>5, <2>0 DEF PassTyped
  <2>s. \A v \in Children : child_status'[v] = IF v = w THEN 1 ELSE child_status[v]
    BY <1>1, <1>5, <2>0 DEF PassTyped
  <2>2. PassApart'
    BY <1>1, <1>2, <2>0, <2>c, <2>p DEF PassApart
  <2>3. RoundsRight'
    <3> SUFFICES ASSUME PassFd!NobodyDied PROVE RoundsRight'
      BY <1>1 DEF RoundsRight, PassFd!NobodyDied
    <3>1. \A v \in Children : Round(v)
      BY DEF RoundsRight
    <3>2. \A v \in Children : Round(v)'
      BY <1>1, <2>0, <2>c, <2>p, <2>s, <3>1 DEF Round
    <3>3. FreeOnes' = FreeOnes \ {w}
      BY <2>0, <2>s DEF FreeOnes
    <3>4. Cardinality(FreeOnes') = Cardinality(FreeOnes) - 1
      <4>1. IsFiniteSet(FreeOnes)
        BY ChildrenFinite DEF FreeOnes
      <4> QED BY <2>0, <3>3, <4>1, FS_RemoveElement
    <3>5. pc' \in {"select", "scan"}
      BY <1>1, <1>5, <2>0 DEF PassFd!NobodyDied
    <3> QED BY <1>1, <1>5, <3>2, <3>4, <3>5 DEF RoundsRight
  <2> QED BY <2>1, <2>2, <2>3
<1> QED BY <1>4, <1>5

\* Reading the pipes: each byte is of a child that was marked busy.
LEMMA PassScan == ASSUME PassInv, PassFd!Scan PROVE PassInv'
<1> USE DEF PassInv, Children
<1> DEFINE Rd == PassFd!ReadPipes
<1>1. /\ pc = "scan" /\ UNCHANGED <<arrived, pending, done, rset, nsel, passed, cpc, conn>>
      /\ IF \E w \in Rd : bytes[w] = 0
         THEN pc' = "quit" /\ UNCHANGED <<navail, child_status, bytes>>
         ELSE /\ child_status' = [w \in Children |-> IF w \in Rd THEN 0 ELSE child_status[w]]
              /\ navail' = navail + Cardinality(Rd)
              /\ bytes' = [w \in Children |-> IF w \in Rd THEN bytes[w] - 1 ELSE bytes[w]]
              /\ pc' = "select"
  <2>1. pc = "scan" /\ UNCHANGED <<arrived, pending, done, rset, nsel, passed, cpc, conn>>
    BY DEF PassFd!Scan, PassFd!clients
  <2>2. CASE \E w \in PassFd!ReadPipes : bytes[w] = 0
    BY <2>1, <2>2, Zenon DEF PassFd!Scan
  <2>3. CASE ~ \E w \in PassFd!ReadPipes : bytes[w] = 0
    <3>1. PassFd!Cardinality(PassFd!ReadPipes) = Cardinality(PassFd!ReadPipes)
      BY SameCardinality
    <3> QED BY <2>1, <2>3, <3>1, Zenon DEF PassFd!Scan
  <2> QED BY <2>2, <2>3
<1>2. Rd \subseteq Children /\ Rd \subseteq rset
  BY DEF PassFd!ReadPipes
<1>f. IsFiniteSet(Rd) /\ Cardinality(Rd) \in Nat
  BY <1>2, ChildrenFinite
<1> HIDE DEF Rd
<1>3. CASE \E w \in Rd : bytes[w] = 0
  <2>1. PassTyped' /\ PassApart'
    BY <1>1, <1>3 DEF PassTyped, PassApart
  <2>2. ~PassFd!NobodyDied
    <3> SUFFICES ASSUME PassFd!NobodyDied PROVE FALSE
      OBVIOUS
    <3>1. \A w \in Children \cap rset : bytes[w] > 0
      BY <1>1 DEF RoundsRight
    <3> QED BY <1>2, <1>3, <3>1
  <2>3. RoundsRight'
    BY <1>1, <2>2 DEF RoundsRight, PassFd!NobodyDied
  <2> QED BY <2>1, <2>3
<1>4. CASE \A w \in Rd : bytes[w] # 0
  <2>0. /\ \A v \in Children : /\ child_status'[v] = IF v \in Rd THEN 0 ELSE child_status[v]
                               /\ bytes'[v] = IF v \in Rd THEN bytes[v] - 1 ELSE bytes[v]
        /\ pc' = "select" /\ navail' = navail + Cardinality(Rd)
    BY <1>1, <1>4
  <2>1. PassTyped'
    BY <1>1, <1>2, <1>4, <1>f DEF PassTyped
  <2>2. PassApart'
    BY <1>1 DEF PassApart
  <2>3. RoundsRight'
    <3> SUFFICES ASSUME PassFd!NobodyDied PROVE RoundsRight'
      BY <1>1 DEF RoundsRight, PassFd!NobodyDied
    <3>1. \A v \in Children : Round(v)
      BY DEF RoundsRight
    <3>2. \A v \in Rd : bytes[v] = 1 /\ child_status[v] = 1 /\ cpc[v] = "read" /\ passed[v] = 0
      BY <1>2, <1>4, <3>1 DEF Round
    <3>3. \A v \in Children : Round(v)'
      BY <1>1, <1>2, <2>0, <3>1, <3>2 DEF Round
    <3>4. FreeOnes' = FreeOnes \cup Rd /\ FreeOnes \cap Rd = {}
      BY <1>2, <2>0, <3>2 DEF FreeOnes
    <3>5. Cardinality(FreeOnes') = Cardinality(FreeOnes) + Cardinality(Rd)
      <4>1. IsFiniteSet(FreeOnes)
        BY ChildrenFinite DEF FreeOnes
      <4> QED BY <1>f, <3>4, <4>1, DisjointUnion
    <3> QED BY <1>1, <2>0, <3>3, <3>5 DEF RoundsRight
  <2> QED BY <2>1, <2>2, <2>3
<1> QED BY <1>3, <1>4

\* The steps of a child.
LEMMA PassChild ==
  ASSUME PassInv, NEW w \in Children,
         PassFd!ReadFd(w) \/ PassFd!Finish(w) \/ PassFd!Ready(w) \/ PassFd!Die(w)
  PROVE  PassInv'
<1> USE DEF PassInv, Children
<1>0. FreeOnes' = FreeOnes /\ UNCHANGED <<pc, navail, rset, child_status, arrived, pending>>
  BY DEF FreeOnes, PassFd!ReadFd, PassFd!Finish, PassFd!Ready, PassFd!Die, PassFd!parent, PassFd!clients
<1>1. CASE PassFd!ReadFd(w)
  <2> USE <1>1 DEF PassFd!ReadFd, PassFd!clients, PassFd!parent
  <2>1. PassTyped'
    BY DEF PassTyped, ChildPlaces
  <2>2. \A v \in Children : /\ passed'[v] = IF v = w THEN 0 ELSE passed[v]
                            /\ conn'[v] = IF v = w THEN passed[w] ELSE conn[v]
                            /\ cpc'[v] = IF v = w THEN "serve" ELSE cpc[v]
    BY DEF PassTyped
  <2>3. 0 \notin pending \cup done
    BY DEF PassTyped
  <2>4. PassApart'
    BY <2>2, <2>3 DEF PassApart
  <2>5. RoundsRight'
    BY <1>0, <2>2 DEF RoundsRight, Round, PassFd!NobodyDied
  <2> QED BY <2>1, <2>4, <2>5
<1>2. CASE PassFd!Finish(w) \/ PassFd!Die(w)
  <2> USE <1>2 DEF PassFd!Finish, PassFd!Die, PassFd!parent
  <2>0. conn[w] # 0 /\ conn[w] \in 1 .. arrived
    BY DEF PassTyped, PassApart
  <2>1. PassTyped'
    <3>1. done' \subseteq 1 .. arrived
      BY <2>0 DEF PassTyped
    <3>2. bytes' \in [Children -> Nat]
      BY ServersAssumption DEF PassTyped
    <3>3. conn' \in [Children -> 0 .. arrived] /\ cpc' \in [Children -> ChildPlaces]
      BY DEF PassTyped, ChildPlaces
    <3> QED BY <3>1, <3>2, <3>3 DEF PassTyped
  <2>2. \A v \in Children : /\ conn'[v] = IF v = w THEN 0 ELSE conn[v]
                            /\ v # w => cpc'[v] = cpc[v] /\ bytes'[v] = bytes[v]
    BY DEF PassTyped
  <2>3. 0 \notin pending /\ 0 \notin done' /\ done' = done \cup {conn[w]} /\ cpc'[w] \in {"ready", "dead"}
    BY <2>0 DEF PassTyped
  <2>p. \A v \in Children : passed[v] # conn[w]
    BY <2>0 DEF PassApart
  <2>4. PassApart'
    <3>1. pending' \cap done' = {}
      BY <2>3 DEF PassApart
    <3>2. ASSUME NEW v \in Children
          PROVE  passed'[v] \notin pending' \cup done' /\ conn'[v] \notin pending' \cup done'
      BY <2>0, <2>2, <2>3, <2>p DEF PassApart
    <3>3. ASSUME NEW u \in Children, NEW v \in Children
          PROVE  /\ passed'[v] = passed'[u] /\ v # u => passed'[v] = 0
                 /\ conn'[v] = conn'[u] /\ v # u => conn'[v] = 0
                 /\ passed'[v] = conn'[u] => passed'[v] = 0
      BY <2>2 DEF PassApart
    <3>4. ASSUME NEW v \in Children PROVE conn'[v] # 0 <=> cpc'[v] = "serve"
      BY <2>2, <2>3 DEF PassApart
    <3> QED BY <3>1, <3>2, <3>3, <3>4 DEF PassApart
  <2>5. RoundsRight'
    <3>1. CASE PassFd!Die(w)
      BY <3>1 DEF RoundsRight, PassFd!NobodyDied, PassTyped
    <3>2. CASE PassFd!Finish(w)
      <4>1. \A v \in Children : bytes'[v] = bytes[v] /\ cpc'[v] = IF v = w THEN "ready" ELSE cpc[v]
        BY <3>2 DEF PassTyped
      <4> QED BY <1>0, <3>2, <4>1 DEF RoundsRight, Round, PassFd!NobodyDied
    <3> QED BY <3>1, <3>2
  <2> QED BY <2>1, <2>4, <2>5
<1>3. CASE PassFd!Ready(w)
  <2> USE <1>3 DEF PassFd!Ready, PassFd!clients, PassFd!parent
  <2>1. PassTyped'
    BY DEF PassTyped, ChildPlaces
  <2>2. \A v \in Children : /\ bytes'[v] = IF v = w THEN bytes[w] + 1 ELSE bytes[v]
                            /\ cpc'[v] = IF v = w THEN "read" ELSE cpc[v]
    BY DEF PassTyped
  <2>4. PassApart'
    BY <2>2 DEF PassApart
  <2>5. RoundsRight'
    BY <1>0, <2>2 DEF RoundsRight, Round, PassFd!NobodyDied
  <2> QED BY <2>1, <2>4, <2>5
<1> QED BY <1>1, <1>2, <1>3

PassRuns == which = "serv05" => PassInv

\* PassInv holds as long as serv05 runs.
LEMMA PassAlways == MCSpec => []PassRuns
<1>1. MCInit => PassRuns
  BY PassInit DEF MCInit, PassRuns
<1>2. PassRuns /\ [MCNext]_MCvars => PassRuns'
  <2> SUFFICES ASSUME PassRuns, [MCNext]_MCvars, which = "serv05" PROVE PassInv'
    BY OneRuns DEF PassRuns
  <2>1. PassInv
    BY DEF PassRuns
  <2>2. CASE PassFd!Next
    BY <2>1, <2>2, PassClients, PassAccept, PassScan, PassChild DEF PassFd!Next, Children
  <2>3. CASE UNCHANGED MCvars
    BY <2>1, <2>3, PassKept DEF MCvars, vars, clients, serv05Vars
  <2> QED BY <2>2, <2>3, OneRuns, NamesApart
<1> QED BY <1>1, <1>2, PTL DEF MCSpec

(***************************************************************************)
(* While no child of serv05 has died, the parent's table is right for any  *)
(* number of children, although it learns of everything late: navail is    *)
(* the number of children marked free, such a child has nothing to do, and *)
(* no connection is accepted with no child to give it to (serv05.c:42-81). *)
(***************************************************************************)
THEOREM TableStaysRight == MCSpec => []TableRight
<1>1. PassRuns => TableRight
  <2> SUFFICES ASSUME PassInv PROVE PassFd!TableRight
    BY DEF PassRuns, TableRight
  <2>1. PassFd!Cardinality(FreeOnes) = Cardinality(FreeOnes)
    BY SameCardinality
  <2> QED BY <2>1 DEF PassInv, RoundsRight, Round, FreeOnes, Children, PassFd!TableRight
<1> QED BY <1>1, PassAlways, PTL

-----------------------------------------------------------------------------
(* The servers with a process or a thread for each client.                 *)

Kids == 1 .. NFEW
Running == IF srv.per = "process" THEN "child" ELSE "parent"

ForkTyped ==
  /\ arrived \in 0 .. NFEW /\ pending \subseteq 1 .. arrived /\ done \subseteq 1 .. arrived
  /\ srv \in Forking!Programs
  /\ ppc \in {"select", "accept", "fork", "close", "serve", "udp", "ended"} /\ pfd \in 0 .. NFEW
  /\ kid \in [Kids -> {"none", "run", "zombie", "gone"}] /\ kfd \in [Kids -> 0 .. NFEW]
  /\ open \in [Kids -> SUBSET {"parent", "child"}]
  /\ chld \in BOOLEAN /\ hpc \in {"no", "in"}

\* What the servers with a handler say of their children that have ended.
SignalsRight ==
  /\ chld \/ hpc = "in" => srv.handler # "none"
  /\ Forking!ZombiesSeen
  /\ srv.handler = "wait" =>
       /\ chld \/ hpc = "in" => Forking!Zombies # {}
       /\ chld /\ hpc = "in" => \E j, k \in Forking!Zombies : j # k

\* A connection is open only between accept() and close(), and the child made
\* for it bears its number.
ForkApart ==
  /\ pending \cap done = {}
  /\ \A c \in Kids : c \in pending \cup done \/ c > arrived => open[c] = {}
  /\ \A k \in Kids : /\ kfd[k] = IF kid[k] = "none" THEN 0 ELSE k
                     /\ k \in pending \/ k > arrived => kid[k] = "none"
                     /\ kid[k] = "run" => Running \in open[k]
ParentRight ==
  /\ ppc \in {"fork", "close", "serve"} => pfd \in 1 .. arrived /\ "parent" \in open[pfd]
  /\ ppc = "fork" => kid[pfd] = "none" /\ open[pfd] = {"parent"}
  /\ ppc = "close" => kid[pfd] # "none" /\ srv.per = "process"
  /\ ppc = "serve" <=> srv.per = "self" /\ \E c \in Kids : open[c] # {}
  /\ srv.per = "self" => \A c \in Kids : kid[c] = "none" /\ (open[c] # {} => c = pfd)

ForkInv == ForkTyped /\ SignalsRight /\ ForkApart /\ ParentRight

\* Only a server that makes processes has a handler for their end.
LEMMA Features ==
  ASSUME srv \in Forking!Programs
  PROVE  /\ srv.per \in {"process", "thread", "self"}
         /\ srv.handler \in {"none", "wait", "waitpid"}
         /\ srv.select \in BOOLEAN /\ srv.again \in BOOLEAN
         /\ srv.handler # "none" => srv.per = "process"
         /\ srv.select => srv.per = "process"
<1> USE DEF Forking!Program
<1>1. CASE srv = Forking!tcpserv01
  BY <1>1 DEF Forking!tcpserv01
<1>2. CASE srv = Forking!tcpserv02
  BY <1>2 DEF Forking!tcpserv02
<1>3. CASE srv = Forking!tcpserv03
  BY <1>3 DEF Forking!tcpserv03
<1>4. CASE srv = Forking!tcpserv04
  BY <1>4 DEF Forking!tcpserv04
<1>5. CASE srv = Forking!serv00
  BY <1>5 DEF Forking!serv00
<1>6. CASE srv = Forking!serv06
  BY <1>6 DEF Forking!serv06
<1>7. CASE srv = Forking!udpservselect01
  BY <1>7 DEF Forking!udpservselect01
<1> QED BY <1>1, <1>2, <1>3, <1>4, <1>5, <1>6, <1>7 DEF Forking!Programs

\* A server begins with nobody to wait for.
LEMMA ForkInit ==
  ASSUME srv \in Forking!Programs, Forking!Begin
  PROVE  ForkInv
<1> USE DEF Forking!Begin, Kids, Forking!Kids
<1>1. ForkTyped
  <2>1. ppc \in {"select", "accept"} /\ pfd \in 0 .. NFEW /\ arrived \in 0 .. NFEW
    BY ServersAssumption DEF Forking!Top
  <2>2. pending \subseteq 1 .. arrived /\ done \subseteq 1 .. arrived
    OBVIOUS
  <2>3. /\ kid \in [Kids -> {"none", "run", "zombie", "gone"}] /\ kfd \in [Kids -> 0 .. NFEW]
        /\ open \in [Kids -> SUBSET {"parent", "child"}]
    BY ServersAssumption
  <2> QED BY <2>1, <2>2, <2>3 DEF ForkTyped
<1>2. SignalsRight
  BY DEF SignalsRight, Forking!ZombiesSeen, Forking!Zombies
<1>3. ForkApart
  BY DEF ForkApart
<1>4. ParentRight
  BY DEF ParentRight, Forking!Top
<1> QED BY <1>1, <1>2, <1>3, <1>4 DEF ForkInv

\* What each part says depends on these variables only.
LEMMA ForkKept ==
  ASSUME ForkInv, UNCHANGED srv
  PROVE  /\ UNCHANGED <<kid, chld, hpc, ppc>> => SignalsRight'
         /\ UNCHANGED <<arrived, pending, done, open, kid, kfd>> => ForkApart'
         /\ UNCHANGED <<arrived, open, kid, pfd, ppc>> => ParentRight'
<1>1. UNCHANGED kid => Forking!Zombies' = Forking!Zombies
  BY DEF Forking!Zombies
<1>2. UNCHANGED <<kid, chld, hpc, ppc>> => SignalsRight'
  BY <1>1 DEF ForkInv, SignalsRight, Forking!ZombiesSeen
<1>3. UNCHANGED <<arrived, pending, done, open, kid, kfd>> => ForkApart'
  BY DEF ForkInv, ForkApart, Running
<1>4. UNCHANGED <<arrived, open, kid, pfd, ppc>> => ParentRight'
  BY DEF ForkInv, ParentRight
<1> QED BY <1>2, <1>3, <1>4

\* The steps of the clients.
LEMMA ForkClients ==
  ASSUME ForkInv,
         Forking!Arrive \/ (\E c \in pending : Forking!Abort(c)) \/ Forking!Datagram
  PROVE  ForkInv'
<1> USE DEF ForkInv, Kids, Forking!Kids, Forking!forkVars, Forking!kidVars, Forking!sigVars, Forking!udpVars
<1>1. CASE Forking!Arrive
  <2> USE <1>1 DEF Forking!Arrive
  <2>1. ForkTyped'
    BY ServersAssumption DEF ForkTyped
  <2>2. SignalsRight'
    BY ForkKept
  <2>3. ForkApart'
    BY DEF ForkApart, ForkTyped, Running
  <2>4. ParentRight'
    BY DEF ParentRight, ForkTyped
  <2> QED BY <2>1, <2>2, <2>3, <2>4
<1>2. ASSUME NEW c \in pending, Forking!Abort(c) PROVE ForkInv'
  <2> USE <1>2 DEF Forking!Abort
  <2>1. ForkTyped'
    BY DEF ForkTyped
  <2>2. SignalsRight' /\ ParentRight'
    BY ForkKept
  <2>3. ForkApart'
    BY DEF ForkApart, ForkTyped, Running
  <2> QED BY <2>1, <2>2, <2>3
<1>3. CASE Forking!Datagram
  <2> USE <1>3 DEF Forking!Datagram, Forking!clients
  <2>1. ForkTyped'
    BY DEF ForkTyped
  <2>2. SignalsRight' /\ ForkApart' /\ ParentRight'
    BY ForkKept
  <2> QED BY <2>1, <2>2
<1> QED BY <1>1, <1>2, <1>3

\* The steps of the parent that open and close nothing.
LEMMA ForkWaits ==
  ASSUME ForkInv, Forking!Select \/ Forking!Udp \/ Forking!Deliver \/ Forking!Waitpid \/ Forking!Wait
  PROVE  ForkInv'
<1> USE DEF ForkInv, Kids, Forking!Kids, Forking!clients, Forking!kidVars, Forking!sigVars, Forking!udpVars
<1>f. /\ srv.per \in {"process", "thread", "self"}
      /\ srv.handler # "none" => srv.per = "process"
      /\ srv.select => srv.per = "process"
  BY Features DEF ForkTyped
<1>0. UNCHANGED <<srv, arrived, pending, done, open, kfd, pfd>>
  BY DEF Forking!Select, Forking!Udp, Forking!Deliver, Forking!Waitpid, Forking!Wait
<1>1. CASE Forking!Select \/ Forking!Udp
  <2> USE <1>1 DEF Forking!Select, Forking!Udp, Forking!Top
  <2>0. UNCHANGED kid /\ ppc' \in {"select", "accept", "udp"} /\ ppc \in {"select", "udp"}
    OBVIOUS
  <2>1. ForkTyped'
    BY <1>0, <2>0 DEF ForkTyped
  <2>2. SignalsRight'
    <3>1. Forking!Zombies' = Forking!Zombies
      BY <2>0 DEF Forking!Zombies
    <3> QED BY <1>0, <2>0, <3>1 DEF SignalsRight, Forking!ZombiesSeen
  <2>3. ForkApart'
    BY <1>0, <2>0, ForkKept
  <2>4. ParentRight'
    BY <1>0, <2>0 DEF ParentRight
  <2> QED BY <2>1, <2>2, <2>3, <2>4
<1>2. CASE Forking!Deliver
  <2> USE <1>2 DEF Forking!Deliver
  <2>1. ForkTyped'
    BY <1>0 DEF ForkTyped
  <2>2. SignalsRight'
    <3>1. Forking!Zombies' = Forking!Zombies
      BY DEF Forking!Zombies
    <3> QED BY <1>0, <3>1 DEF SignalsRight, Forking!ZombiesSeen
  <2>3. ForkApart' /\ ParentRight'
    BY <1>0, ForkKept
  <2> QED BY <2>1, <2>2, <2>3
<1>3. CASE Forking!Waitpid \/ Forking!Wait
  <2>p. srv.handler # "none" /\ srv.per = "process" /\ hpc = "in" /\ UNCHANGED chld
    BY <1>3, <1>f DEF SignalsRight, Forking!Waitpid, Forking!Wait
  <2>0. ppc' = ppc \/ (ppc = "accept" /\ ppc' = "ended")
    BY <1>3 DEF Forking!Waitpid, Forking!Wait, Forking!Return
  <2>z. \/ UNCHANGED kid
        \/ \E k \in Forking!Zombies : kid' = [kid EXCEPT ![k] = "gone"]
    BY <1>3 DEF Forking!Waitpid, Forking!Wait
  <2>k. /\ kid' \in [Kids -> {"none", "run", "zombie", "gone"}]
        /\ \A k \in Kids : /\ kid'[k] = "none" <=> kid[k] = "none"
                           /\ kid'[k] = "run" <=> kid[k] = "run"
    BY <2>z DEF ForkTyped, Forking!Zombies
  <2>1. ForkTyped'
    <3>1. hpc' \in {"no", "in"}
      BY <1>3 DEF Forking!Waitpid, Forking!Wait, Forking!Return
    <3> QED BY <1>0, <2>0, <2>k, <2>p, <3>1 DEF ForkTyped
  <2>3. ForkApart'
    BY <1>0, <2>k DEF ForkApart, Running
  <2>4. ParentRight'
    BY <1>0, <2>0, <2>k, <2>p DEF ParentRight, ForkTyped
  <2>2. SignalsRight'
    <3>1. CASE Forking!Waitpid /\ Forking!Zombies # {}
      BY <1>0, <2>p, <3>1 DEF Forking!Waitpid, SignalsRight, Forking!ZombiesSeen
    <3>2. CASE Forking!Waitpid /\ Forking!Zombies = {}
      <4>1. Forking!Zombies' = {} /\ srv'.handler = "waitpid" /\ hpc' = "no"
        BY <1>0, <3>2 DEF Forking!Waitpid, Forking!Zombies, Forking!Return
      <4> QED BY <1>0, <2>p, <4>1 DEF SignalsRight, Forking!ZombiesSeen
    <3>3. CASE Forking!Wait
      <4>1. PICK z \in Forking!Zombies : kid' = [kid EXCEPT ![z] = "gone"]
        BY <3>3 DEF Forking!Wait
      <4>2. Forking!Zombies' = Forking!Zombies \ {z}
        BY <4>1 DEF Forking!Zombies, ForkTyped
      <4>3. srv'.handler = "wait" /\ hpc' = "no"
        BY <1>0, <3>3 DEF Forking!Wait, Forking!Return
      <4>4. chld' => Forking!Zombies' # {}
        BY <2>p, <3>3, <4>2 DEF SignalsRight, Forking!Wait
      <4> QED BY <2>p, <4>3, <4>4 DEF SignalsRight, Forking!ZombiesSeen
    <3> QED BY <1>3, <3>1, <3>2, <3>3
  <2> QED BY <2>1, <2>2, <2>3, <2>4
<1> QED BY <1>1, <1>2, <1>3

\* accept(), fork() and close() in the parent.
LEMMA ForkAccept == ASSUME ForkInv, Forking!Accept PROVE ForkInv'
<1> USE DEF ForkInv, Kids, Forking!Kids, Forking!kidVars, Forking!sigVars, Forking!udpVars
<1> DEFINE c == Forking!Min(pending)
<1>1. /\ ppc = "accept" /\ pfd' = c /\ pending' = pending \ {c}
      /\ open' = [open EXCEPT ![c] = {"parent"}]
      /\ ppc' = IF srv.per = "self" THEN "serve" ELSE "fork"
      /\ UNCHANGED <<arrived, done, srv, kid, kfd, chld, hpc>>
  BY DEF Forking!Accept
<1>2. c \in pending
  <2>1. pending \subseteq Nat /\ pending # {}
    BY DEF ForkTyped, Forking!Accept
  <2>2. Min(pending) \in pending
    BY <2>1, MinIn
  <2> QED BY <2>2 DEF Forking!Min, Min
<1> HIDE DEF c
<1>3. c \in 1 .. arrived /\ c \in Kids /\ c \notin done /\ kid[c] = "none" /\ c # 0
  <2>1. c \in 1 .. arrived
    BY <1>2 DEF ForkTyped
  <2>2. c \in Kids /\ c # 0
    BY <2>1, ServersAssumption DEF ForkTyped
  <2> QED BY <1>2, <2>1, <2>2 DEF ForkApart
<1>4. \A d \in Kids : open'[d] = IF d = c THEN {"parent"} ELSE open[d]
  BY <1>1, <1>3 DEF ForkTyped
<1>5. ForkTyped'
  BY <1>1, <1>3 DEF ForkTyped
<1>6. SignalsRight'
  <2>1. Forking!Zombies' = Forking!Zombies
    BY <1>1 DEF Forking!Zombies
  <2> QED BY <1>1, <2>1 DEF SignalsRight, Forking!ZombiesSeen
<1>7. ForkApart'
  BY <1>1, <1>3, <1>4 DEF ForkApart, Running, ForkTyped
<1>8. ParentRight'
  BY <1>1, <1>3, <1>4 DEF ParentRight, ForkTyped
<1> QED BY <1>5, <1>6, <1>7, <1>8

LEMMA ForkFork == ASSUME ForkInv, Forking!Fork PROVE ForkInv'
<1> USE DEF ForkInv, Kids, Forking!Kids, Forking!kidVars, Forking!sigVars, Forking!udpVars, Forking!clients
<1>f. srv.per \in {"process", "thread", "self"} /\ (srv.select => srv.per = "process")
  BY Features DEF ForkTyped
<1>1. /\ ppc = "fork" /\ kfd' = [kfd EXCEPT ![pfd] = pfd] /\ kid' = [kid EXCEPT ![pfd] = "run"]
      /\ IF srv.per = "process"
         THEN open' = [open EXCEPT ![pfd] = open[pfd] \cup {"child"}] /\ ppc' = "close"
         ELSE UNCHANGED open /\ ppc' \in {"select", "accept"}
      /\ UNCHANGED <<arrived, pending, done, srv, pfd, chld, hpc>>
  BY DEF Forking!Fork, Forking!Top
<1>2. pfd \in 1 .. arrived /\ pfd \in Kids /\ pfd # 0 /\ open[pfd] = {"parent"} /\ kid[pfd] = "none"
  BY <1>1 DEF ParentRight, ForkTyped
<1>3. /\ \A k \in Kids : kid'[k] = (IF k = pfd THEN "run" ELSE kid[k])
      /\ \A k \in Kids : kfd'[k] = (IF k = pfd THEN pfd ELSE kfd[k])
      /\ \A k \in Kids : open'[k] = IF k = pfd /\ srv.per = "process" THEN {"parent", "child"} ELSE open[k]
  <2>1. \A k \in Kids : /\ kid'[k] = (IF k = pfd THEN "run" ELSE kid[k])
                         /\ kfd'[k] = (IF k = pfd THEN pfd ELSE kfd[k])
    BY <1>1, <1>2 DEF ForkTyped
  <2>2. open[pfd] \cup {"child"} = {"parent", "child"}
    BY <1>2
  <2>3. CASE srv.per = "process"
    BY <1>1, <2>1, <2>2, <2>3 DEF ForkTyped
  <2>4. CASE srv.per # "process"
    BY <1>1, <2>1, <2>4
  <2> QED BY <2>3, <2>4
<1>4. ForkTyped'
  <2>1. open' \in [Kids -> SUBSET {"parent", "child"}]
    BY <1>1, <1>2 DEF ForkTyped
  <2> QED BY <1>1, <1>2, <2>1 DEF ForkTyped
<1>5. SignalsRight'
  <2>1. Forking!Zombies' = Forking!Zombies
    BY <1>2, <1>3 DEF Forking!Zombies
  <2> QED BY <1>1, <2>1 DEF SignalsRight, Forking!ZombiesSeen
<1>6. ForkApart'
  BY <1>1, <1>2, <1>3 DEF ForkApart, Running, ForkTyped
<1>7. ParentRight'
  <2>1. srv.per # "self"
    BY <1>1, <1>2 DEF ParentRight
  <2> QED BY <1>1, <1>2, <1>3, <1>f, <2>1 DEF ParentRight, ForkTyped
<1> QED BY <1>4, <1>5, <1>6, <1>7

\* close() in the parent, or its end: the connection is closed once nobody has
\* it open.
LEMMA ForkClose ==
  ASSUME ForkInv, Forking!Close \/ Forking!ForkFails \/ Forking!Serve
  PROVE  ForkInv'
<1> USE DEF ForkInv, Kids, Forking!Kids, Forking!kidVars, Forking!sigVars, Forking!udpVars
<1> DEFINE rest == IF ppc = "close" THEN open[pfd] \ {"parent"} ELSE {}
<1>f. srv.per \in {"process", "thread", "self"} /\ (srv.select => srv.per = "process")
  BY Features DEF ForkTyped
<1>1. /\ ppc \in {"fork", "close", "serve"} /\ ppc' \in {"udp", "select", "accept", "ended"}
      /\ open' = [open EXCEPT ![pfd] = rest]
      /\ UNCHANGED <<arrived, pending, srv, pfd, kid, kfd, chld, hpc>>
  BY DEF Forking!Close, Forking!ForkFails, Forking!Serve, Forking!Top
<1>d. Forking!Closed(pfd)
  BY DEF Forking!Close, Forking!ForkFails, Forking!Serve
<1>2. pfd \in 1 .. arrived /\ pfd \in Kids /\ "parent" \in open[pfd]
  BY <1>1 DEF ParentRight, ForkTyped
<1>3. \A k \in Kids : open'[k] = IF k = pfd THEN rest ELSE open[k]
  BY <1>1, <1>2 DEF ForkTyped
<1>4. done' = IF rest = {} THEN done \cup {pfd} ELSE done
  BY <1>2, <1>3, <1>d DEF Forking!Closed
<1>r. /\ rest \subseteq open[pfd] /\ rest \subseteq {"parent", "child"}
      /\ "child" \in open[pfd] /\ ppc = "close" => "child" \in rest
      /\ ppc # "close" => rest = {}
  BY <1>2 DEF ForkTyped
<1>n. /\ ppc = "fork" => kid[pfd] = "none"
      /\ ppc = "close" => kid[pfd] # "none" /\ srv.per = "process"
      /\ ppc = "serve" => srv.per = "self"
  BY DEF ParentRight
<1> HIDE DEF rest
<1>5. ForkTyped'
  <2>1. open' \in [Kids -> SUBSET {"parent", "child"}]
    BY <1>1, <1>2, <1>r DEF ForkTyped
  <2>2. done' \subseteq 1 .. arrived
    BY <1>2, <1>4 DEF ForkTyped
  <2> QED BY <1>1, <2>1, <2>2 DEF ForkTyped
<1>6. SignalsRight'
  <2>1. Forking!Zombies' = Forking!Zombies
    BY <1>1 DEF Forking!Zombies
  <2> QED BY <1>1, <2>1 DEF SignalsRight, Forking!ZombiesSeen
<1>7. pfd \notin pending \cup done
  BY <1>2 DEF ForkApart
<1>8. ForkApart'
  <2>1. pending' \cap done' = {}
    BY <1>1, <1>4, <1>7 DEF ForkApart
  <2>2. \A c \in Kids : c \in pending' \cup done' \/ c > arrived' => open'[c] = {}
    BY <1>1, <1>2, <1>3, <1>4, <1>r DEF ForkApart
  <2>3. ASSUME NEW k \in Kids, kid[k] = "run" PROVE Running' \in open'[k]
    <3>1. CASE k # pfd
      BY <1>1, <1>3, <2>3, <3>1 DEF ForkApart, Running
    <3>2. CASE k = pfd /\ srv.per = "process"
      <4>1. ppc = "close"
        BY <1>1, <1>n, <2>3, <3>2
      <4>2. "child" \in open[pfd]
        BY <2>3, <3>2 DEF ForkApart, Running
      <4> QED BY <1>1, <1>2, <1>3, <1>r, <3>2, <4>1, <4>2 DEF Running
    <3>3. CASE k = pfd /\ srv.per # "process"
      <4>1. srv.per = "self" /\ ppc = "serve"
        BY <1>1, <1>n, <2>3, <3>3
      <4> QED BY <2>3, <4>1 DEF ParentRight
    <3> QED BY <3>1, <3>2, <3>3
  <2> QED BY <1>1, <2>1, <2>2, <2>3 DEF ForkApart
<1>9. ParentRight'
  BY <1>1, <1>2, <1>3, <1>f, <1>n, <1>r DEF ParentRight, ForkTyped
<1> QED BY <1>5, <1>6, <1>8, <1>9

\* A child or a thread ends.
LEMMA ForkFinish == ASSUME ForkInv, NEW k \in Kids, Forking!Finish(k) PROVE ForkInv'
<1> USE DEF ForkInv, Kids, Forking!Kids, Forking!udpVars
<1>f. /\ srv.per \in {"process", "thread", "self"}
      /\ srv.handler # "none" => srv.per = "process"
  BY Features DEF ForkTyped
<1> DEFINE rest == open[k] \ {IF srv.per = "process" THEN "child" ELSE "parent"}
           kind == IF srv.per = "process" THEN "zombie" ELSE "gone"
<1>0. kid[k] = "run" /\ kfd[k] = k /\ k \in 1 .. arrived /\ k \notin pending
  BY DEF Forking!Finish, ForkApart, ForkTyped
<1>1. /\ kid' = [kid EXCEPT ![k] = kind] /\ open' = [open EXCEPT ![k] = rest]
      /\ chld' = (srv.handler # "none" /\ ppc # "ended")
      /\ UNCHANGED <<arrived, pending, srv, ppc, pfd, kfd, hpc>>
      /\ srv.per = "process" \/ ppc # "ended"
  BY <1>0 DEF Forking!Finish
<1>2. Running \in open[k]
  BY <1>0 DEF ForkApart
<1>r. rest \subseteq open[k] /\ rest \subseteq {"parent", "child"} /\ kind \in {"zombie", "gone"}
  BY DEF ForkTyped
<1>p. "parent" \in open[k] /\ srv.per = "process" => "parent" \in rest
  OBVIOUS
<1>z. kind = "zombie" <=> srv.per = "process"
  OBVIOUS
<1> HIDE DEF rest, kind
<1>3. \A c \in Kids : /\ open'[c] = IF c = k THEN rest ELSE open[c]
                      /\ kid'[c] = IF c = k THEN kind ELSE kid[c]
  BY <1>1 DEF ForkTyped
<1>4. done' = IF rest = {} THEN done \cup {k} ELSE done
  BY <1>0, <1>3 DEF Forking!Finish, Forking!Closed
<1>5. ForkTyped'
  <2>1. open' \in [Kids -> SUBSET {"parent", "child"}]
    BY <1>1, <1>r DEF ForkTyped
  <2>2. done' \subseteq 1 .. arrived
    BY <1>0, <1>4 DEF ForkTyped
  <2>3. kid' \in [Kids -> {"none", "run", "zombie", "gone"}]
    BY <1>1, <1>r DEF ForkTyped
  <2> QED BY <1>1, <2>1, <2>2, <2>3 DEF ForkTyped
<1>6. SignalsRight'
  <2>1. srv.handler # "none" => Forking!Zombies' = Forking!Zombies \cup {k} /\ k \notin Forking!Zombies
    BY <1>0, <1>3, <1>f, <1>z DEF Forking!Zombies
  <2>2. srv.handler \notin {"wait", "waitpid"} => SignalsRight'
    BY <1>1 DEF SignalsRight, Forking!ZombiesSeen
  <2>3. srv.handler = "waitpid" => SignalsRight'
    BY <1>1 DEF SignalsRight, Forking!ZombiesSeen
  <2>4. srv.handler = "wait" => SignalsRight'
    BY <1>1, <2>1 DEF SignalsRight, Forking!ZombiesSeen
  <2> QED BY <2>2, <2>3, <2>4
<1>7. k \notin done
  BY <1>2 DEF ForkApart
<1>8. ForkApart'
  <2>1. pending' \cap done' = {}
    BY <1>0, <1>1, <1>4, <1>7 DEF ForkApart
  <2>2. \A c \in Kids : c \in pending' \cup done' \/ c > arrived' => open'[c] = {}
    BY <1>0, <1>1, <1>3, <1>4, <1>r DEF ForkApart
  <2>3. ASSUME NEW c \in Kids
        PROVE  /\ kfd'[c] = IF kid'[c] = "none" THEN 0 ELSE c
               /\ c \in pending' \/ c > arrived' => kid'[c] = "none"
               /\ kid'[c] = "run" => Running' \in open'[c]
    BY <1>0, <1>1, <1>3, <1>r DEF ForkApart, ForkTyped, Running
  <2> QED BY <2>1, <2>2, <2>3 DEF ForkApart
<1>9. ParentRight'
  <2>1. srv.per # "self"
    BY <1>0 DEF ParentRight
  <2>2. ppc = "fork" => pfd # k
    BY <1>0 DEF ParentRight
  <2>3. ppc = "close" => srv.per = "process"
    BY DEF ParentRight
  <2>4. pfd \in Kids \/ ppc \notin {"fork", "close", "serve"}
    BY DEF ParentRight, ForkTyped
  <2>5. ppc # "serve"
    BY <2>1 DEF ParentRight
  <2> QED BY <1>1, <1>3, <1>p, <1>r, <2>1, <2>2, <2>3, <2>4, <2>5 DEF ParentRight
<1> QED BY <1>5, <1>6, <1>8, <1>9

\* web_child() in a thread ends the process.
LEMMA ForkFails == ASSUME ForkInv, NEW k \in Kids, Forking!ThreadFails(k) PROVE ForkInv'
<1> USE DEF ForkInv, Forking!ThreadFails, Forking!clients, Forking!kidVars, Forking!sigVars, Forking!udpVars
<1>1. ForkTyped'
  BY DEF ForkTyped
<1>2. SignalsRight'
  <2>1. Forking!Zombies' = Forking!Zombies
    BY DEF Forking!Zombies
  <2> QED BY <2>1 DEF SignalsRight, Forking!ZombiesSeen
<1>3. ForkApart'
  BY ForkKept
<1>4. ParentRight'
  BY DEF ParentRight
<1> QED BY <1>1, <1>2, <1>3, <1>4

ForkRuns == which = "fork" => ForkInv

\* ForkInv holds as long as one of these servers runs.
LEMMA ForkAlways == MCSpec => []ForkRuns
<1>1. MCInit => ForkRuns
  BY ForkInit DEF MCInit, ForkRuns
<1>2. ForkRuns /\ [MCNext]_MCvars => ForkRuns'
  <2> SUFFICES ASSUME ForkRuns, [MCNext]_MCvars, which = "fork" PROVE ForkInv'
    BY OneRuns DEF ForkRuns
  <2>1. ForkInv
    BY DEF ForkRuns
  <2>2. CASE Forking!Next
    BY <2>1, <2>2, ForkClients, ForkWaits, ForkAccept, ForkFork, ForkClose, ForkFinish, ForkFails
       DEF Forking!Next, Forking!ParentStep, Forking!Kids, Kids
  <2>3. CASE UNCHANGED MCvars
    <3>1. UNCHANGED <<arrived, pending, done, srv, ppc, pfd, kid, kfd, open, chld, hpc>>
      BY <2>3 DEF MCvars, vars, clients, forkVars
    <3>2. ForkTyped'
      BY <2>1, <3>1 DEF ForkInv, ForkTyped
    <3> QED BY <2>1, <3>1, <3>2, ForkKept DEF ForkInv
  <2> QED BY <2>2, <2>3, OneRuns, NamesApart
<1> QED BY <1>1, <1>2, PTL DEF MCSpec

(***************************************************************************)
(* For any number of clients: where the handler calls waitpid() in a loop, *)
(* a child that has ended is waited for as soon as the handler has run,    *)
(* however many end together and whenever they do; and the handler that    *)
(* calls wait() once always has a child to wait for, as no SIGCHLD comes   *)
(* without one (sigchldwaitpid.c:9-10, sigchldwait.c:9).                   *)
(***************************************************************************)
THEOREM ZombiesStaySeen == MCSpec => []ZombiesSeen
<1>1. ForkRuns => ZombiesSeen
  BY DEF ForkRuns, ZombiesSeen, ForkInv, SignalsRight, Forking!WaitReturns
<1> QED BY <1>1, ForkAlways, PTL

-----------------------------------------------------------------------------
(* The servers with one loop: the table of clients and the scan of it.     *)

Entries == 0 .. NCLIENT - 1
Fds == 1 .. NCLIENT + 1
Few == 1 .. NFEW

LoopTyped ==
  /\ arrived \in 0 .. NFEW /\ pending \subseteq 1 .. arrived /\ done \subseteq 1 .. arrived
  /\ spc \in {"select", "accept", "loop", "ended", "blocked"} /\ i \in Nat
  /\ client \in [Entries -> {-1} \cup Fds] /\ maxi \in -1 .. NCLIENT - 1 /\ maxfd \in 0 .. NCLIENT + 1
  /\ sready \subseteq {0} \cup Fds /\ sconn \in [Fds -> 0 .. arrived]
  /\ data \in [Few -> Nat] /\ left \in [Few -> {"no", "eof", "rst"}]

\* A connection has one descriptor, a descriptor one entry.
LoopApart ==
  /\ pending \cap done = {}
  /\ \A f \in Fds : sconn[f] \notin pending \cup done
  /\ \A f, g \in Fds : sconn[f] = sconn[g] /\ f # g => sconn[f] = 0
  /\ \A s, t \in Entries : client[s] = client[t] /\ s # t => client[s] = -1
  /\ \A s \in Entries : client[s] # -1 => sconn[client[s]] # 0 /\ s <= maxi

\* While the server runs, the table has every open descriptor.
TableFull ==
  spc # "ended" =>
    /\ allset = {0} \cup {f \in Fds : sconn[f] # 0}
    /\ \A f \in Fds : sconn[f] # 0 => f <= maxfd /\ \E s \in Entries : client[s] = f

\* A descriptor that has something to read, or the end, keeps it until it is
\* read.
FdReady(f) == sconn[f] # 0 /\ (data[sconn[f]] > 0 \/ left[sconn[f]] # "no")

\* The entries the scan has still to serve: as many as nready says, all of them
\* before an entry whose revents nobody has set.
ToServe(G) ==
  /\ G # {} /\ nready = Cardinality(G)
  /\ \A s \in G : i <= s /\ client[s] \in sready /\ client[s] # -1 /\ FdReady(client[s])
  /\ \A s \in Entries \ G : i <= s /\ client[s] # -1 /\ client[s] \in sready => \A t \in G : t < s

ScanRight ==
  /\ spc # "blocked"
  /\ spc = "accept" => /\ 0 \in sready /\ i = 0 /\ nready = Cardinality(sready)
                       /\ \A f \in sready \ {0} : FdReady(f)
  /\ spc = "loop" => \E G \in SUBSET Entries : ToServe(G)

LoopInv == LoopTyped /\ LoopApart /\ TableFull /\ ScanRight

\* Entries and descriptors are finitely many.
LEMMA EntriesFinite ==
  /\ NCLIENT \in Nat \ {0} /\ NFEW \in Nat
  /\ IsFiniteSet(Entries) /\ Cardinality(Entries) = NCLIENT
  /\ IsFiniteSet(Fds) /\ Cardinality(Fds) = NCLIENT + 1
  /\ IsFiniteSet({0} \cup Fds)
<1>0. NCLIENT \in Nat \ {0} /\ NFEW \in Nat
  BY ServersAssumption
<1>1. IsFiniteSet(Entries) /\ Cardinality(Entries) = NCLIENT
  <2>1. IsFiniteSet(0 .. NCLIENT - 1) /\ Cardinality(0 .. NCLIENT - 1) = NCLIENT
    BY <1>0, FS_Interval
  <2> QED BY <2>1 DEF Entries
<1>2. IsFiniteSet(Fds) /\ Cardinality(Fds) = NCLIENT + 1
  <2>1. IsFiniteSet(1 .. NCLIENT + 1) /\ Cardinality(1 .. NCLIENT + 1) = NCLIENT + 1
    BY <1>0, FS_Interval
  <2> QED BY <2>1 DEF Fds
<1>3. IsFiniteSet({0} \cup Fds)
  BY <1>2, FS_Union, FS_Singleton
<1> QED BY <1>0, <1>1, <1>2, <1>3

\* A server begins with an empty table.
LEMMA LoopInit ==
  ASSUME Looping!Begin
  PROVE  LoopInv
<1> USE EntriesFinite DEF Looping!Begin, Entries, Fds, Few, Looping!Slots, Looping!Fds, Looping!Conns, Looping!listenfd
<1>1. LoopTyped
  <2>1. client \in [Entries -> {-1} \cup Fds] /\ sconn \in [Fds -> 0 .. arrived]
    OBVIOUS
  <2>2. data \in [Few -> Nat] /\ left \in [Few -> {"no", "eof", "rst"}]
    OBVIOUS
  <2> QED BY <2>1, <2>2 DEF LoopTyped
<1>2. LoopApart /\ TableFull
  BY DEF LoopApart, TableFull
<1>3. ScanRight
  BY DEF ScanRight
<1> QED BY <1>1, <1>2, <1>3 DEF LoopInv

\* As many entries as descriptors in F have something to do, if each of these
\* has its entry.
LEMMA EntriesOf ==
  ASSUME LoopTyped, LoopApart, NEW F \in SUBSET Fds,
         \A f \in F : \E s \in Entries : client[s] = f
  PROVE  LET G == {s \in Entries : client[s] \in F}
         IN Cardinality(G) = Cardinality(F) /\ IsFiniteSet(G)
<1> DEFINE G == {s \in Entries : client[s] \in F}
           e == [s \in G |-> client[s]]
<1>1. IsFiniteSet(G)
  <2>1. G \in SUBSET Entries
    OBVIOUS
  <2> HIDE DEF G
  <2> QED BY <2>1, EntriesFinite, FS_Subset
<1>n. -1 \notin Fds
  BY EntriesFinite DEF Fds
<1>2. e \in [G -> F]
  OBVIOUS
<1>3. \A s, t \in G : e[s] = e[t] => s = t
  BY <1>n DEF LoopApart
<1>4. \A f \in F : \E s \in G : e[s] = f
  OBVIOUS
<1>5. e \in Bijection(G, F)
  <2> HIDE DEF e, G
  <2> QED BY <1>2, <1>3, <1>4 DEF Bijection, Injection, Surjection, IsInjective
<1> HIDE DEF e, G
<1>6. ExistsBijection(G, F)
  BY <1>5 DEF ExistsBijection
<1>7. Cardinality(F) = Cardinality(G)
  BY <1>1, <1>6, FS_Bijection
<1> QED BY <1>1, <1>7 DEF G

\* There is one descriptor more than entries, so accept() has one to return.
LEMMA FreeFd ==
  ASSUME LoopInv, spc # "ended"
  PROVE  \E f \in Fds : sconn[f] = 0
<1> SUFFICES ASSUME \A f \in Fds : sconn[f] # 0 PROVE FALSE
  OBVIOUS
<1>1. \A f \in Fds : \E s \in Entries : client[s] = f
  BY DEF LoopInv, TableFull
<1> DEFINE G == {s \in Entries : client[s] \in Fds}
<1>2. Cardinality(G) = Cardinality(Fds)
  BY <1>1, EntriesOf DEF LoopInv
<1>3. G \in SUBSET Entries
  OBVIOUS
<1> HIDE DEF G
<1>4. Cardinality(G) <= Cardinality(Entries)
  BY <1>3, EntriesFinite, FS_Subset
<1> QED BY <1>2, <1>4, EntriesFinite

\* The scan goes on as long as what is ready stays ready.
LEMMA ScanKept ==
  ASSUME LoopTyped, ScanRight, UNCHANGED <<spc, i, nready, sready, client>>,
         \A f \in Fds : FdReady(f) => FdReady(f)'
  PROVE  ScanRight'
<1>1. ASSUME spc = "loop" PROVE \E G \in SUBSET Entries : ToServe(G)'
  <2>1. PICK G \in SUBSET Entries : ToServe(G)
    BY <1>1 DEF ScanRight
  <2>2. \A s \in G : client[s] \in Fds
    BY <2>1 DEF ToServe, LoopTyped
  <2>3. ToServe(G)'
    BY <2>1, <2>2 DEF ToServe
  <2> QED BY <2>3
<1> QED BY <1>1 DEF ScanRight, LoopTyped

\* The steps of the clients.
LEMMA LoopClients ==
  ASSUME LoopInv,
         \/ Looping!Arrive \/ (\E c \in pending : Looping!Abort(c))
         \/ \E c \in Few : Looping!Send(c) \/ Looping!Leave(c) \/ Looping!Reset(c)
  PROVE  LoopInv'
<1> USE DEF LoopInv, Looping!selectVars, Looping!clients, Looping!table, Looping!scan, Looping!peers
<1>n. NFEW \in Nat
  BY ServersAssumption
<1>1. CASE Looping!Arrive
  <2> USE <1>1 DEF Looping!Arrive
  <2>1. LoopTyped'
    BY <1>n DEF LoopTyped
  <2>2. LoopApart'
    BY DEF LoopApart, LoopTyped
  <2>3. TableFull'
    BY DEF TableFull
  <2>4. ScanRight'
    BY ScanKept DEF FdReady
  <2> QED BY <2>1, <2>2, <2>3, <2>4
<1>2. ASSUME NEW c \in pending, Looping!Abort(c) PROVE LoopInv'
  <2> USE <1>2 DEF Looping!Abort
  <2>1. LoopTyped'
    BY DEF LoopTyped
  <2>2. LoopApart'
    BY DEF LoopApart, LoopTyped
  <2>3. TableFull'
    BY DEF TableFull
  <2>4. ScanRight'
    BY ScanKept DEF FdReady
  <2> QED BY <2>1, <2>2, <2>3, <2>4
<1>3. ASSUME NEW c \in Few, Looping!Send(c) \/ Looping!Leave(c) \/ Looping!Reset(c) PROVE LoopInv'
  <2> USE <1>3 DEF Looping!Send, Looping!Leave, Looping!Reset
  <2>0. UNCHANGED <<arrived, pending, done, spc, nready, i, sready, client, maxi, maxfd, allset, sconn>>
    OBVIOUS
  <2>1. data' \in [Few -> Nat] /\ left' \in [Few -> {"no", "eof", "rst"}]
    BY DEF LoopTyped
  <2>2. \A d \in Few : data[d] > 0 \/ left[d] # "no" => data'[d] > 0 \/ left'[d] # "no"
    BY DEF LoopTyped
  <2>3. \A f \in Fds : sconn[f] # 0 => sconn[f] \in Few
    BY <1>n DEF LoopTyped, Few
  <2>4. \A f \in Fds : FdReady(f) => FdReady(f)'
    BY <2>0, <2>2, <2>3 DEF FdReady
  <2>5. ScanRight'
    BY <2>0, <2>4, ScanKept
  <2>6. LoopTyped'
    BY <2>0, <2>1 DEF LoopTyped
  <2>7. LoopApart' /\ TableFull'
    BY <2>0 DEF LoopApart, TableFull
  <2> QED BY <2>5, <2>6, <2>7
<1> QED BY <1>1, <1>2, <1>3

\* select(): what it reports is ready, and has its entry.
LEMMA LoopSelect == ASSUME LoopInv, Looping!Select PROVE LoopInv'
<1> USE DEF LoopInv, Looping!clients, Looping!table, Looping!peers
<1>1. /\ spc = "select" /\ sready' = Looping!Asked \cap Looping!ReadyNow /\ sready' # {}
      /\ nready' = Cardinality(sready') /\ i' = 0
      /\ spc' = IF 0 \in sready' THEN "accept" ELSE "loop"
      /\ UNCHANGED <<arrived, pending, done, loop, client, maxi, maxfd, allset, sconn, data, left, buf>>
  BY SameCardinality DEF Looping!Select, Looping!listenfd
<1>2. allset = {0} \cup {f \in Fds : sconn[f] # 0}
  BY <1>1 DEF TableFull
<1>3. \A f \in sready' : f = 0 \/ (f \in Fds /\ FdReady(f))
  BY <1>1, <1>2 DEF Looping!Asked, Looping!ReadyNow, Looping!Fds, Fds, Looping!listenfd, FdReady
<1>4. sready' \subseteq {0} \cup Fds
  BY <1>3
<1>5. LoopTyped'
  BY <1>1, <1>4 DEF LoopTyped
<1>6. LoopApart' /\ TableFull'
  BY <1>1 DEF LoopApart, TableFull
<1>r. \A f \in Fds : FdReady(f) => FdReady(f)'
  BY <1>1 DEF FdReady
<1>7. ScanRight'
  <2>1. CASE 0 \in sready'
    BY <1>1, <1>3, <1>r, <2>1 DEF ScanRight
  <2>2. CASE 0 \notin sready'
    <3>0. PICK G \in SUBSET Entries : G = {s \in Entries : client[s] \in sready'}
      OBVIOUS
    <3>1. sready' \in SUBSET Fds /\ \A f \in sready' : FdReady(f)
      BY <1>3, <2>2
    <3>2. \A f \in sready' : \E s \in Entries : client[s] = f
      BY <1>1, <3>1 DEF TableFull, FdReady
    <3>3. Cardinality(G) = Cardinality(sready')
      BY <3>0, <3>1, <3>2, EntriesOf
    <3>n. \A f \in Fds : f # -1
      BY EntriesFinite DEF Fds
    <3>4. G # {} /\ \A s \in G : client[s] \in sready' /\ client[s] # -1 /\ FdReady(client[s])' /\ 0 <= s
      BY <1>1, <1>r, <3>0, <3>1, <3>2, <3>n DEF Entries
    <3>5. \A s \in Entries \ G : client[s] \notin sready'
      BY <3>0
    <3>7. ToServe(G)'
      BY <1>1, <3>3, <3>4, <3>5 DEF ToServe
    <3> QED BY <1>1, <2>2, <3>7 DEF ScanRight
  <2> QED BY <2>1, <2>2
<1> QED BY <1>5, <1>6, <1>7

LEMMA MaxOfTwo ==
  ASSUME NEW a \in Int, NEW b \in Int
  PROVE  Looping!Max({a, b}) = IF a >= b THEN a ELSE b
<1> DEFINE m == IF a >= b THEN a ELSE b
<1>1. m \in {a, b} /\ \A y \in {a, b} : m >= y
  OBVIOUS
<1>2. \A x \in {a, b} : (\A y \in {a, b} : x >= y) => x = m
  OBVIOUS
<1> HIDE DEF m
<1>3. Looping!Max({a, b}) = m
  BY <1>1, <1>2 DEF Looping!Max
<1> QED BY <1>3 DEF m

\* Accept(): the first free descriptor, into the first free entry.
LEMMA LoopAccept == ASSUME LoopInv, Looping!Accept PROVE LoopInv'
<1> USE DEF LoopInv
<1> DEFINE c == Looping!Min(pending)
           f == Looping!connfd
           m == Looping!Min(Looping!FreeSlots)
           full == Looping!FreeSlots = {}
<1>e. Looping!Slots = Entries /\ Looping!Fds = Fds
  BY DEF Looping!Slots, Entries, Looping!Fds, Fds
<1>1. /\ spc = "accept" /\ pending # {} /\ pending' = pending \ {c} /\ sconn' = [sconn EXCEPT ![f] = c]
      /\ UNCHANGED <<arrived, done, i, data, left>>
  BY DEF Looping!Accept, Looping!peers
<1>2. full => spc' = "ended" /\ UNCHANGED <<client, maxi, maxfd, allset, nready, sready>>
  BY DEF Looping!Accept
<1>3. ~full => /\ client' = [client EXCEPT ![m] = f] /\ allset' = allset \cup {f}
               /\ maxfd' = Looping!Max({maxfd, f}) /\ maxi' = Looping!Max({maxi, m})
               /\ nready' = nready - 1 /\ spc' = IF nready - 1 <= 0 THEN "select" ELSE "loop"
               /\ sready' = sready \/ (m > maxi /\ sready' = sready \cup {f})
  BY DEF Looping!Accept, Looping!AfterAccept
<1>4. c \in pending
  <2>1. pending \subseteq Nat
    BY DEF LoopTyped
  <2>2. Min(pending) \in pending
    BY <1>1, <2>1, MinIn
  <2> QED BY <2>2 DEF Looping!Min, Min
<1>5. f \in Fds /\ sconn[f] = 0
  <2> DEFINE S == {g \in Fds : sconn[g] = 0}
  <2>1. S \subseteq Nat /\ S # {}
    BY <1>1, FreeFd, EntriesFinite DEF Fds
  <2>2. Min(S) \in S
    BY <2>1, MinIn
  <2>3. f = Min(S)
    BY <1>e DEF Looping!connfd, Looping!Min, Min
  <2> QED BY <2>2, <2>3
<1>6. ASSUME ~full PROVE m \in Entries /\ client[m] = -1 /\ \A s \in Entries : client[s] = -1 => m <= s
  <2> DEFINE S == {s \in Entries : client[s] < 0}
  <2>0. S = Looping!FreeSlots
    BY <1>e DEF Looping!FreeSlots
  <2>1. S \subseteq Nat /\ S # {}
    BY <1>6, <2>0, EntriesFinite DEF Entries
  <2>2. Min(S) \in S /\ \A y \in S : Min(S) <= y
    BY <2>1, MinIn
  <2>3. m = Min(S)
    BY <2>0 DEF Looping!Min, Min
  <2>4. \A s \in Entries : client[s] < 0 <=> client[s] = -1
    BY EntriesFinite DEF LoopTyped, Fds
  <2> HIDE DEF m
  <2> QED BY <2>2, <2>3, <2>4
<1> HIDE DEF c, f, m, full
<1>7. c \in 1 .. arrived /\ c # 0 /\ c \notin done /\ \A g \in Fds : sconn[g] # c
  BY <1>4 DEF LoopTyped, LoopApart
<1>8. \A g \in Fds : sconn'[g] = IF g = f THEN c ELSE sconn[g]
  BY <1>1, <1>5 DEF LoopTyped
<1>9. sconn' \in [Fds -> 0 .. arrived]
  <2>1. c \in 0 .. arrived /\ arrived' = arrived
    BY <1>1, <1>7 DEF LoopTyped
  <2> QED BY <1>1, <2>1 DEF LoopTyped
<1>x. \A g \in Fds : g # -1 /\ g \in Int /\ g # 0
  BY EntriesFinite DEF Fds
<1>r. \A g \in Fds : FdReady(g) => FdReady(g)'
  BY <1>1, <1>5, <1>8 DEF FdReady
<1>10. CASE full
  <2>1. LoopTyped'
    BY <1>1, <1>2, <1>9, <1>10 DEF LoopTyped
  <2>2. LoopApart'
    BY <1>1, <1>2, <1>4, <1>5, <1>7, <1>8, <1>10 DEF LoopApart, LoopTyped
  <2>3. TableFull' /\ ScanRight'
    BY <1>2, <1>10 DEF TableFull, ScanRight
  <2> QED BY <2>1, <2>2, <2>3
<1>11. CASE ~full
  <2>m. m \in Entries /\ client[m] = -1
    BY <1>6, <1>11
  <2>0. /\ maxfd' \in 0 .. NCLIENT + 1 /\ maxfd <= maxfd' /\ f <= maxfd'
        /\ maxi' \in -1 .. NCLIENT - 1 /\ maxi <= maxi' /\ m <= maxi'
    <3>1. maxfd \in Int /\ f \in Int /\ maxi \in Int /\ m \in Int
      BY <1>5, <1>x, <2>m, EntriesFinite DEF LoopTyped, Entries
    <3>2. maxfd' = (IF maxfd >= f THEN maxfd ELSE f) /\ maxi' = (IF maxi >= m THEN maxi ELSE m)
      BY <1>3, <1>11, <3>1, MaxOfTwo
    <3> QED BY <1>5, <2>m, <3>1, <3>2, EntriesFinite DEF LoopTyped, Entries, Fds
  <2>c. \A s \in Entries : client'[s] = IF s = m THEN f ELSE client[s]
    BY <1>3, <1>11, <2>m DEF LoopTyped
  <2>u. \A s \in Entries : client[s] # f
    BY <1>5, <1>x DEF LoopApart
  <2>1. LoopTyped'
    <3>1. client' \in [Entries -> {-1} \cup Fds]
      BY <1>3, <1>5, <1>11, <2>m DEF LoopTyped
    <3>2. sready' \subseteq {0} \cup Fds /\ spc' \in {"select", "loop"}
      BY <1>3, <1>5, <1>11 DEF LoopTyped
    <3> QED BY <1>1, <1>9, <2>0, <3>1, <3>2 DEF LoopTyped
  <2>2. LoopApart'
    <3>1. pending' \cap done' = {} /\ \A g \in Fds : sconn'[g] \notin pending' \cup done'
      BY <1>1, <1>4, <1>7, <1>8 DEF LoopApart
    <3>2. \A g, h \in Fds : sconn'[g] = sconn'[h] /\ g # h => sconn'[g] = 0
      BY <1>5, <1>7, <1>8 DEF LoopApart
    <3>3. \A s, t \in Entries : client'[s] = client'[t] /\ s # t => client'[s] = -1
      BY <2>c, <2>u DEF LoopApart
    <3>4. ASSUME NEW s \in Entries, client'[s] # -1 PROVE sconn'[client'[s]] # 0 /\ s <= maxi'
      <4>1. CASE s = m
        BY <1>5, <1>7, <1>8, <2>0, <2>c, <4>1
      <4>2. CASE s # m
        <5>1. client'[s] = client[s] /\ client[s] \in Fds /\ sconn[client[s]] # 0 /\ s <= maxi
          BY <2>c, <3>4, <4>2 DEF LoopApart, LoopTyped
        <5>2. s <= maxi'
          BY <2>0, <5>1 DEF LoopTyped, Entries
        <5> QED BY <1>7, <1>8, <5>1, <5>2
      <4> QED BY <4>1, <4>2
    <3> QED BY <3>1, <3>2, <3>3, <3>4 DEF LoopApart
  <2>3. TableFull'
    <3>0. /\ allset = {0} \cup {g \in Fds : sconn[g] # 0}
          /\ \A g \in Fds : sconn[g] # 0 => g <= maxfd /\ \E s \in Entries : client[s] = g
      BY <1>1 DEF TableFull
    <3>1. allset' = {0} \cup {g \in Fds : sconn'[g] # 0}
      BY <1>3, <1>5, <1>7, <1>8, <1>11, <3>0
    <3>2. ASSUME NEW g \in Fds, sconn'[g] # 0
          PROVE  g <= maxfd' /\ \E s \in Entries : client'[s] = g
      <4>1. CASE g = f
        BY <2>0, <2>c, <2>m, <4>1
      <4>2. CASE g # f
        <5>1. PICK s \in Entries : client[s] = g
          BY <1>8, <3>0, <3>2, <4>2
        <5>2. client'[s] = g
          BY <1>x, <2>c, <2>m, <5>1
        <5>3. g <= maxfd'
          BY <1>8, <1>x, <2>0, <3>0, <3>2, <4>2 DEF LoopTyped
        <5> QED BY <5>2, <5>3
      <4> QED BY <4>1, <4>2
    <3> QED BY <3>1, <3>2 DEF TableFull
  <2>4. ScanRight'
    <3>1. CASE nready - 1 <= 0
      BY <1>3, <1>11, <3>1 DEF ScanRight
    <3>2. CASE ~(nready - 1 <= 0)
      <4> DEFINE F == sready \ {0}
      <4>1. /\ 0 \in sready /\ i = 0 /\ nready = Cardinality(sready)
            /\ \A g \in F : g \in Fds /\ FdReady(g)
        BY <1>1 DEF ScanRight, LoopTyped
      <4>2. F \in SUBSET Fds /\ \A g \in F : \E s \in Entries : client[s] = g
        BY <1>1, <4>1 DEF TableFull, FdReady
      <4>f. f \notin F
        BY <1>5, <4>1 DEF FdReady
      <4>g. PICK G \in SUBSET Entries : G = {s \in Entries : client[s] \in F}
        OBVIOUS
      <4>3. Cardinality(G) = Cardinality(F) /\ IsFiniteSet(G)
        BY <4>2, <4>g, EntriesOf
      <4>4. IsFiniteSet(sready)
        BY EntriesFinite, FS_Subset DEF LoopTyped
      <4>5. Cardinality(F) = nready - 1 /\ nready \in Nat
        <5> HIDE DEF F
        <5> QED BY <4>1, <4>4, FS_RemoveElement, FS_CardinalityType DEF F
      <4>6. G # {}
        BY <3>2, <4>3, <4>5, FS_EmptySet
      <4>7. \A s \in G : s # m /\ client'[s] = client[s] /\ client[s] \in F /\ 0 <= s
        BY <1>x, <2>c, <2>m, <4>1, <4>g, EntriesFinite DEF Entries
      <4>8. \A s \in G : i' <= s /\ client'[s] \in sready' /\ client'[s] # -1 /\ FdReady(client[s])'
        <5> SUFFICES ASSUME NEW s \in G
                     PROVE  i' <= s /\ client'[s] \in sready' /\ client'[s] # -1 /\ FdReady(client[s])'
          OBVIOUS
        <5>1. client[s] \in Fds /\ FdReady(client[s]) /\ client[s] \in sready
          BY <4>1, <4>7
        <5>2. FdReady(client[s])'
          BY <1>1, <1>5, <1>8, <4>7, <5>1 DEF FdReady
        <5> QED BY <1>1, <1>3, <1>11, <1>x, <4>1, <4>7, <5>1, <5>2 DEF FdReady
      <4>9. \A s \in Entries \ G : client'[s] # -1 /\ client'[s] \in sready' => \A t \in G : t < s
        <5> SUFFICES ASSUME NEW s \in Entries \ G, client'[s] # -1, client'[s] \in sready', NEW t \in G
                     PROVE  t < s
          OBVIOUS
        <5>1. client[s] \notin F /\ (s # m => client[s] \in Fds)
          BY <2>c, <4>g DEF LoopTyped
        <5>2. s = m
          <6> SUFFICES ASSUME s # m PROVE FALSE
            OBVIOUS
          <6>1. client'[s] = client[s] /\ client[s] \in Fds
            BY <2>c, <5>1
          <6>2. client[s] \notin sready /\ client[s] # f
            BY <1>x, <2>u, <5>1, <6>1
          <6> QED BY <1>3, <1>11, <6>1, <6>2
        <5>3. m > maxi
          <6>1. client'[m] = f
            BY <2>c, <2>m
          <6>2. f \notin sready
            BY <1>5, <1>x, <4>f
          <6> QED BY <1>3, <1>11, <5>2, <6>1, <6>2
        <5>4. t <= maxi
          BY <1>x, <4>1, <4>7 DEF LoopApart
        <5> QED BY <2>m, <5>2, <5>3, <5>4, EntriesFinite DEF LoopTyped, Entries
      <4>10. ToServe(G)'
        <5>1. nready' = Cardinality(G)
          BY <1>3, <1>11, <4>3, <4>5
        <5> QED BY <4>6, <4>8, <4>9, <5>1 DEF ToServe
      <4> QED BY <1>3, <1>11, <3>2, <4>10 DEF ScanRight
    <3> QED BY <3>1, <3>2
  <2> QED BY <2>1, <2>2, <2>3, <2>4
<1> QED BY <1>10, <1>11

\* One ready client: entry i is the next one to serve, so read() does not wait.
LEMMA LoopServe == ASSUME LoopInv, Looping!Serve PROVE LoopInv'
<1> USE DEF LoopInv
<1> DEFINE f == client[i]
           c == sconn[client[i]]
           next == spc' = IF nready - 1 <= 0 THEN "select" ELSE "loop"
<1>1. /\ spc = "loop" /\ i <= maxi /\ f >= 0 /\ f \in sready /\ nready' = nready - 1
      /\ UNCHANGED <<arrived, pending, maxi, maxfd, sready, left>>
  BY DEF Looping!Serve
<1>2. \/ /\ i' = i + 1 /\ next /\ UNCHANGED <<done, client, allset, sconn>>
         /\ data' = data \/ data' = [data EXCEPT ![c] = 0]
      \/ /\ client' = [client EXCEPT ![i] = -1] /\ allset' = allset \ {f}
         /\ sconn' = [sconn EXCEPT ![f] = 0] /\ done' = done \cup {c}
         /\ i' = i + 1 /\ next /\ UNCHANGED data
      \/ spc' = "ended" /\ i' = i /\ UNCHANGED <<done, client, allset, sconn, data>>
      \/ data[c] = 0 /\ left[c] = "no"
  BY DEF Looping!Serve, Looping!Echo, Looping!Readline, Looping!Drop, Looping!NextSlot
<1>3. i \in Entries /\ f \in Fds /\ f # -1
  BY <1>1, EntriesFinite DEF LoopTyped, Entries, Fds
<1>4. c # 0 /\ c \in 1 .. arrived /\ c \in Few
  BY <1>3, EntriesFinite DEF LoopApart, LoopTyped, Few
<1>5. PICK G \in SUBSET Entries : ToServe(G)
  BY <1>1 DEF ScanRight
<1>6. i \in G
  <2> SUFFICES ASSUME i \notin G PROVE FALSE
    OBVIOUS
  <2>1. PICK t \in G : TRUE
    BY <1>5 DEF ToServe
  <2>2. t < i /\ i <= t /\ i \in Nat /\ t \in Nat
    BY <1>1, <1>3, <1>5, EntriesFinite DEF ToServe, Entries
  <2> QED BY <2>2
<1>7. ~(data[c] = 0 /\ left[c] = "no")
  BY <1>4, <1>5, <1>6 DEF ToServe, FdReady, LoopTyped
<1>s. \A s \in Entries : s # i /\ client[s] # -1 =>
        client[s] \in Fds /\ client[s] # f /\ sconn[client[s]] # c
  BY <1>3, <1>4 DEF LoopApart, LoopTyped
<1>8. ASSUME spc' = "loop", i' = i + 1,
             \A s \in G \ {i} : client'[s] = client[s] /\ FdReady(client[s])',
             \A s \in Entries : s # i => client'[s] = client[s], next
      PROVE  ScanRight'
  <2>1. \E H \in SUBSET Entries : ToServe(H)'
    <3>0. IsFiniteSet(G) /\ Cardinality(G) \in Nat
      BY EntriesFinite, FS_Subset, FS_CardinalityType
    <3>1. Cardinality(G \ {i}) = nready - 1 /\ Cardinality(G \ {i}) > 0 /\ IsFiniteSet(G \ {i})
      <4>1. IsFiniteSet(G \ {i}) /\ Cardinality(G \ {i}) = Cardinality(G) - 1
        BY <1>6, <3>0, FS_RemoveElement
      <4>2. nready = Cardinality(G) /\ ~(nready - 1 <= 0)
        BY <1>5, <1>8 DEF ToServe
      <4> QED BY <3>0, <4>1, <4>2
    <3>2. G \ {i} # {}
      BY <3>1, FS_EmptySet
    <3>3. PICK H \in SUBSET Entries : H = G \ {i}
      OBVIOUS
    <3>4. \A s \in H : i' <= s /\ client'[s] \in sready' /\ client'[s] # -1 /\ FdReady(client[s])'
      BY <1>1, <1>3, <1>5, <1>8, <3>3, EntriesFinite DEF ToServe, Entries
    <3>5. \A s \in Entries \ H : i' <= s /\ client'[s] # -1 /\ client'[s] \in sready' => \A t \in H : t < s
      <4> SUFFICES ASSUME NEW s \in Entries \ H, i' <= s, client'[s] # -1, client'[s] \in sready', NEW t \in H
                   PROVE  t < s
        OBVIOUS
      <4>1. s # i /\ i <= s /\ s \notin G
        BY <1>3, <1>8, <3>3, EntriesFinite DEF Entries
      <4> QED BY <1>1, <1>5, <1>8, <3>3, <4>1 DEF ToServe
    <3>6. ToServe(H)'
      BY <1>1, <3>1, <3>2, <3>3, <3>4, <3>5 DEF ToServe
    <3> QED BY <3>6
  <2> QED BY <1>8, <2>1 DEF ScanRight
<1>9. ASSUME spc' # "loop", spc' # "blocked", spc' # "accept" PROVE ScanRight'
  BY <1>9 DEF ScanRight
<1> HIDE DEF f, c
<1>10. CASE /\ i' = i + 1 /\ next /\ UNCHANGED <<done, client, allset, sconn>>
            /\ data' = data \/ data' = [data EXCEPT ![c] = 0]
  <2>1. data' \in [Few -> Nat] /\ \A d \in Few : d # c => data'[d] = data[d]
    BY <1>4, <1>10 DEF LoopTyped
  <2>2. LoopTyped'
    BY <1>1, <1>10, <2>1 DEF LoopTyped
  <2>3. LoopApart' /\ TableFull'
    BY <1>1, <1>10 DEF LoopApart, TableFull
  <2>4. \A s \in G \ {i} : FdReady(client[s])'
    <3> SUFFICES ASSUME NEW s \in G \ {i} PROVE FdReady(client[s])'
      OBVIOUS
    <3>1. client[s] \in Fds /\ sconn[client[s]] # c /\ FdReady(client[s])
      BY <1>5, <1>s DEF ToServe
    <3>2. sconn[client[s]] \in Few
      BY <3>1, EntriesFinite DEF FdReady, LoopTyped, Few
    <3> QED BY <1>1, <1>10, <2>1, <3>1, <3>2 DEF FdReady
  <2>5. ScanRight'
    BY <1>8, <1>9, <1>10, <2>4
  <2> QED BY <2>2, <2>3, <2>5
<1>11. CASE /\ client' = [client EXCEPT ![i] = -1] /\ allset' = allset \ {f}
            /\ sconn' = [sconn EXCEPT ![f] = 0] /\ done' = done \cup {c}
            /\ i' = i + 1 /\ next /\ UNCHANGED data
  <2>1. /\ \A s \in Entries : client'[s] = IF s = i THEN -1 ELSE client[s]
        /\ \A g \in Fds : sconn'[g] = IF g = f THEN 0 ELSE sconn[g]
    BY <1>3, <1>11 DEF LoopTyped
  <2>2. LoopTyped'
    <3>1. client' \in [Entries -> {-1} \cup Fds] /\ sconn' \in [Fds -> 0 .. arrived]
      <4>1. 0 \in 0 .. arrived
        BY DEF LoopTyped
      <4> QED BY <1>11, <4>1 DEF LoopTyped
    <3>2. done' \subseteq 1 .. arrived
      BY <1>4, <1>11 DEF LoopTyped
    <3> QED BY <1>1, <1>11, <3>1, <3>2 DEF LoopTyped
  <2>3. LoopApart'
    <3>1. /\ c \notin pending /\ \A g \in Fds : g # f => sconn[g] # c
          /\ 0 \notin pending /\ 0 \notin done /\ 0 # c
      BY <1>3, <1>4 DEF LoopApart, LoopTyped, c, f
    <3>2. pending' \cap done' = {} /\ \A g \in Fds : sconn'[g] \notin pending' \cup done'
      BY <1>1, <1>11, <2>1, <3>1 DEF LoopApart
    <3>3. \A g, h \in Fds : sconn'[g] = sconn'[h] /\ g # h => sconn'[g] = 0
      BY <2>1 DEF LoopApart
    <3>4. \A s, t \in Entries : client'[s] = client'[t] /\ s # t => client'[s] = -1
      BY <2>1 DEF LoopApart
    <3>5. \A s \in Entries : client'[s] # -1 => sconn'[client'[s]] # 0 /\ s <= maxi'
      BY <1>1, <1>s, <2>1 DEF LoopApart
    <3> QED BY <3>2, <3>3, <3>4, <3>5 DEF LoopApart
  <2>4. TableFull'
    <3>0. f # 0
      BY <1>3, EntriesFinite DEF Fds
    <3>1. allset' = {0} \cup {g \in Fds : sconn'[g] # 0}
      BY <1>1, <1>11, <2>1, <3>0 DEF TableFull
    <3>2. \A g \in Fds : sconn'[g] # 0 => g <= maxfd' /\ \E s \in Entries : client'[s] = g
      BY <1>1, <2>1 DEF TableFull, f
    <3> QED BY <3>1, <3>2 DEF TableFull
  <2>5. \A s \in G \ {i} : client'[s] = client[s] /\ FdReady(client[s])'
    BY <1>1, <1>5, <1>11, <1>s, <2>1 DEF ToServe, FdReady
  <2>6. ScanRight'
    BY <1>8, <1>9, <1>11, <2>1, <2>5
  <2> QED BY <2>2, <2>3, <2>4, <2>6
<1>12. CASE spc' = "ended" /\ i' = i /\ UNCHANGED <<done, client, allset, sconn, data>>
  <2>1. LoopTyped'
    BY <1>1, <1>12 DEF LoopTyped
  <2> QED BY <1>1, <1>12, <2>1 DEF LoopApart, TableFull, ScanRight
<1> QED BY <1>2, <1>7, <1>10, <1>11, <1>12 DEF c, f

\* The rest of the loop.
LEMMA LoopSkip == ASSUME LoopInv, Looping!Skip \/ Looping!EndOfLoop PROVE LoopInv'
<1> USE DEF LoopInv, Looping!Skip, Looping!EndOfLoop, Looping!clients, Looping!table, Looping!peers, Looping!scan
<1>1. LoopTyped'
  <2>1. i' \in Nat /\ spc' \in {"select", "loop"}
    BY DEF LoopTyped
  <2>2. UNCHANGED <<arrived, pending, done, client, maxi, maxfd, sready, sconn, data, left>>
    OBVIOUS
  <2> QED BY <2>1, <2>2 DEF LoopTyped
<1>2. LoopApart' /\ TableFull'
  BY DEF LoopApart, TableFull
<1>3. ScanRight'
  <2>1. CASE Looping!EndOfLoop
    BY <2>1 DEF ScanRight
  <2>2. CASE Looping!Skip
    <3>1. PICK G \in SUBSET Entries : ToServe(G)
      BY <2>2 DEF ScanRight
    <3>2. i \in Entries /\ (client[i] = -1 \/ client[i] \notin sready)
      BY <2>2, EntriesFinite DEF LoopTyped, Entries, Fds
    <3>3. i \notin G
      BY <3>1, <3>2 DEF ToServe
    <3>4. \A s \in Entries : s \in Nat
      BY EntriesFinite DEF Entries
    <3>5. \A s \in G : i' <= s
      BY <2>2, <3>1, <3>2, <3>3, <3>4 DEF ToServe
    <3>6. \A s \in Entries : i' <= s => i <= s
      BY <2>2, <3>2, <3>4
    <3>7. ToServe(G)'
      BY <2>2, <3>1, <3>5, <3>6 DEF ToServe, FdReady
    <3> QED BY <2>2, <3>7 DEF ScanRight
  <2> QED BY <2>1, <2>2
<1> QED BY <1>1, <1>2, <1>3

LoopRuns == which = "select" => LoopInv

\* LoopInv holds as long as one of these servers runs.
LEMMA LoopAlways == MCSpec => []LoopRuns
<1>1. MCInit => LoopRuns
  BY LoopInit DEF MCInit, LoopRuns
<1>2. LoopRuns /\ [MCNext]_MCvars => LoopRuns'
  <2> SUFFICES ASSUME LoopRuns, [MCNext]_MCvars, which = "select" PROVE LoopInv'
    BY OneRuns DEF LoopRuns
  <2>1. LoopInv
    BY DEF LoopRuns
  <2>2. CASE Looping!Next
    BY <2>1, <2>2, LoopClients, LoopSelect, LoopAccept, LoopServe, LoopSkip
       DEF Looping!Next, Looping!ServerStep, Looping!Conns, Few
  <2>3. CASE UNCHANGED MCvars
    <3>1. UNCHANGED <<arrived, pending, done, spc, nready, i, client, maxi, maxfd, allset, sready, sconn, data, left>>
      BY <2>3 DEF MCvars, vars, clients, selectVars
    <3>2. LoopTyped'
      BY <2>1, <3>1 DEF LoopInv, LoopTyped
    <3>3. LoopApart' /\ TableFull'
      BY <2>1, <3>1 DEF LoopInv, LoopApart, TableFull
    <3>4. ScanRight'
      BY <2>1, <3>1, ScanKept DEF LoopInv, FdReady
    <3> QED BY <3>2, <3>3, <3>4 DEF LoopInv
  <2> QED BY <2>2, <2>3, OneRuns, NamesApart
<1> QED BY <1>1, <1>2, PTL DEF MCSpec

(***************************************************************************)
(* For any size of client[] and any number of clients: while the server    *)
(* runs, every open connection has one entry, within what the loop looks   *)
(* at, select() is asked about exactly the descriptors that are open, and  *)
(* read() is never called on a client that has sent nothing, even though   *)
(* poll() leaves the revents of a new entry as they were                   *)
(* (tcpservselect01.c:35-81, tcpservpoll01.c:35-88).                       *)
(***************************************************************************)
THEOREM EntriesStayRight == MCSpec => []SlotsRight
<1>1. LoopRuns => SlotsRight
  <2> SUFFICES ASSUME LoopInv PROVE Looping!SlotsRight /\ Looping!NeverWaitsInRead
    BY DEF LoopRuns, SlotsRight
  <2> USE DEF LoopInv
  <2>1. Looping!NeverWaitsInRead
    BY DEF ScanRight, Looping!NeverWaitsInRead
  <2>2. ASSUME spc # "ended", NEW f \in Fds, sconn[f] # 0
        PROVE  Looping!Cardinality({s \in 0 .. maxi : client[s] = f}) = 1
    <3>1. PICK s \in Entries : client[s] = f
      BY <2>2 DEF TableFull
    <3>2. f # -1 /\ s <= maxi /\ maxi <= NCLIENT - 1
      BY <3>1, EntriesFinite DEF LoopApart, LoopTyped, Fds
    <3>3. \A t \in 0 .. maxi : t \in Entries
      BY <3>2, EntriesFinite DEF Entries, LoopTyped
    <3>4. s \in 0 .. maxi
      BY <3>2, EntriesFinite DEF Entries, LoopTyped
    <3>5. {t \in 0 .. maxi : client[t] = f} = {s}
      BY <3>1, <3>2, <3>3, <3>4 DEF LoopApart
    <3> QED BY <3>5, FS_Singleton, SameCardinality
  <2>3. \A s \in Entries : client[s] >= 0 => client[s] # -1
    BY EntriesFinite DEF LoopTyped, Fds
  <2>4. Looping!SlotsRight
    BY <2>2, <2>3 DEF Looping!SlotsRight, TableFull, LoopApart, Looping!Fds, Fds, Looping!Slots, Entries,
                      Looping!listenfd
  <2> QED BY <2>1, <2>4
<1> QED BY <1>1, LoopAlways, PTL

-----------------------------------------------------------------------------
(* Every server implements WorkerPool.  A step changes the pool's state in *)
(* one of five ways, said here of arrived, done and ServedBy.              *)

AllConns == 1 .. NCONN
PoolWorkers == PassFd!Children \cup Threads \cup Locked!Workers \cup Looping!Slots \cup 0 .. NCONN
stages == [c \in AllConns |-> Stage(c)]
servers == [c \in AllConns |-> ServedBy(c)]

Served == \A c \in AllConns : ServedBy(c)' = ServedBy(c)
ServedBut(c) == \A d \in AllConns : d # c => ServedBy(d)' = ServedBy(d)
Waits(c) == c \in 1 .. arrived /\ c \notin done /\ (c \in AllConns => ServedBy(c) = -1)

PoolStutter == UNCHANGED <<arrived, done>> /\ Served
PoolArrive == arrived' = arrived + 1 /\ UNCHANGED done /\ arrived + 1 \notin done /\ Served
PoolAbort(c) == UNCHANGED arrived /\ Waits(c) /\ done' = done \cup {c} /\ Served
PoolTake(c, w) ==
  /\ UNCHANGED <<arrived, done>> /\ Waits(c) /\ ServedBut(c)
  /\ c \in AllConns => w \in PoolWorkers /\ w # -1 /\ ServedBy(c)' = w
  /\ \A d \in AllConns : ServedBy(d) # w
PoolFinish(c) ==
  /\ UNCHANGED arrived /\ c \in 1 .. arrived /\ c \notin done /\ done' = done \cup {c}
  /\ c \in AllConns => ServedBy(c) # -1 /\ ServedBy(c)' = -1
  /\ ServedBut(c)

PoolStep ==
  PoolStutter \/ PoolArrive \/ \E c : PoolAbort(c) \/ PoolFinish(c) \/ \E w : PoolTake(c, w)

\* The steps of the pool, on its state as functions.
LEMMA PoolNext ==
  ASSUME arrived \in Nat, PoolStep
  PROVE  [Pool!Next]_<<stages, servers>>
<1> USE QueueAssumption
<1>s. /\ \A c \in AllConns : stages[c] = Stage(c) /\ servers[c] = ServedBy(c)
      /\ \A c \in AllConns : stages'[c] = Stage(c)' /\ servers'[c] = ServedBy(c)'
  BY DEF stages, servers
<1>f. /\ \A g : (\A c \in AllConns : stages'[c] = g[c]) /\ g = [c \in AllConns |-> g[c]] => stages' = g
      /\ \A g : (\A c \in AllConns : servers'[c] = g[c]) /\ g = [c \in AllConns |-> g[c]] => servers' = g
  BY DEF stages, servers
<1>t. stages = [c \in AllConns |-> stages[c]] /\ servers = [c \in AllConns |-> servers[c]]
  BY DEF stages, servers
<1>c. AllConns \subseteq Nat
  BY DEF AllConns
<1>1. ASSUME Served, \A c \in AllConns : Stage(c)' = Stage(c) PROVE UNCHANGED <<stages, servers>>
  BY <1>1, <1>s, <1>f, <1>t DEF Served
<1>2. CASE PoolStutter
  <2>1. \A c \in AllConns : Stage(c)' = Stage(c)
    BY <1>2 DEF PoolStutter, Served, Stage
  <2> QED BY <1>1, <1>2, <2>1 DEF PoolStutter
<1> DEFINE put(c, v) == [stages EXCEPT ![c] = v]
<1>p. ASSUME NEW c \in AllConns, NEW v, Stage(c)' = v, \A d \in AllConns : d # c => Stage(d)' = Stage(d)
      PROVE  stages' = put(c, v)
  <2>1. \A d \in AllConns : put(c, v)[d] = IF d = c THEN v ELSE stages[d]
    BY <1>t
  <2>2. put(c, v) = [d \in AllConns |-> put(c, v)[d]]
    BY <1>t
  <2> HIDE DEF put
  <2> QED BY <1>p, <1>s, <1>f, <2>1, <2>2
<1>w. ASSUME NEW c \in AllConns, NEW v, ServedBy(c)' = v, ServedBut(c)
      PROVE  servers' = [servers EXCEPT ![c] = v]
  <2> DEFINE g == [servers EXCEPT ![c] = v]
  <2>1. \A d \in AllConns : g[d] = IF d = c THEN v ELSE servers[d]
    BY <1>t
  <2>2. g = [d \in AllConns |-> g[d]]
    BY <1>t
  <2> HIDE DEF g
  <2>3. servers' = g
    BY <1>w, <1>s, <1>f, <2>1, <2>2 DEF ServedBut
  <2> QED BY <2>3 DEF g
<1>3. CASE PoolArrive
  <2>c. PICK c \in Nat : c = arrived + 1
    OBVIOUS
  <2>0. \A d \in AllConns : d # c => Stage(d)' = Stage(d)
    BY <1>3, <1>c, <2>c DEF PoolArrive, Served, Stage
  <2>1. CASE c \in AllConns
    <3>1. Stage(c) = "coming" /\ ServedBy(c) = -1 /\ Stage(c)' = "waiting"
      <4>1. ServedBy(c) = -1
        BY <2>c DEF ServedBy
      <4>2. ServedBy(c)' = -1
        BY <1>3, <2>1, <4>1 DEF PoolArrive, Served
      <4>3. Stage(c) = "coming"
        BY <2>c DEF Stage
      <4> QED BY <1>3, <2>c, <4>1, <4>2, <4>3 DEF PoolArrive, Stage
    <3>2. stages' = put(c, "waiting")
      BY <1>p, <2>0, <2>1, <3>1
    <3>3. servers' = servers
      BY <1>3, <1>s, <1>f, <1>t DEF PoolArrive, Served
    <3>4. stages[c] = "coming"
      BY <1>s, <2>1, <3>1
    <3> QED BY <2>1, <3>2, <3>3, <3>4 DEF Pool!Next, Pool!Arrive, stages, servers, AllConns
  <2>2. CASE c \notin AllConns
    BY <1>1, <1>3, <2>0, <2>2 DEF PoolArrive
  <2> QED BY <2>1, <2>2
<1>4. ASSUME NEW c, PoolAbort(c) PROVE [Pool!Next]_<<stages, servers>>
  <2>0. \A d \in AllConns : d # c => Stage(d)' = Stage(d)
    BY <1>4, <1>c DEF PoolAbort, Served, Stage
  <2>1. CASE c \in AllConns
    <3>1. Stage(c) = "waiting" /\ Stage(c)' = "done"
      BY <1>4, <2>1 DEF PoolAbort, Waits, Stage
    <3>2. stages' = put(c, "done")
      BY <1>p, <2>0, <2>1, <3>1
    <3>3. servers' = servers
      BY <1>4, <1>s, <1>f, <1>t DEF PoolAbort, Served
    <3>4. stages[c] = "waiting"
      BY <1>s, <2>1, <3>1
    <3> QED BY <2>1, <3>2, <3>3, <3>4 DEF Pool!Next, Pool!Abort, stages, servers, AllConns
  <2>2. CASE c \notin AllConns
    BY <1>1, <1>4, <2>0, <2>2 DEF PoolAbort
  <2> QED BY <2>1, <2>2
<1>5. ASSUME NEW c, PoolFinish(c) PROVE [Pool!Next]_<<stages, servers>>
  <2>0. \A d \in AllConns : d # c => Stage(d)' = Stage(d)
    BY <1>5, <1>c DEF PoolFinish, ServedBut, Stage
  <2>1. CASE c \in AllConns
    <3>1. Stage(c) = "serving" /\ Stage(c)' = "done" /\ ServedBy(c)' = -1
      BY <1>5, <2>1 DEF PoolFinish, Stage
    <3>2. stages' = put(c, "done")
      BY <1>p, <2>0, <2>1, <3>1
    <3>3. servers' = [servers EXCEPT ![c] = -1]
      BY <1>5, <1>w, <2>1, <3>1 DEF PoolFinish
    <3>4. stages[c] = "serving"
      BY <1>s, <2>1, <3>1
    <3> QED BY <2>1, <3>2, <3>3, <3>4 DEF Pool!Next, Pool!Finish, stages, servers, AllConns
  <2>2. CASE c \notin AllConns
    <3>1. Served
      BY <1>5, <2>2 DEF PoolFinish, ServedBut, Served
    <3> QED BY <1>1, <2>0, <2>2, <3>1
  <2> QED BY <2>1, <2>2
<1>6. ASSUME NEW c, NEW w, PoolTake(c, w) PROVE [Pool!Next]_<<stages, servers>>
  <2>0. \A d \in AllConns : d # c => Stage(d)' = Stage(d)
    BY <1>6, <1>c DEF PoolTake, ServedBut, Stage
  <2>1. CASE c \in AllConns
    <3>1. Stage(c) = "waiting" /\ Stage(c)' = "serving" /\ ServedBy(c)' = w /\ w \in PoolWorkers
      BY <1>6, <2>1 DEF PoolTake, Waits, Stage
    <3>2. stages' = put(c, "serving")
      BY <1>p, <2>0, <2>1, <3>1
    <3>3. servers' = [servers EXCEPT ![c] = w]
      BY <1>6, <1>w, <2>1, <3>1 DEF PoolTake
    <3>4. stages[c] = "waiting" /\ \A d \in AllConns : servers[d] # w
      BY <1>6, <1>s, <2>1, <3>1 DEF PoolTake
    <3> QED BY <2>1, <3>1, <3>2, <3>3, <3>4 DEF Pool!Next, Pool!Take, stages, servers, AllConns, PoolWorkers
  <2>2. CASE c \notin AllConns
    <3>1. Served
      BY <1>6, <2>2 DEF PoolTake, ServedBut, Served
    <3> QED BY <1>1, <2>0, <2>2, <3>1
  <2> QED BY <2>1, <2>2
<1> QED BY <1>2, <1>3, <1>4, <1>5, <1>6 DEF PoolStep

\* In the servers with a table of who has which connection, f before a step and
\* g after it, ServedBy reads that table.
Shows(W, f) ==
  \A c \in AllConns : /\ \A w \in W : f[w] = c => ServedBy(c) = w
                      /\ (\A w \in W : f[w] # c) => ServedBy(c) = -1
ShowsNext(W, g) ==
  \A c \in AllConns : /\ \A w \in W : g[w] = c => ServedBy(c)' = w
                      /\ (\A w \in W : g[w] # c) => ServedBy(c)' = -1

LEMMA ConnsPositive == \A c \in AllConns : c \in Nat /\ c # 0
BY QueueAssumption DEF AllConns

\* Nobody's connection changes: an arrival, a reset, or nothing at all.
LEMMA TableSame ==
  ASSUME NEW W, NEW f, NEW g, Shows(W, f), ShowsNext(W, g), \A w \in W : g[w] = f[w],
         arrived \in Nat, done \subseteq 1 .. arrived,
         \/ UNCHANGED <<arrived, done>>
         \/ arrived' = arrived + 1 /\ UNCHANGED done
         \/ /\ UNCHANGED arrived
            /\ \E c \in 1 .. arrived : c \notin done /\ done' = done \cup {c}
                                       /\ \A w \in W : f[w] # c
  PROVE  PoolStep
<1>1. Served
  BY DEF Served, Shows, ShowsNext
<1>2. CASE UNCHANGED <<arrived, done>>
  <2>1. PoolStutter
    BY <1>1, <1>2 DEF PoolStutter
  <2> QED BY <2>1 DEF PoolStep
<1>3. CASE arrived' = arrived + 1 /\ UNCHANGED done
  <2>1. PoolArrive
    BY <1>1, <1>3 DEF PoolArrive
  <2> QED BY <2>1 DEF PoolStep
<1>4. ASSUME NEW c \in 1 .. arrived, UNCHANGED arrived, c \notin done, done' = done \cup {c},
             \A w \in W : f[w] # c
      PROVE  PoolStep
  <2>1. PoolAbort(c)
    BY <1>1, <1>4 DEF PoolAbort, Waits, Shows
  <2> QED BY <2>1 DEF PoolStep
<1> QED BY <1>2, <1>3, <1>4

\* A worker with nothing to do takes a connection that nobody has.
LEMMA TableTake ==
  ASSUME NEW W, NEW f, NEW g, Shows(W, f), ShowsNext(W, g), W \subseteq PoolWorkers, -1 \notin W,
         UNCHANGED <<arrived, done>>,
         NEW c \in 1 .. arrived, c \notin done, NEW w \in W, f[w] = 0,
         \A v \in W : f[v] # c,
         \A v \in W : g[v] = IF v = w THEN c ELSE f[v]
  PROVE  PoolStep
<1>1. ServedBut(c)
  BY ConnsPositive DEF ServedBut, Shows, ShowsNext
<1>2. \A d \in AllConns : ServedBy(d) # w
  BY ConnsPositive DEF Shows
<1>3. CASE c \in AllConns
  <2>1. Waits(c) /\ ServedBy(c)' = w
    BY <1>3 DEF Waits, Shows, ShowsNext
  <2>2. PoolTake(c, w)
    BY <1>1, <1>2, <2>1 DEF PoolTake
  <2> QED BY <2>2 DEF PoolStep
<1>4. CASE c \notin AllConns
  <2>1. Served
    BY <1>1, <1>4 DEF Served, ServedBut
  <2>2. PoolStutter
    BY <2>1 DEF PoolStutter
  <2> QED BY <2>2 DEF PoolStep
<1> QED BY <1>3, <1>4

\* A worker closes its connection.
LEMMA TableFinish ==
  ASSUME NEW W, NEW f, NEW g, Shows(W, f), ShowsNext(W, g), -1 \notin W,
         UNCHANGED arrived,
         NEW w \in W, f[w] \in 1 .. arrived, f[w] \notin done, done' = done \cup {f[w]},
         \A v \in W : v # w => f[v] # f[w],
         \A v \in W : g[v] = IF v = w THEN 0 ELSE f[v]
  PROVE  PoolStep
<1>0. PICK c \in 1 .. arrived : c = f[w]
  OBVIOUS
<1>1. ServedBut(c)
  BY <1>0, ConnsPositive DEF ServedBut, Shows, ShowsNext
<1>2. c \in AllConns => ServedBy(c) = w /\ ServedBy(c)' = -1
  BY <1>0, ConnsPositive DEF Shows, ShowsNext
<1>3. PoolFinish(c)
  BY <1>0, <1>1, <1>2 DEF PoolFinish
<1> QED BY <1>3 DEF PoolStep

\* serv08: the thread that has a connection serves it.
QueueServed == which = "serv08" /\ QueueInv => Shows(Threads, tconn)

LEMMA QueueShown == QueueServed
<1> SUFFICES ASSUME which = "serv08", QueueInv, NEW c \in AllConns
             PROVE  /\ \A t \in Threads : tconn[t] = c => ServedBy(c) = t
                    /\ (\A t \in Threads : tconn[t] # c) => ServedBy(c) = -1
  BY DEF QueueServed, Shows
<1>0. c \in Nat /\ c # 0 /\ arrived \in Nat
  BY ConnsPositive DEF QueueInv, QueueTyped
<1>1. ServedBy(c) = IF c > arrived THEN -1 ELSE Worker(c)
  BY NamesApart DEF ServedBy
<1>2. \A t \in Threads : tconn[t] = c => ~(c > arrived)
  BY <1>0 DEF QueueInv, QueueTyped
<1>3. \A s, t \in Threads : tconn[s] = c /\ tconn[t] = c => s = t
  BY <1>0 DEF QueueInv, HandsApart
<1> QED BY <1>1, <1>2, <1>3 DEF Worker

LEMMA QueuePool ==
  ASSUME which = "serv08", which' = which, QueueInv, QueueInv', Next \/ UNCHANGED <<arrived, done, tconn>>
  PROVE  arrived \in Nat /\ PoolStep
<1>0. QueueServed /\ QueueServed'
  BY QueueShown, PTL
<1>s. PICK f, g : f = tconn /\ g = tconn' /\ Shows(Threads, f) /\ ShowsNext(Threads, g)
  BY <1>0 DEF QueueServed, Shows, ShowsNext
<1>a. /\ arrived \in Nat /\ arrived <= NCONN /\ done \subseteq 1 .. arrived
      /\ pending \subseteq 1 .. arrived /\ f \in [Threads -> 0 .. arrived]
  BY <1>s, QueueAssumption DEF QueueInv, QueueTyped
<1>t. Threads \subseteq PoolWorkers /\ -1 \notin Threads
  BY QueueAssumption DEF PoolWorkers, Threads
<1>1. CASE UNCHANGED tconn
  <2>1. \/ UNCHANGED <<arrived, done>>
        \/ arrived' = arrived + 1 /\ UNCHANGED done
        \/ UNCHANGED arrived /\ \E c \in pending : done' = done \cup {c}
    <3>1. CASE Arrive
      BY <3>1 DEF Arrive
    <3>2. CASE \E c \in pending : Abort(c)
      BY <3>2 DEF Abort
    <3>3. CASE Accept \/ MainLock \/ Put \/ Signal \/ UNCHANGED <<arrived, done, tconn>>
      BY <3>3 DEF Accept, MainLock, Put, Signal, clients
    <3>4. ASSUME NEW t \in Threads, Lock(t) \/ Wait(t) \/ Spurious(t) \/ Die(t) \/ Take(t)
          PROVE  UNCHANGED <<arrived, done>>
      BY <3>4 DEF Lock, Wait, Spurious, Die, Take, clients
    <3>5. ASSUME NEW t \in Threads, Finish(t) PROVE FALSE
      <4>1. tconn'[t] = 0 /\ tconn[t] # 0
        BY <3>5 DEF Finish, QueueInv, QueueTyped, InHand
      <4> QED BY <1>1, <4>1
    <3> QED BY <3>1, <3>2, <3>3, <3>4, <3>5 DEF Next
  <2>2. \A c \in pending : c \in 1 .. arrived /\ c \notin done /\ \A t \in Threads : f[t] # c
    BY <1>a, <1>s DEF QueueInv, HandsApart
  <2>3. g = f
    BY <1>1, <1>s
  <2> QED BY <1>a, <1>s, <2>1, <2>2, <2>3, TableSame
<1>2. ASSUME NEW t \in Threads, Take(t) PROVE PoolStep
  <2>0. PICK c : c = clifd[iget]
    OBVIOUS
  <2>1. iget \in Filled
    BY <1>2, RingMoves DEF Take, QueueInv, QueueTyped
  <2>2. c \in 1 .. arrived /\ c \notin done /\ \A u \in Threads : f[u] # c
    <3>1. clifd[iget] \in 0 .. arrived /\ clifd[iget] # 0
      BY <2>1 DEF QueueInv, QueueTyped, RingApart
    <3>2. clifd[iget] \notin done /\ \A u \in Threads : tconn[u] # clifd[iget]
      BY <2>1 DEF QueueInv, RingApart
    <3> QED BY <1>a, <1>s, <2>0, <3>1, <3>2
  <2>3. \A u \in Threads : g[u] = (IF u = t THEN c ELSE f[u])
    BY <1>2, <1>a, <1>s, <2>0 DEF Take
  <2>4. f[t] = 0 /\ UNCHANGED <<arrived, done>>
    BY <1>2, <1>s DEF Take, QueueInv, InHand, clients
  <2> QED BY <1>s, <1>t, <2>2, <2>3, <2>4, TableTake
<1>3. ASSUME NEW t \in Threads, Finish(t) PROVE PoolStep
  <2>1. f[t] # 0 /\ f[t] \in 1 .. arrived /\ f[t] \notin done
    BY <1>3, <1>a, <1>s DEF Finish, QueueInv, InHand, HandsApart
  <2>2. \A u \in Threads : g[u] = (IF u = t THEN 0 ELSE f[u]) /\ (u # t => f[u] # f[t])
    BY <1>3, <1>a, <1>s, <2>1 DEF Finish, QueueInv, HandsApart
  <2>3. done' = done \cup {f[t]} /\ UNCHANGED arrived
    BY <1>3, <1>s DEF Finish
  <2> QED BY <1>s, <1>t, <2>1, <2>2, <2>3, TableFinish
<1>4. CASE (\E c \in pending : Abort(c)) \/ Arrive \/ Accept \/ MainLock \/ Put \/ Signal
           \/ \E t \in Threads : Lock(t) \/ Wait(t) \/ Spurious(t) \/ Die(t)
  <2>1. UNCHANGED tconn
    BY <1>4 DEF Arrive, Abort, Accept, MainLock, Put, Signal, Lock, Wait, Spurious, Die, queueVars
  <2> QED BY <1>1, <2>1
<1> QED BY <1>1, <1>2, <1>3, <1>4, <1>a DEF Next

\* serv05: the child that has a connection serves it.
PassServed == which = "serv05" /\ PassInv => Shows(Children, conn)

LEMMA PassShown == PassServed
<1> SUFFICES ASSUME which = "serv05", PassInv, NEW c \in AllConns
             PROVE  /\ \A w \in Children : conn[w] = c => ServedBy(c) = w
                    /\ (\A w \in Children : conn[w] # c) => ServedBy(c) = -1
  BY DEF PassServed, Shows
<1>0. c \in Nat /\ c # 0 /\ arrived \in Nat
  BY ConnsPositive DEF PassInv, PassTyped
<1>1. ServedBy(c) = IF c > arrived THEN -1 ELSE PassFd!Worker(c)
  BY NamesApart DEF ServedBy
<1>2. \A w \in Children : conn[w] = c => ~(c > arrived)
  BY <1>0 DEF PassInv, PassTyped
<1>3. \A v, w \in Children : conn[v] = c /\ conn[w] = c => v = w
  BY <1>0 DEF PassInv, PassApart
<1> QED BY <1>1, <1>2, <1>3 DEF PassFd!Worker, Children

LEMMA PassPool ==
  ASSUME which = "serv05", which' = which, PassInv, PassInv', PassFd!Next \/ UNCHANGED <<arrived, done, conn>>
  PROVE  arrived \in Nat /\ PoolStep
<1>0. PassServed /\ PassServed'
  BY PassShown, PTL
<1>s. PICK f, g : f = conn /\ g = conn' /\ Shows(Children, f) /\ ShowsNext(Children, g)
  BY <1>0 DEF PassServed, Shows, ShowsNext
<1>a. /\ arrived \in Nat /\ done \subseteq 1 .. arrived
      /\ pending \subseteq 1 .. arrived /\ f \in [Children -> 0 .. arrived]
  BY <1>s DEF PassInv, PassTyped
<1>t. Children \subseteq PoolWorkers /\ -1 \notin Children
  BY ServersAssumption DEF PoolWorkers, Children, PassFd!Children
<1> USE DEF PassFd!clients, PassFd!passVars, PassFd!parent
<1>1. CASE /\ UNCHANGED conn
           /\ \/ UNCHANGED <<arrived, done>>
              \/ arrived' = arrived + 1 /\ UNCHANGED done
              \/ UNCHANGED arrived /\ \E c \in pending : done' = done \cup {c}
  <2>1. \A c \in pending : c \in 1 .. arrived /\ c \notin done /\ \A w \in Children : f[w] # c
    BY <1>a, <1>s DEF PassInv, PassApart
  <2>2. g = f
    BY <1>1, <1>s
  <2> QED BY <1>1, <1>a, <1>s, <2>1, <2>2, TableSame
<1>2. CASE PassFd!Arrive \/ \E c \in pending : PassFd!Abort(c)
  BY <1>1, <1>2 DEF PassFd!Arrive, PassFd!Abort
<1>3. CASE PassFd!Select \/ PassFd!Accept \/ PassFd!Scan \/ \E w \in Children : PassFd!Ready(w)
  BY <1>1, <1>3 DEF PassFd!Select, PassFd!Accept, PassFd!Scan, PassFd!Ready
<1>4. ASSUME NEW w \in Children, PassFd!ReadFd(w) PROVE PoolStep
  <2>0. PICK c : c = passed[w]
    OBVIOUS
  <2>1. c \in 1 .. arrived /\ c \notin done /\ \A v \in Children : f[v] # c
    BY <1>4, <1>s, <2>0 DEF PassFd!ReadFd, PassInv, PassApart, PassTyped
  <2>2. \A v \in Children : g[v] = (IF v = w THEN c ELSE f[v])
    BY <1>4, <1>a, <1>s, <2>0 DEF PassFd!ReadFd
  <2>3. f[w] = 0 /\ UNCHANGED <<arrived, done>>
    BY <1>4, <1>s DEF PassFd!ReadFd, PassInv, PassApart
  <2> QED BY <1>s, <1>t, <2>1, <2>2, <2>3, TableTake
<1>5. ASSUME NEW w \in Children, PassFd!Finish(w) \/ PassFd!Die(w) PROVE PoolStep
  <2>1. f[w] # 0 /\ f[w] \in 1 .. arrived /\ f[w] \notin done
    BY <1>5, <1>a, <1>s DEF PassFd!Finish, PassFd!Die, PassInv, PassApart
  <2>2. \A v \in Children : g[v] = (IF v = w THEN 0 ELSE f[v]) /\ (v # w => f[v] # f[w])
    BY <1>5, <1>a, <1>s, <2>1 DEF PassFd!Finish, PassFd!Die, PassInv, PassApart
  <2>3. done' = done \cup {f[w]} /\ UNCHANGED arrived
    BY <1>5, <1>s DEF PassFd!Finish, PassFd!Die
  <2> QED BY <1>s, <1>t, <2>1, <2>2, <2>3, TableFinish
<1>6. CASE UNCHANGED <<arrived, done, conn>>
  BY <1>1, <1>6
<1> QED BY <1>2, <1>3, <1>4, <1>5, <1>6, <1>a DEF PassFd!Next, Children

\* serv02 to serv04, serv07 and serv09: the worker that has a connection serves
\* it.
Acceptors == Locked!Workers
LockServed == which \in Locked!Servers /\ LockProofs!IInv => Shows(Acceptors, fd)

LEMMA LockFacts ==
  ASSUME LockProofs!IInv
  PROVE  /\ arrived \in Nat /\ pending \subseteq 1 .. arrived /\ done \subseteq 1 .. arrived
         /\ fd \in [Acceptors -> 0 .. arrived] /\ pending \cap done = {}
         /\ \A w \in Acceptors : /\ fd[w] \notin pending \cup done
                                 /\ wpc[w] \in {"unlock", "serve"} => fd[w] # 0
                                 /\ fd[w] # 0 => wpc[w] \in {"unlock", "serve", "dead"}
         /\ \A v, w \in Acceptors : fd[v] = fd[w] /\ v # w => fd[v] = 0
<1>0. LockProofs!Workers = Acceptors
  BY DEF LockProofs!Workers, Acceptors, Locked!Workers
<1> QED BY <1>0 DEF LockProofs!IInv, LockProofs!TypeOK, LockProofs!OnePlace

LEMMA LockShown == LockServed
<1> SUFFICES ASSUME which \in Locked!Servers, LockProofs!IInv, NEW c \in AllConns
             PROVE  /\ \A w \in Acceptors : fd[w] = c => ServedBy(c) = w
                    /\ (\A w \in Acceptors : fd[w] # c) => ServedBy(c) = -1
  BY DEF LockServed, Shows
<1>0. c \in Nat /\ c # 0 /\ arrived \in Nat
  BY ConnsPositive, LockFacts
<1>1. ServedBy(c) = IF c > arrived THEN -1 ELSE Locked!Worker(c)
  BY NamesApart DEF ServedBy
<1>2. \A w \in Acceptors : fd[w] = c => ~(c > arrived)
  BY <1>0, LockFacts
<1>3. \A v, w \in Acceptors : fd[v] = c /\ fd[w] = c => v = w
  BY <1>0, LockFacts
<1> QED BY <1>1, <1>2, <1>3 DEF Locked!Worker, Locked!WorkerOf, Acceptors

LEMMA LockPool ==
  ASSUME which \in Locked!Servers, which' = which, LockProofs!IInv, LockProofs!IInv',
         Locked!Next \/ UNCHANGED <<arrived, done, fd>>
  PROVE  arrived \in Nat /\ PoolStep
<1>0. LockServed /\ LockServed'
  BY LockShown, PTL
<1>s. PICK f, g : f = fd /\ g = fd' /\ Shows(Acceptors, f) /\ ShowsNext(Acceptors, g)
  BY <1>0 DEF LockServed, Shows, ShowsNext, Locked!Servers
<1>a. /\ arrived \in Nat /\ done \subseteq 1 .. arrived
      /\ pending \subseteq 1 .. arrived /\ f \in [Acceptors -> 0 .. arrived]
  BY <1>s, LockFacts
<1>t. Acceptors \subseteq PoolWorkers /\ -1 \notin Acceptors
  BY ServersAssumption DEF PoolWorkers, Acceptors, Locked!Workers
<1> USE DEF Locked!clients, Locked!lockVars
<1>1. CASE /\ UNCHANGED fd
           /\ \/ UNCHANGED <<arrived, done>>
              \/ arrived' = arrived + 1 /\ UNCHANGED done
              \/ UNCHANGED arrived /\ \E c \in pending : done' = done \cup {c}
  <2>1. \A c \in pending : c \in 1 .. arrived /\ c \notin done /\ \A w \in Acceptors : f[w] # c
    BY <1>a, <1>s, LockFacts
  <2>2. g = f
    BY <1>1, <1>s
  <2> QED BY <1>1, <1>a, <1>s, <2>1, <2>2, TableSame
<1>2. CASE Locked!Arrive \/ \E c \in pending : Locked!Abort(c)
  BY <1>1, <1>2 DEF Locked!Arrive, Locked!Abort
<1>3. CASE \E w \in Acceptors : Locked!Wait(w) \/ Locked!Release(w)
  BY <1>1, <1>3 DEF Locked!Wait, Locked!Release
<1>4. ASSUME NEW w \in Acceptors, Locked!Accept(w) PROVE PoolStep
  <2>0. PICK c : c = Locked!Min(pending)
    OBVIOUS
  <2>p. c \in pending
    <3>1. pending \subseteq Nat /\ pending # {}
      BY <1>4, <1>a DEF Locked!Accept
    <3>2. Min(pending) \in pending
      BY <3>1, MinIn
    <3> QED BY <2>0, <3>2 DEF Locked!Min, Min
  <2>1. c \in 1 .. arrived /\ c \notin done /\ \A v \in Acceptors : f[v] # c
    BY <1>a, <1>s, <2>p, LockFacts
  <2>2. \A v \in Acceptors : g[v] = (IF v = w THEN c ELSE f[v])
    BY <1>4, <1>a, <1>s, <2>0 DEF Locked!Accept
  <2>3. f[w] = 0 /\ UNCHANGED <<arrived, done>>
    BY <1>4, <1>s, LockFacts DEF Locked!Accept
  <2> QED BY <1>s, <1>t, <2>1, <2>2, <2>3, TableTake
<1>5. ASSUME NEW w \in Acceptors, fd' = [fd EXCEPT ![w] = 0], done' = done \cup ({fd[w]} \ {0}), UNCHANGED arrived
      PROVE  PoolStep
  <2>2. \A v \in Acceptors : g[v] = (IF v = w THEN 0 ELSE f[v])
    BY <1>5, <1>a, <1>s
  <2>3. CASE f[w] = 0
    <3>1. UNCHANGED done /\ \A v \in Acceptors : g[v] = f[v]
      BY <1>5, <1>s, <2>2, <2>3
    <3> QED BY <1>5, <1>a, <1>s, <3>1, TableSame
  <2>4. CASE f[w] # 0
    <3>1. f[w] \in 1 .. arrived /\ f[w] \notin done /\ \A v \in Acceptors : v # w => f[v] # f[w]
      BY <1>a, <1>s, <2>4, LockFacts
    <3>2. done' = done \cup {f[w]}
      BY <1>5, <1>s, <2>4
    <3>3. UNCHANGED arrived
      BY <1>5
    <3> QED BY <1>s, <1>t, <2>2, <3>1, <3>2, <3>3, TableFinish
  <2> QED BY <2>3, <2>4
<1>6. ASSUME NEW w \in Acceptors, Locked!Finish(w) \/ Locked!Die(w) \/ Locked!Kill(w) PROVE PoolStep
  <2>1. CASE Locked!Finish(w)
    <3>1. fd[w] # 0
      BY <2>1, LockFacts DEF Locked!Finish
    <3> QED BY <1>5, <2>1, <3>1 DEF Locked!Finish
  <2>2. CASE Locked!Die(w)
    <3>1. fd[w] # 0
      BY <2>2, LockFacts DEF Locked!Die
    <3>2. CASE Locked!Threaded
      BY <1>1, <2>2, <3>2 DEF Locked!Die
    <3>3. CASE ~Locked!Threaded
      BY <1>5, <2>2, <3>1, <3>3 DEF Locked!Die
    <3> QED BY <3>2, <3>3
  <2>3. CASE Locked!Kill(w)
    BY <1>5, <2>3 DEF Locked!Kill
  <2> QED BY <1>6, <2>1, <2>2, <2>3
<1>7. CASE UNCHANGED <<arrived, done, fd>>
  BY <1>1, <1>7
<1> QED BY <1>2, <1>3, <1>4, <1>6, <1>7, <1>a DEF Locked!Next, Locked!WorkerStep, Acceptors

\* The ways in which a step may change the pool.
LEMMA PoolWays ==
  /\ PoolStutter => PoolStep
  /\ PoolArrive => PoolStep
  /\ \A c : PoolAbort(c) => PoolStep
  /\ \A c : PoolFinish(c) => PoolStep
  /\ \A c, w : PoolTake(c, w) => PoolStep
BY Zenon DEF PoolStep

\* The servers that fork: who has connection c, for c up to the last arrival.
ForkServed ==
  which = "fork" /\ ForkInv =>
    \A c \in AllConns :
      ServedBy(c) = IF c > arrived THEN -1 ELSE IF open[c] = {} THEN -1
                    ELSE IF srv.per = "self" THEN 0 ELSE IF kid[c] # "none" THEN c ELSE -1

LEMMA ForkShown == ForkServed
<1> SUFFICES ASSUME which = "fork", ForkInv, NEW c \in AllConns, ~(c > arrived)
             PROVE  ServedBy(c) = IF open[c] = {} THEN -1
                    ELSE IF srv.per = "self" THEN 0 ELSE IF kid[c] # "none" THEN c ELSE -1
  BY NamesApart DEF ForkServed, ServedBy
<1>0. c \in Kids /\ c # 0
  <2>1. arrived \in 0 .. NFEW
    BY DEF ForkInv, ForkTyped
  <2>2. c \in Nat /\ c # 0
    BY ConnsPositive
  <2> QED BY <2>1, <2>2, ServersAssumption DEF Kids
<1>1. ServedBy(c) = Forking!Worker(c)
  BY NamesApart DEF ServedBy
<1>2. \A k \in Kids : kfd[k] = c <=> k = c /\ kid[c] # "none"
  BY <1>0 DEF ForkInv, ForkApart
<1>3. kid[c] # "none" => \E k \in Kids : kfd[k] = c
  BY <1>0, <1>2
<1>4. (\E k \in Kids : kfd[k] = c) => (CHOOSE k \in Kids : kfd[k] = c) = c
  BY <1>2
<1> QED BY <1>1, <1>2, <1>3, <1>4 DEF Forking!Worker, Forking!Kids, Kids

LEMMA ForkPool ==
  ASSUME which = "fork", which' = which, ForkInv, ForkInv',
         Forking!Next \/ UNCHANGED <<arrived, done, open, kid, srv>>
  PROVE  arrived \in Nat /\ PoolStep
<1>0. ForkServed /\ ForkServed'
  BY ForkShown, PTL
<1>s. \A c \in AllConns :
        /\ ServedBy(c) = IF c > arrived THEN -1 ELSE IF open[c] = {} THEN -1
                         ELSE IF srv.per = "self" THEN 0 ELSE IF kid[c] # "none" THEN c ELSE -1
        /\ ServedBy(c)' = IF c > arrived' THEN -1 ELSE IF open'[c] = {} THEN -1
                          ELSE IF srv'.per = "self" THEN 0 ELSE IF kid'[c] # "none" THEN c ELSE -1
  BY <1>0 DEF ForkServed
<1>a. /\ arrived \in Nat /\ done \subseteq 1 .. arrived /\ pending \subseteq 1 .. arrived
      /\ \A c \in AllConns : c \in Nat /\ c # 0 /\ c # -1 /\ (~(c > arrived) => c \in Kids)
      /\ \A c \in 1 .. arrived : c \in Kids /\ c # 0
  <2>1. arrived \in 0 .. NFEW /\ pending \subseteq 1 .. arrived /\ done \subseteq 1 .. arrived
    BY DEF ForkInv, ForkTyped
  <2>2. \A c \in AllConns : c \in Nat /\ c # 0
    BY ConnsPositive
  <2>3. \A c \in 1 .. arrived : c \in Kids /\ c # 0
    BY <2>1, ServersAssumption DEF Kids
  <2>4. \A c \in AllConns : c # -1 /\ (~(c > arrived) => c \in Kids)
    BY <2>1, <2>2, ServersAssumption DEF Kids
  <2> QED BY <2>1, <2>2, <2>3, <2>4
<1>b. /\ kid \in [Kids -> {"none", "run", "zombie", "gone"}]
      /\ open \in [Kids -> SUBSET {"parent", "child"}]
  BY DEF ForkInv, ForkTyped
<1> USE DEF Forking!clients, Forking!kidVars, Forking!sigVars, Forking!udpVars, Forking!forkVars
<1>1. CASE /\ UNCHANGED <<srv, open>> /\ \A c \in Kids : kid'[c] = "none" <=> kid[c] = "none"
           /\ UNCHANGED <<arrived, done>>
  <2>1. Served
    BY <1>1, <1>a, <1>s DEF Served
  <2>2. PoolStutter
    BY <1>1, <2>1 DEF PoolStutter
  <2> QED BY <1>a, <2>2, PoolWays
<1>2. CASE Forking!Arrive
  <2>1. \A c \in Kids : c > arrived => open[c] = {}
    BY DEF ForkInv, ForkApart
  <2>2. arrived + 1 \in Kids
    BY <1>2, <1>a, ServersAssumption DEF Forking!Arrive, Kids
  <2>3. Served
    BY <1>2, <1>a, <1>s, <2>1, <2>2 DEF Forking!Arrive, Served
  <2>4. PoolArrive
    BY <1>2, <1>a, <2>3 DEF Forking!Arrive, PoolArrive
  <2> QED BY <1>a, <2>4, PoolWays
<1>3. ASSUME NEW c \in pending, Forking!Abort(c) PROVE PoolStep
  <2>1. c \in 1 .. arrived /\ c \notin done /\ open[c] = {}
    BY <1>a DEF ForkInv, ForkApart
  <2>2. Served
    BY <1>3, <1>s DEF Forking!Abort, Served
  <2>3. PoolAbort(c)
    BY <1>3, <1>s, <2>1, <2>2 DEF Forking!Abort, PoolAbort, Waits
  <2> QED BY <2>3, PoolWays
<1>4. CASE Forking!Datagram \/ Forking!Select \/ Forking!Udp \/ Forking!Deliver
           \/ (\E k \in Kids : Forking!ThreadFails(k)) \/ UNCHANGED <<arrived, done, open, kid, srv>>
  <2>1. UNCHANGED <<arrived, done, open, kid, srv>>
    BY <1>4 DEF Forking!Datagram, Forking!Select, Forking!Udp, Forking!Deliver, Forking!ThreadFails
  <2> QED BY <1>1, <2>1
<1>5. CASE Forking!Waitpid \/ Forking!Wait
  <2>1. UNCHANGED <<arrived, done, open, srv>>
    BY <1>5 DEF Forking!Waitpid, Forking!Wait
  <2>2. UNCHANGED kid \/ \E k \in Forking!Zombies : kid' = [kid EXCEPT ![k] = "gone"]
    BY <1>5 DEF Forking!Waitpid, Forking!Wait
  <2>3. \A c \in Kids : kid'[c] = "none" <=> kid[c] = "none"
    BY <1>b, <2>2 DEF Forking!Zombies
  <2> QED BY <1>1, <2>1, <2>3
<1>6. CASE Forking!Accept
  <2>0. PICK c : c = Forking!Min(pending)
    OBVIOUS
  <2>1. c \in pending
    <3>1. pending \subseteq Nat /\ pending # {}
      BY <1>6, <1>a DEF Forking!Accept
    <3>2. Min(pending) \in pending
      BY <3>1, MinIn
    <3> QED BY <2>0, <3>2 DEF Forking!Min, Min
  <2>2. /\ open' = [open EXCEPT ![c] = {"parent"}] /\ UNCHANGED <<arrived, done, srv, kid>>
        /\ ppc = "accept"
    BY <1>6, <2>0 DEF Forking!Accept
  <2>3. c \in 1 .. arrived /\ c \notin done /\ open[c] = {} /\ kid[c] = "none" /\ c \in Kids
    BY <1>a, <2>1 DEF ForkInv, ForkApart
  <2>4. \A d \in Kids : open'[d] = IF d = c THEN {"parent"} ELSE open[d]
    BY <1>b, <2>2, <2>3
  <2>5. CASE srv.per = "self"
    <3>1. \A d \in Kids : open[d] = {}
      BY <2>2, <2>5 DEF ForkInv, ParentRight
    <3>2. ServedBut(c)
      BY <1>a, <1>s, <2>2, <2>4 DEF ServedBut
    <3>3. \A d \in AllConns : ServedBy(d) = -1
      BY <1>a, <1>s, <3>1
    <3>4. c \in AllConns => ServedBy(c)' = 0
      BY <1>a, <1>s, <2>2, <2>3, <2>4, <2>5
    <3>5. 0 \in PoolWorkers
      BY QueueAssumption DEF PoolWorkers
    <3>6. PoolTake(c, 0)
      BY <2>2, <2>3, <3>2, <3>3, <3>4, <3>5 DEF PoolTake, Waits
    <3> QED BY <1>a, <3>6, PoolWays
  <2>6. CASE srv.per # "self"
    <3>1. Served
      BY <1>a, <1>s, <2>2, <2>3, <2>4, <2>6 DEF Served
    <3>2. PoolStutter
      BY <2>2, <3>1 DEF PoolStutter
    <3> QED BY <1>a, <3>2, PoolWays
  <2> QED BY <2>5, <2>6
<1>7. CASE Forking!Fork
  <2>0. PICK c : c = pfd
    OBVIOUS
  <2>1. c \in 1 .. arrived /\ c \in Kids /\ open[c] = {"parent"} /\ kid[c] = "none"
    BY <1>7, <1>a, <2>0 DEF Forking!Fork, ForkInv, ParentRight
  <2>2. c \notin done /\ srv.per # "self"
    BY <1>7, <2>1 DEF Forking!Fork, ForkInv, ParentRight, ForkApart
  <2>3. UNCHANGED <<arrived, done, srv>> /\ \A d \in Kids : kid'[d] = IF d = c THEN "run" ELSE kid[d]
    BY <1>7, <1>b, <2>0, <2>1 DEF Forking!Fork
  <2>4. \A d \in Kids : open'[d] = {} <=> open[d] = {}
    <3>1. CASE srv.per = "process"
      BY <1>7, <1>b, <2>0, <2>1, <3>1 DEF Forking!Fork
    <3>2. CASE srv.per # "process"
      BY <1>7, <3>2 DEF Forking!Fork
    <3> QED BY <3>1, <3>2
  <2>5. ServedBut(c)
    BY <1>a, <1>s, <2>3, <2>4 DEF ServedBut
  <2>6. \A d \in AllConns : ServedBy(d) # c
    BY <1>a, <1>s, <2>1, <2>2
  <2>7. Waits(c) /\ (c \in AllConns => ServedBy(c)' = c)
    BY <1>a, <1>s, <2>1, <2>2, <2>3, <2>4 DEF Waits
  <2>8. c \in AllConns => c \in PoolWorkers /\ c # -1
    BY <1>a, QueueAssumption DEF PoolWorkers, AllConns
  <2>9. PoolTake(c, c)
    BY <2>3, <2>5, <2>6, <2>7, <2>8 DEF PoolTake
  <2> QED BY <1>a, <2>9, PoolWays
<1> DEFINE Shut(c, rest) ==
      /\ c \in 1 .. arrived /\ c \in Kids /\ open[c] # {} /\ UNCHANGED <<arrived, srv>>
      /\ \A d \in Kids : kid'[d] = "none" <=> kid[d] = "none"
      /\ \A d \in Kids : open'[d] = IF d = c THEN rest ELSE open[d]
      /\ done' = IF rest = {} THEN done \cup {c} ELSE done
\* A connection that somebody still has open goes on, one that nobody has open
\* is done: served, or given up before that.
<1>8. ASSUME NEW c, NEW rest, Shut(c, rest) PROVE PoolStep
  <2>1. ServedBut(c) /\ c \notin done
    BY <1>8, <1>a, <1>s DEF ServedBut, ForkInv, ForkApart
  <2>2. CASE rest # {}
    <3>1. Served
      BY <1>8, <1>a, <1>s, <2>2 DEF Served
    <3>2. PoolStutter
      BY <1>8, <2>2, <3>1 DEF PoolStutter
    <3> QED BY <3>2, PoolWays
  <2>3. CASE rest = {} /\ (c \in AllConns => ServedBy(c) # -1)
    <3>1. c \in AllConns => ServedBy(c)' = -1
      BY <1>8, <1>a, <1>s, <2>3
    <3>2. PoolFinish(c)
      BY <1>8, <2>1, <2>3, <3>1 DEF PoolFinish
    <3> QED BY <3>2, PoolWays
  <2>4. CASE rest = {} /\ c \in AllConns /\ ServedBy(c) = -1
    <3>1. ServedBy(c)' = -1
      BY <1>8, <1>a, <1>s, <2>4
    <3>2. Served
      BY <2>1, <2>4, <3>1 DEF Served, ServedBut
    <3>3. PoolAbort(c)
      BY <1>8, <2>1, <2>4, <3>2 DEF PoolAbort, Waits
    <3> QED BY <3>3, PoolWays
  <2> QED BY <2>2, <2>3, <2>4
<1> HIDE DEF Shut
<1>9. CASE Forking!Close \/ Forking!ForkFails \/ Forking!Serve
  <2>0. PICK c : c = pfd
    OBVIOUS
  <2>r. PICK rest : rest = IF ppc = "close" THEN open[pfd] \ {"parent"} ELSE {}
    OBVIOUS
  <2>1. c \in 1 .. arrived /\ c \in Kids /\ open[c] # {}
    BY <1>9, <1>a, <2>0 DEF Forking!Close, Forking!ForkFails, Forking!Serve, ForkInv, ParentRight
  <2>2. open' = [open EXCEPT ![c] = rest] /\ UNCHANGED <<arrived, srv, kid>> /\ Forking!Closed(c)
    BY <1>9, <2>0, <2>r DEF Forking!Close, Forking!ForkFails, Forking!Serve
  <2>3. \A d \in Kids : open'[d] = IF d = c THEN rest ELSE open[d]
    BY <1>b, <2>1, <2>2
  <2>4. done' = IF rest = {} THEN done \cup {c} ELSE done
    BY <2>1, <2>2, <2>3 DEF Forking!Closed
  <2>5. Shut(c, rest)
    BY <2>1, <2>2, <2>3, <2>4 DEF Shut
  <2> QED BY <1>a, <1>8, <2>5
<1>10. ASSUME NEW k \in Kids, Forking!Finish(k) PROVE PoolStep
  <2>r. PICK rest : rest = open[k] \ {IF srv.per = "process" THEN "child" ELSE "parent"}
    OBVIOUS
  <2>1. kid[k] = "run" /\ kfd[k] = k /\ k \in 1 .. arrived /\ open[k] # {}
    BY <1>10 DEF Forking!Finish, ForkInv, ForkApart, ForkTyped, Kids
  <2>2. /\ open' = [open EXCEPT ![k] = rest] /\ UNCHANGED <<arrived, srv>> /\ Forking!Closed(k)
        /\ kid' = [kid EXCEPT ![k] = IF srv.per = "process" THEN "zombie" ELSE "gone"]
    BY <1>10, <2>r, <2>1 DEF Forking!Finish
  <2>3. /\ \A d \in Kids : open'[d] = IF d = k THEN rest ELSE open[d]
        /\ \A d \in Kids : kid'[d] = "none" <=> kid[d] = "none"
    BY <1>b, <2>1, <2>2
  <2>4. done' = IF rest = {} THEN done \cup {k} ELSE done
    BY <2>2, <2>3 DEF Forking!Closed
  <2>5. Shut(k, rest)
    BY <2>1, <2>2, <2>3, <2>4 DEF Shut
  <2> QED BY <1>8, <2>5
<1> QED BY <1>2, <1>3, <1>4, <1>5, <1>6, <1>7, <1>9, <1>10, <1>a
        DEF Forking!Next, Forking!ParentStep, Forking!Kids, Kids

\* The servers with one loop: an entry of the table serves its connection.
EntryConn == [s \in Entries |-> IF client[s] = -1 THEN 0 ELSE sconn[client[s]]]
LoopServed == which = "select" /\ LoopInv => Shows(Entries, EntryConn)

LEMMA EntryFacts ==
  ASSUME LoopInv
  PROVE  /\ arrived \in Nat /\ pending \subseteq 1 .. arrived /\ done \subseteq 1 .. arrived
         /\ pending \cap done = {}
         /\ EntryConn \in [Entries -> 0 .. arrived]
         /\ \A s \in Entries : /\ EntryConn[s] \notin pending \cup done
                               /\ client[s] = -1 \/ client[s] \in Fds
                               /\ client[s] = -1 <=> EntryConn[s] = 0
                               /\ client[s] # -1 => EntryConn[s] = sconn[client[s]]
         /\ \A s, t \in Entries : EntryConn[s] = EntryConn[t] /\ s # t => EntryConn[s] = 0
<1> USE DEF LoopInv
<1>1. /\ arrived \in Nat /\ pending \subseteq 1 .. arrived /\ done \subseteq 1 .. arrived
      /\ pending \cap done = {} /\ 0 \notin pending \cup done
  BY EntriesFinite DEF LoopTyped, LoopApart
<1>2. \A s \in Entries : client[s] = -1 \/ client[s] \in Fds
  BY DEF LoopTyped
<1>3. \A s \in Entries : EntryConn[s] = IF client[s] = -1 THEN 0 ELSE sconn[client[s]]
  BY DEF EntryConn
<1>4. \A f \in Fds : sconn[f] \in 0 .. arrived /\ sconn[f] \notin pending \cup done
  BY DEF LoopTyped, LoopApart
<1>5. EntryConn \in [Entries -> 0 .. arrived]
  BY <1>1, <1>2, <1>4 DEF EntryConn
<1>6. \A s \in Entries : client[s] # -1 => sconn[client[s]] # 0
  BY DEF LoopApart
<1>7. \A s \in Entries : EntryConn[s] \notin pending \cup done /\ (client[s] = -1 <=> EntryConn[s] = 0)
  BY <1>1, <1>2, <1>3, <1>4, <1>6
<1>8. ASSUME NEW s \in Entries, NEW t \in Entries, EntryConn[s] = EntryConn[t], s # t PROVE EntryConn[s] = 0
  BY <1>2, <1>3, <1>8 DEF LoopApart
<1> QED BY <1>1, <1>2, <1>3, <1>5, <1>7, <1>8

LEMMA LoopShown == LoopServed
<1> SUFFICES ASSUME which = "select", LoopInv, NEW c \in AllConns
             PROVE  /\ \A s \in Entries : EntryConn[s] = c => ServedBy(c) = s
                    /\ (\A s \in Entries : EntryConn[s] # c) => ServedBy(c) = -1
  BY DEF LoopServed, Shows
<1>0. c \in Nat /\ c # 0 /\ arrived \in Nat
  BY ConnsPositive, EntryFacts
<1>1. ServedBy(c) = IF c > arrived THEN -1 ELSE Looping!Worker(c)
  BY DEF ServedBy
<1>2. \A s \in Entries : EntryConn[s] = c => ~(c > arrived)
  BY <1>0, EntryFacts
<1>3. \A s, t \in Entries : EntryConn[s] = c /\ EntryConn[t] = c => s = t
  BY <1>0, EntryFacts
<1>4. \A s \in Entries : client[s] > 0 /\ sconn[client[s]] = c <=> EntryConn[s] = c
  <2>1. \A s \in Entries : client[s] > 0 <=> client[s] # -1
    BY EntryFacts, EntriesFinite DEF Fds
  <2> QED BY <1>0, <2>1, EntryFacts
<1>5. Looping!Slots = Entries
  BY DEF Looping!Slots, Entries
<1> QED BY <1>1, <1>2, <1>3, <1>4, <1>5 DEF Looping!Worker

LEMMA LoopPool ==
  ASSUME which = "select", which' = which, LoopInv, LoopInv',
         Looping!Next \/ UNCHANGED <<arrived, done, client, sconn>>
  PROVE  arrived \in Nat /\ PoolStep
<1>0. LoopServed /\ LoopServed'
  BY LoopShown, PTL
<1>s. PICK f, g : f = EntryConn /\ g = EntryConn' /\ Shows(Entries, f) /\ ShowsNext(Entries, g)
  BY <1>0 DEF LoopServed, Shows, ShowsNext
<1>a. /\ arrived \in Nat /\ done \subseteq 1 .. arrived
      /\ pending \subseteq 1 .. arrived /\ f \in [Entries -> 0 .. arrived]
  BY <1>s, EntryFacts
<1>t. Entries \subseteq PoolWorkers /\ -1 \notin Entries
  BY EntriesFinite DEF PoolWorkers, Entries, Looping!Slots
<1>e. Looping!Slots = Entries /\ Looping!Fds = Fds
  BY DEF Looping!Slots, Entries, Looping!Fds, Fds
<1>g. \A s \in Entries : g[s] = IF client'[s] = -1 THEN 0 ELSE sconn'[client'[s]]
  BY <1>s DEF EntryConn
<1>1. CASE /\ UNCHANGED <<client, sconn>>
           /\ \/ UNCHANGED <<arrived, done>>
              \/ arrived' = arrived + 1 /\ UNCHANGED done
              \/ UNCHANGED arrived /\ \E c \in pending : done' = done \cup {c}
  <2>1. \A c \in pending : c \in 1 .. arrived /\ c \notin done /\ \A s \in Entries : f[s] # c
    BY <1>a, <1>s, EntryFacts
  <2>2. g = f
    BY <1>1, <1>s DEF EntryConn
  <2>3. PoolStep
    BY <1>1, <1>a, <1>s, <2>1, <2>2, TableSame
  <2> QED BY <1>a, <2>3
<1>2. CASE Looping!Arrive \/ \E c \in pending : Looping!Abort(c)
  BY <1>1, <1>2 DEF Looping!Arrive, Looping!Abort, Looping!selectVars, Looping!table
<1>3. CASE \/ \E c \in Looping!Conns : Looping!Send(c) \/ Looping!Leave(c) \/ Looping!Reset(c)
           \/ Looping!Select \/ Looping!Skip \/ Looping!EndOfLoop
           \/ UNCHANGED <<arrived, done, client, sconn>>
  BY <1>1, <1>3 DEF Looping!Send, Looping!Leave, Looping!Reset, Looping!Select, Looping!Skip, Looping!EndOfLoop,
                    Looping!clients, Looping!table
<1>4. CASE Looping!Accept
  <2>0. PICK c, d, m : c = Looping!Min(pending) /\ d = Looping!connfd /\ m = Looping!Min(Looping!FreeSlots)
    OBVIOUS
  <2>1. /\ spc = "accept" /\ pending # {} /\ sconn' = [sconn EXCEPT ![d] = c]
        /\ UNCHANGED <<arrived, done>>
        /\ IF Looping!FreeSlots = {} THEN UNCHANGED client ELSE client' = [client EXCEPT ![m] = d]
    BY <1>4, <2>0 DEF Looping!Accept
  <2>2. c \in pending
    <3>1. pending \subseteq Nat
      BY <1>a
    <3>2. Min(pending) \in pending
      BY <2>1, <3>1, MinIn
    <3> QED BY <2>0, <3>2 DEF Looping!Min, Min
  <2>3. d \in Fds /\ sconn[d] = 0
    <3> DEFINE S == {h \in Fds : sconn[h] = 0}
    <3>1. S \subseteq Nat /\ S # {}
      BY <2>1, FreeFd, EntriesFinite DEF Fds
    <3>2. Min(S) \in S
      BY <3>1, MinIn
    <3>3. d = Min(S)
      BY <1>e, <2>0 DEF Looping!connfd, Looping!Min, Min
    <3> QED BY <3>2, <3>3
  <2>4. sconn \in [Fds -> 0 .. arrived] /\ client \in [Entries -> {-1} \cup Fds] /\ -1 \notin Fds
    BY EntriesFinite DEF LoopInv, LoopTyped, Fds
  <2>5. /\ sconn'[d] = c
        /\ \A s \in Entries : client[s] # -1 => sconn'[client[s]] = sconn[client[s]] /\ client[s] # d
    <3>1. \A s \in Entries : client[s] # -1 => client[s] \in Fds /\ sconn[client[s]] # 0
      BY <2>4 DEF LoopInv, LoopApart
    <3> QED BY <2>1, <2>3, <2>4, <3>1
  <2>6. \A s \in Entries : f[s] = IF client[s] = -1 THEN 0 ELSE sconn[client[s]]
    BY <1>s DEF EntryConn
  <2>7. CASE Looping!FreeSlots = {}
    <3>1. \A s \in Entries : g[s] = f[s]
      BY <1>g, <2>1, <2>5, <2>6, <2>7
    <3>2. PoolStep
      BY <1>a, <1>s, <2>1, <3>1, TableSame
    <3> QED BY <1>a, <3>2
  <2>8. CASE Looping!FreeSlots # {}
    <3>1. m \in Entries /\ client[m] = -1
      <4> DEFINE S == {s \in Entries : client[s] < 0}
      <4>1. S = Looping!FreeSlots
        BY <1>e DEF Looping!FreeSlots
      <4>2. S \subseteq Nat /\ S # {}
        BY <2>8, <4>1 DEF Entries
      <4>3. Min(S) \in S
        BY <4>2, MinIn
      <4>4. m \in S
        BY <2>0, <4>1, <4>3 DEF Looping!Min, Min
      <4> QED BY <2>4, <4>4, EntriesFinite DEF Fds
    <3>2. \A s \in Entries : client'[s] = IF s = m THEN d ELSE client[s]
      BY <2>1, <2>4, <2>8, <3>1
    <3>3. \A s \in Entries : g[s] = IF s = m THEN c ELSE f[s]
      BY <1>g, <2>3, <2>4, <2>5, <2>6, <3>2
    <3>4. c \in 1 .. arrived /\ c \notin done /\ \A s \in Entries : f[s] # c
      BY <1>a, <1>s, <2>2, EntryFacts
    <3>5. f[m] = 0
      BY <2>6, <3>1
    <3>6. UNCHANGED <<arrived, done>>
      BY <2>1
    <3>7. PoolStep
      BY <1>s, <1>t, <3>1, <3>3, <3>4, <3>5, <3>6, TableTake
    <3> QED BY <1>a, <3>7
  <2> QED BY <2>7, <2>8
<1>5. CASE Looping!Serve
  <2>0. PICK e, d, c : e = i /\ d = client[i] /\ c = sconn[client[i]]
    OBVIOUS
  <2>1. e \in Entries /\ d \in Fds /\ d # -1 /\ UNCHANGED arrived
    <3>1. i <= maxi /\ client[i] >= 0 /\ UNCHANGED arrived
      BY <1>5 DEF Looping!Serve
    <3>2. i \in Entries
      BY <3>1, EntriesFinite DEF LoopInv, LoopTyped, Entries
    <3>3. client[i] \in {-1} \cup Fds
      BY <3>2 DEF LoopInv, LoopTyped
    <3>4. client[i] # -1
      BY <3>1
    <3> QED BY <2>0, <3>1, <3>2, <3>3, <3>4
  <2>2. \/ UNCHANGED <<done, client, sconn>>
        \/ client' = [client EXCEPT ![e] = -1] /\ sconn' = [sconn EXCEPT ![d] = 0] /\ done' = done \cup {c}
    BY <1>5, <2>0 DEF Looping!Serve, Looping!Drop
  <2>3. CASE UNCHANGED <<done, client, sconn>>
    BY <1>1, <2>1, <2>3
  <2>4. CASE client' = [client EXCEPT ![e] = -1] /\ sconn' = [sconn EXCEPT ![d] = 0] /\ done' = done \cup {c}
    <3>1. f[e] = c /\ f[e] # 0
      BY <1>s, <2>0, <2>1, EntryFacts
    <3>2. f[e] \in 1 .. arrived /\ f[e] \notin done /\ \A s \in Entries : s # e => f[s] # f[e]
      BY <1>a, <1>s, <2>1, <3>1, EntryFacts
    <3>3. \A s \in Entries : s # e /\ client[s] # -1 => sconn'[client[s]] = sconn[client[s]]
      <4>1. \A s \in Entries : s # e /\ client[s] # -1 => client[s] # d /\ client[s] \in Fds
        BY <2>0, <2>1 DEF LoopInv, LoopApart, LoopTyped
      <4> QED BY <2>4, <4>1 DEF LoopInv, LoopTyped
    <3>4. \A s \in Entries : client'[s] = IF s = e THEN -1 ELSE client[s]
      BY <2>1, <2>4 DEF LoopInv, LoopTyped
    <3>5. \A s \in Entries : g[s] = IF s = e THEN 0 ELSE f[s]
      BY <1>g, <1>s, <3>3, <3>4 DEF EntryConn
    <3>6. done' = done \cup {f[e]} /\ UNCHANGED arrived
      BY <2>1, <2>4, <3>1
    <3>7. PoolStep
      BY <1>s, <1>t, <2>1, <3>2, <3>5, <3>6, TableFinish
    <3> QED BY <1>a, <3>7
  <2> QED BY <2>2, <2>3, <2>4
<1> QED BY <1>2, <1>3, <1>4, <1>5 DEF Looping!Next, Looping!ServerStep

Known == which \in {"serv05", "serv08", "fork", "select"} \cup Locked!Servers
AllRight == Known /\ QueueRuns /\ PassRuns /\ LockRuns /\ ForkRuns /\ LoopRuns

LEMMA KnownAlways == MCSpec => []Known
<1>1. MCInit => Known
  BY DEF MCInit, Known
<1>2. Known /\ [MCNext]_MCvars => Known'
  BY OneRuns DEF Known, Locked!Servers
<1> QED BY <1>1, <1>2, PTL DEF MCSpec

LEMMA PoolInit == ASSUME MCInit PROVE Pool!Init
<1>0. arrived = 0
  BY DEF MCInit, Init
<1>1. \A c \in 1 .. NCONN : c > arrived
  BY <1>0, ConnsPositive DEF AllConns
<1>2. \A c \in 1 .. NCONN : Stage(c) = "coming" /\ ServedBy(c) = -1
  BY <1>1 DEF Stage, ServedBy
<1> QED BY <1>2 DEF Pool!Init

\* A step of any of the servers is a step of the pool, or none.
LEMMA PoolSteps == ASSUME AllRight, AllRight', [MCNext]_MCvars PROVE [Pool!Next]_<<stages, servers>>
<1>0. which' = which
  BY OneRuns
<1>u. UNCHANGED MCvars => UNCHANGED <<arrived, done, tconn, conn, fd, open, kid, srv, client, sconn>>
  BY DEF MCvars, vars, clients, queueVars, serv05Vars, acceptVars, forkVars, selectVars
<1>1. CASE which = "serv08"
  <2>1. QueueInv /\ QueueInv'
    BY <1>0, <1>1 DEF AllRight, QueueRuns
  <2>2. Next \/ UNCHANGED <<arrived, done, tconn>>
    BY <1>1, <1>u, OneRuns, NamesApart
  <2> QED BY <1>0, <1>1, <2>1, <2>2, QueuePool, PoolNext
<1>2. CASE which = "serv05"
  <2>1. PassInv /\ PassInv'
    BY <1>0, <1>2 DEF AllRight, PassRuns
  <2>2. PassFd!Next \/ UNCHANGED <<arrived, done, conn>>
    BY <1>2, <1>u, OneRuns, NamesApart
  <2> QED BY <1>0, <1>2, <2>1, <2>2, PassPool, PoolNext
<1>3. CASE which \in Locked!Servers
  <2>1. LockProofs!IInv /\ LockProofs!IInv'
    BY <1>0, <1>3 DEF AllRight, LockRuns, Locked!Servers
  <2>2. Locked!Next \/ UNCHANGED <<arrived, done, fd>>
    BY <1>3, <1>u, OneRuns, NamesApart
  <2> QED BY <1>0, <1>3, <2>1, <2>2, LockPool, PoolNext
<1>4. CASE which = "fork"
  <2>1. ForkInv /\ ForkInv'
    BY <1>0, <1>4 DEF AllRight, ForkRuns
  <2>2. Forking!Next \/ UNCHANGED <<arrived, done, open, kid, srv>>
    BY <1>4, <1>u, OneRuns, NamesApart
  <2> QED BY <1>0, <1>4, <2>1, <2>2, ForkPool, PoolNext
<1>5. CASE which = "select"
  <2>1. LoopInv /\ LoopInv'
    BY <1>0, <1>5 DEF AllRight, LoopRuns
  <2>2. Looping!Next \/ UNCHANGED <<arrived, done, client, sconn>>
    BY <1>5, <1>u, OneRuns, NamesApart
  <2> QED BY <1>0, <1>5, <2>1, <2>2, LoopPool, PoolNext
<1> QED BY <1>1, <1>2, <1>3, <1>4, <1>5 DEF AllRight, Known

(***************************************************************************)
(* Every server implements the pool, for any number of connections,        *)
(* workers and entries: a connection is taken by one worker, that has no   *)
(* other, and is served once, whichever worker accepts it, wherever the    *)
(* descriptor waits in between, and whoever is killed (serv05.c:56-71,     *)
(* pthread08.c:21-33, child03.c:25-38, tcpserv04.c:25-43,                  *)
(* tcpservselect01.c:37-78).                                               *)
(***************************************************************************)
THEOREM PoolImplemented == MCSpec => ServesOnce
<1>1. MCInit => Pool!Init
  BY PoolInit
<1>2. AllRight /\ AllRight' /\ [MCNext]_MCvars
        => [Pool!Next]_<<[c \in 1 .. NCONN |-> Stage(c)], [c \in 1 .. NCONN |-> ServedBy(c)]>>
  BY PoolSteps DEF stages, servers, AllConns
<1>3. MCSpec => []AllRight
  BY KnownAlways, QueueAlways, PassAlways, LockAlways, ForkAlways, LoopAlways, PTL DEF AllRight
<1> QED BY <1>1, <1>2, <1>3, PTL DEF MCSpec, ServesOnce, Pool!Spec
=============================================================================
