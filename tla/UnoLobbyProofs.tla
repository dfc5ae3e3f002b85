--------------------------- MODULE UnoLobbyProofs ---------------------------
(***************************************************************************)
(* TLAPS proofs about UnoLobby, for every number of connections, rooms and *)
(* seats and every bound: the threads of the UNO server stay in range, a   *)
(* room that plays keeps its players, and the seats, the owners of the     *)
(* sockets and main()'s books stay right, rooms that are opened again      *)
(* before their thread is idle included, until a thread reads for a seat   *)
(* left over from before.                                                  *)
(***************************************************************************)
EXTENDS UnoLobby, FiniteSetTheorems, SequenceTheorems, WellFoundedInduction, TLAPS

\* FindEmpty() and the searches for a seat or an heir have a first entry to
\* find if there is one at all.
LEMMA MinOfSome ==
  ASSUME NEW S, S \subseteq Nat, S # {}
  PROVE  Min(S) \in S
<1> DEFINE R == {p \in Nat \X Nat : p[1] < p[2]}
<1>1. R = OpToRel(<, Nat)
  BY Zenon DEF OpToRel
<1>2. IsWellFoundedOn(R, Nat)
  BY <1>1, NatLessThanWellFounded, Zenon
<1>3. PICK x \in S : \A y \in S : ~ (<<y, x>> \in R)
  <2> HIDE DEF R
  <2> QED BY <1>2, WFMin, Zenon
<1>4. ASSUME NEW y \in S PROVE x =< y
  <2>1. x \in Nat /\ y \in Nat
    OBVIOUS
  <2>2. <<y, x>> \notin R
    BY <1>3
  <2>3. ~ (y < x)
    BY <2>1, <2>2
  <2> QED BY <2>1, <2>3
<1> QED
  BY <1>4 DEF Min

\* The seat that is being given up is one of the room's: what has to be added
\* to TypeOK to make it inductive.
SweepSeat ==
  \A r \in Rooms : rpc[r] \in {"count", "leave", "check"} => rseat[r] \in Seats

\* Unlinking a node keeps the others.
LEMMA RemoveAtSeq ==
  ASSUME NEW S, NEW q \in Seq(S), NEW i \in 1 .. Len(q)
  PROVE  /\ RemoveAt(q, i) \in Seq(S)
         /\ ToSet(q) \subseteq ToSet(RemoveAt(q, i)) \cup {q[i]}
<1> DEFINE p == RemoveAt(q, i)
<1>1. /\ p \in Seq(S) /\ Len(p) = Len(q) - 1
      /\ \A k \in 1 .. i - 1 : p[k] = q[k]
      /\ \A k \in i .. Len(q) - 1 : p[k] = q[k + 1]
  <2> DEFINE a == SubSeq(q, 1, i - 1)
             b == SubSeq(q, i + 1, Len(q))
  <2>1. /\ a \in Seq(S) /\ Len(a) = i - 1
        /\ \A k \in 1 .. i - 1 : a[k] = q[k]
    OBVIOUS
  <2>2. /\ b \in Seq(S) /\ Len(b) = Len(q) - i
        /\ \A k \in 1 .. Len(q) - i : b[k] = q[k + i]
    OBVIOUS
  <2>3. p = a \o b
    BY DEF RemoveAt
  <2> HIDE DEF a, b, p
  <2>4. p \in Seq(S) /\ Len(p) = Len(a) + Len(b)
    BY <2>1, <2>2, <2>3, ConcatProperties
  <2>5. ASSUME NEW k \in 1 .. i - 1 PROVE p[k] = q[k]
    BY <2>1, <2>2, <2>3, <2>5
  <2>6. ASSUME NEW k \in i .. Len(q) - 1 PROVE p[k] = q[k + 1]
    <3>1. p[k] = b[k - (i - 1)] /\ k - (i - 1) \in 1 .. Len(q) - i
      BY <2>1, <2>2, <2>3, <2>6
    <3>2. b[k - (i - 1)] = q[(k - (i - 1)) + i] /\ (k - (i - 1)) + i = k + 1
      BY <2>2, <3>1
    <3> QED
      BY <3>1, <3>2
  <2> QED
    BY <2>1, <2>2, <2>4, <2>5, <2>6
<1>2. ASSUME NEW k \in 1 .. Len(q), k # i
      PROVE  \E j \in 1 .. Len(p) : p[j] = q[k]
  <2> HIDE DEF p
  <2>1. CASE k < i
    BY <1>1, <2>1
  <2>2. CASE k > i
    <3>1. k - 1 \in i .. Len(q) - 1 /\ k - 1 \in 1 .. Len(p) /\ (k - 1) + 1 = k
      BY <1>1, <2>2
    <3>2. p[k - 1] = q[k]
      BY <1>1, <3>1
    <3> QED
      BY <3>1, <3>2
  <2> QED
    BY <1>2, <2>1, <2>2
<1> HIDE DEF p
<1>3. p \in Seq(S) /\ \A x \in ToSet(q) : x \in ToSet(p) \cup {q[i]}
  <2>1. p \in Seq(S)
    BY <1>1
  <2>2. ASSUME NEW x \in ToSet(q), x # q[i] PROVE x \in ToSet(p)
    <3>1. PICK k \in 1 .. Len(q) : x = q[k]
      BY <2>2 DEF ToSet
    <3>2. k # i
      BY <2>2, <3>1
    <3>3. PICK j \in 1 .. Len(p) : p[j] = x
      BY <1>2, <3>1, <3>2
    <3> QED BY <2>1, <3>3 DEF ToSet
  <2> QED BY <2>1, <2>2
<1> QED
  BY <1>3 DEF p

\* The parts of TypeOK: the connections and main()'s locals, the requests and
\* the handlers, the rooms, the room threads, the history.
ConnsOK == state \in [Conns -> 0 .. 2] /\ global_player_num \in Int
MainOK ==
  /\ used_player_list \in Seq(Conns)
  /\ mpc \in {"scan", "count", "serve"} /\ mpos \in Nat \ {0}
  /\ mset \subseteq Conns \cup {Listenfd} /\ mload \in Int
Ops == {"create", "join", "random"}
RequestsOK ==
  /\ handler_working \in [Conns -> BOOLEAN]
  /\ handler_arg \in [Conns -> [op : Ops, room : Rooms]]
HandlerPlaces ==
  {"idle", "create", "join", "random", "joinrandom", "open", "openrandom", "full",
   "reject", "lobby", "done"}
HandlersOK ==
  /\ hpc \in [Conns -> HandlerPlaces]
  /\ hroom \in [Conns -> None .. NROOM] /\ hfit \in [Conns -> Rooms \cup {None}]
  /\ \A c \in Conns :
       /\ hpc[c] \in {"random", "create"} => hroom[c] \in 0 .. NROOM
       /\ hpc[c] \in {"join", "joinrandom", "open", "openrandom"} => hroom[c] \in Rooms
FlagsOK ==
  /\ used \in [Rooms -> BOOLEAN] /\ in_game \in [Rooms -> BOOLEAN]
  /\ random \in [Rooms -> BOOLEAN] /\ new_player \in [Rooms -> BOOLEAN]
  /\ room_working \in [Rooms -> BOOLEAN]
SeatsOK ==
  /\ player_num \in [Rooms -> Int]
  /\ players \in [Rooms -> [Seats -> Conns \cup {None}]]
RoomPlaces ==
  {"idle", "top", "serve", "count", "leave", "check", "game", "gcount", "gleave",
   "over", "exit"}
SweepOK ==
  /\ rpc \in [Rooms -> RoomPlaces] /\ rseat \in [Rooms -> 0 .. NSEAT]
  /\ SweepSeat
CopiesOK ==
  /\ rused \in [Rooms -> [Seats -> Conns \cup {None}]]
  /\ rowner \in [Rooms -> Seats] /\ rnum \in [Rooms -> Int]
  /\ rload \in [Rooms -> Int] /\ rgame \in [Rooms -> Int]
  /\ ralive \in [Rooms -> SUBSET Seats]
HistoryOK ==
  stale \in [Rooms -> SUBSET Seats] /\ misreads \in Nat /\ raced \in Nat

Typed == ConnsOK /\ MainOK /\ RequestsOK /\ HandlersOK /\ FlagsOK /\ SeatsOK /\ SweepOK
           /\ CopiesOK /\ HistoryOK

LEMMA TypedIsTypeOK == Typed <=> TypeOK /\ SweepSeat
BY DEF Typed, TypeOK, ConnsOK, MainOK, RequestsOK, HandlersOK, FlagsOK, SeatsOK, SweepOK,
       CopiesOK, HistoryOK, Ops, HandlerPlaces, RoomPlaces

\* A part whose variables a step leaves alone is kept.
LEMMA TypedKept ==
  /\ ConnsOK /\ UNCHANGED <<state, global_player_num>> => ConnsOK'
  /\ MainOK /\ UNCHANGED mainVars => MainOK'
  /\ RequestsOK /\ UNCHANGED requestVars => RequestsOK'
  /\ HandlersOK /\ UNCHANGED handlerVars => HandlersOK'
  /\ FlagsOK /\ UNCHANGED <<used, in_game, random, new_player, room_working>> => FlagsOK'
  /\ SeatsOK /\ UNCHANGED <<player_num, players>> => SeatsOK'
  /\ SweepOK /\ UNCHANGED <<rpc, rseat>> => SweepOK'
  /\ CopiesOK /\ UNCHANGED <<rused, rowner, rnum, rload, ralive, rgame>> => CopiesOK'
  /\ HistoryOK /\ UNCHANGED history => HistoryOK'
<1>1. ConnsOK /\ UNCHANGED <<state, global_player_num>> => ConnsOK'
  BY DEF ConnsOK
<1>2. MainOK /\ UNCHANGED mainVars => MainOK'
  BY DEF MainOK, mainVars
<1>3. RequestsOK /\ UNCHANGED requestVars => RequestsOK'
  BY DEF RequestsOK, requestVars
<1>4. HandlersOK /\ UNCHANGED handlerVars => HandlersOK'
  BY DEF HandlersOK, handlerVars
<1>5. FlagsOK /\ UNCHANGED <<used, in_game, random, new_player, room_working>> => FlagsOK'
  BY DEF FlagsOK
<1>6. SeatsOK /\ UNCHANGED <<player_num, players>> => SeatsOK'
  BY DEF SeatsOK
<1>7. SweepOK /\ UNCHANGED <<rpc, rseat>> => SweepOK'
  BY DEF SweepOK, SweepSeat
<1>8. CopiesOK /\ UNCHANGED <<rused, rowner, rnum, rload, ralive, rgame>> => CopiesOK'
  BY DEF CopiesOK
<1>9. HistoryOK /\ UNCHANGED history => HistoryOK'
  BY DEF HistoryOK, history
<1> QED
  BY <1>1, <1>2, <1>3, <1>4, <1>5, <1>6, <1>7, <1>8, <1>9

\* A seat that is taken or given up leaves the others as they are.
LEMMA SeatSet ==
  ASSUME NEW V, NEW f \in [Rooms -> [Seats -> V]], NEW r \in Rooms, NEW e, NEW v \in V
  PROVE  /\ [f EXCEPT ![r][e] = v] \in [Rooms -> [Seats -> V]]
         /\ \A q \in Rooms, s \in Seats :
              [f EXCEPT ![r][e] = v][q][s] = IF q = r /\ s = e THEN v ELSE f[q][s]
<1>1. [f[r] EXCEPT ![e] = v] \in [Seats -> V]
  OBVIOUS
<1> QED
  BY <1>1

\* main() stays in range.
LEMMA MainTyped ==
  ASSUME Typed, MainOwn \/ MainClient
  PROVE  Typed'
<1> USE SizesAssumption
<1>0. UNCHANGED <<handlerVars, roomData, room_working, roomVars, stale, misreads>>
  BY DEF MainOwn, MainClient, Scan, Select, AcceptNone, Count, ServeDone, Accept, Serve,
         ServeEOF, ServeRequest, poolVars, history
<1>1. HandlersOK' /\ FlagsOK' /\ SeatsOK' /\ SweepOK' /\ CopiesOK'
  BY <1>0, TypedKept DEF Typed, roomData, roomVars
<1>2. CASE Scan
  <2> DEFINE c == used_player_list[mpos]
  <2>1. mpos \in 1 .. Len(used_player_list)
    BY <1>2 DEF Scan, Typed, MainOK
  <2>2. c \in Conns
    BY <2>1 DEF Typed, MainOK
  <2>3. /\ mset' \in {mset, mset \cup {c}} /\ mpos' \in {mpos, mpos + 1}
        /\ used_player_list' \in {used_player_list, RemoveAt(used_player_list, mpos)}
        /\ UNCHANGED <<state, global_player_num, mpc, mload, requestVars, history>>
    BY <1>2 DEF Scan, poolVars, history
  <2>4. RemoveAt(used_player_list, mpos) \in Seq(Conns)
    BY <2>1, RemoveAtSeq DEF Typed, MainOK
  <2> HIDE DEF c
  <2>5. MainOK'
    BY <2>2, <2>3, <2>4 DEF MainOK, Typed
  <2> QED
    BY <1>1, <2>3, <2>5, TypedKept DEF Typed
<1>3. CASE Select \/ AcceptNone \/ ServeDone
  <2>1. UNCHANGED <<state, global_player_num, requestVars, history>>
    BY <1>3 DEF Select, AcceptNone, ServeDone, poolVars, history
  <2>2. MainOK'
    BY <1>3 DEF Select, AcceptNone, ServeDone, LoopTop, MainOK, Typed
  <2> QED
    BY <1>1, <2>1, <2>2, TypedKept DEF Typed
<1>4. CASE Count
  <2>1. ConnsOK' /\ MainOK' /\ HistoryOK' /\ UNCHANGED requestVars
    BY <1>0, <1>4 DEF Count, Typed, ConnsOK, MainOK, HistoryOK
  <2> QED
    BY <1>1, <2>1, TypedKept DEF Typed
<1>5. CASE Accept
  <2>1. Free \subseteq Nat /\ Free # {}
    BY <1>5 DEF Accept, Free, Conns
  <2>2. Min(Free) \in Conns
    <3>1. Min(Free) \in Free
      BY <2>1, MinOfSome
    <3> QED
      BY <3>1 DEF Free
  <2>3. ConnsOK' /\ MainOK' /\ UNCHANGED <<requestVars, history>>
    BY <1>5, <2>2 DEF Accept, Typed, ConnsOK, MainOK, poolVars, history
  <2> QED
    BY <1>1, <2>3, TypedKept DEF Typed
<1>6. ASSUME NEW k \in 1 .. Len(used_player_list), ServeEOF(k)
      PROVE  Typed'
  <2>1. ConnsOK' /\ MainOK' /\ UNCHANGED <<requestVars, history>>
    BY <1>6 DEF ServeEOF, Typed, ConnsOK, MainOK, poolVars, history
  <2> QED
    BY <1>1, <2>1, TypedKept DEF Typed
<1>7. ASSUME NEW k \in 1 .. Len(used_player_list), NEW op \in Ops, NEW r \in Rooms,
             ServeRequest(k, op, r)
      PROVE  Typed'
  <2>1. ConnsOK' /\ MainOK' /\ UNCHANGED history
    BY <1>7 DEF ServeRequest, Typed, ConnsOK, MainOK, poolVars, history
  <2>2. RequestsOK'
    BY <1>7 DEF ServeRequest, Typed, RequestsOK
  <2> QED
    BY <1>1, <2>1, <2>2, TypedKept DEF Typed
<1>8. CASE Serve
  <2>1. 0 \in Rooms
    BY DEF Rooms
  <2> QED
    BY <1>6, <1>7, <1>8, <2>1 DEF Serve, Ops
<1> QED
  BY <1>2, <1>3, <1>4, <1>5, <1>8 DEF MainOwn, MainClient

\* So does GetInRoom: a search ends before it leaves the rooms.
LEMMA HandlerTyped ==
  ASSUME Typed, NEW c \in Conns, GetInRoom(c)
  PROVE  Typed'
<1> USE SizesAssumption
<1>0. UNCHANGED <<global_player_num, mainVars, handler_arg, roomVars, misreads, raced>>
  BY DEF GetInRoom, TakeRequest, ScanRandom, ScanRandomEnd, ScanUnused, OpenRetry, Open,
         Join, JoinRetry, JoinReject, Done, BackToLobby, handlerFrame
<1>1. MainOK' /\ SweepOK' /\ CopiesOK'
  BY <1>0, TypedKept DEF Typed, roomVars
<1>2. ASSUME HandlersOK',
             UNCHANGED <<state, handler_working, roomData, room_working, stale>>
      PROVE  Typed'
  BY <1>0, <1>1, <1>2, TypedKept DEF Typed, requestVars, roomData, history
<1>3. /\ hpc \in [Conns -> HandlerPlaces] /\ hroom \in [Conns -> None .. NROOM]
      /\ hfit \in [Conns -> Rooms \cup {None}]
      /\ hpc[c] \in {"random", "create"} => hroom[c] \in 0 .. NROOM
      /\ hpc[c] \in {"join", "joinrandom", "open", "openrandom"} => hroom[c] \in Rooms
  BY DEF Typed, HandlersOK
\* The thread's own three variables decide.
<1>4. ASSUME NEW p \in HandlerPlaces, NEW h \in None .. NROOM, NEW f \in Rooms \cup {None},
             p \in {"random", "create"} => h \in 0 .. NROOM,
             p \in {"join", "joinrandom", "open", "openrandom"} => h \in Rooms,
             hpc' = [hpc EXCEPT ![c] = p], hroom' = [hroom EXCEPT ![c] = h],
             hfit' = [hfit EXCEPT ![c] = f]
      PROVE  HandlersOK'
  BY <1>4 DEF Typed, HandlersOK
<1>5. /\ hpc = [hpc EXCEPT ![c] = hpc[c]] /\ hroom = [hroom EXCEPT ![c] = hroom[c]]
      /\ hfit = [hfit EXCEPT ![c] = hfit[c]]
  BY <1>3
<1>6. CASE TakeRequest(c)
  <2>1. handler_arg[c].op \in Ops /\ handler_arg[c].room \in Rooms
    BY DEF Typed, RequestsOK
  <2>2. HandlersOK'
    <3> DEFINE p == handler_arg[c].op
               h == IF p = "join" THEN handler_arg[c].room ELSE 0
    <3>1. p \in HandlerPlaces /\ h \in Rooms /\ h \in None .. NROOM /\ h \in 0 .. NROOM
      BY <2>1 DEF Ops, HandlerPlaces, Rooms, None
    <3>2. /\ hpc' = [hpc EXCEPT ![c] = p] /\ hroom' = [hroom EXCEPT ![c] = h]
          /\ hfit' = [hfit EXCEPT ![c] = hfit[c]] /\ hfit[c] \in Rooms \cup {None}
      BY <1>3, <1>5, <1>6 DEF TakeRequest
    <3> HIDE DEF p, h
    <3> QED
      BY <1>4, <3>1, <3>2
  <2> QED
    BY <1>2, <1>6, <2>2 DEF TakeRequest
<1>7. CASE ScanRandom(c)
  <2>1. HandlersOK'
    <3>1. CASE ~in_game[hroom[c]] /\ random[hroom[c]]
      BY <1>3, <1>4, <1>5, <1>7, <3>1 DEF ScanRandom, HandlerPlaces, Rooms, None
    <3>2. CASE ~(~in_game[hroom[c]] /\ random[hroom[c]])
      BY <1>3, <1>4, <1>5, <1>7, <3>2 DEF ScanRandom, HandlerPlaces, Rooms, None
    <3> QED
      BY <3>1, <3>2
  <2> QED
    BY <1>2, <1>7, <2>1 DEF ScanRandom
<1>8. CASE ScanRandomEnd(c)
  <2>1. HandlersOK'
    <3> DEFINE p == IF hfit[c] = None THEN "full" ELSE "openrandom"
    <3>1. /\ p \in HandlerPlaces /\ hfit[c] \in None .. NROOM
          /\ p \notin {"random", "create"}
          /\ p \in {"join", "joinrandom", "open", "openrandom"} => hfit[c] \in Rooms
      BY <1>3 DEF HandlerPlaces, Rooms, None
    <3>2. /\ hpc' = [hpc EXCEPT ![c] = p] /\ hroom' = [hroom EXCEPT ![c] = hfit[c]]
          /\ hfit' = [hfit EXCEPT ![c] = None]
      BY <1>8 DEF ScanRandomEnd
    <3> HIDE DEF p
    <3> QED
      BY <1>4, <3>1, <3>2
  <2> QED
    BY <1>2, <1>8, <2>1 DEF ScanRandomEnd
<1>9. CASE ScanUnused(c)
  <2>1. HandlersOK'
    BY <1>3, <1>4, <1>5, <1>9 DEF ScanUnused, HandlerPlaces, Rooms, None
  <2> QED
    BY <1>2, <1>9, <2>1 DEF ScanUnused
<1>10. CASE OpenRetry(c) \/ JoinRetry(c)
  <2>1. HandlersOK'
    BY <1>3, <1>4, <1>5, <1>10 DEF OpenRetry, JoinRetry, Rescan, HandlerPlaces, Rooms, None
  <2> QED
    BY <1>2, <1>10, <2>1 DEF OpenRetry, JoinRetry
<1>11. CASE JoinReject(c)
  <2>1. HandlersOK'
    BY <1>3, <1>4, <1>5, <1>11 DEF JoinReject, HandlerPlaces
  <2> QED
    BY <1>2, <1>11, <2>1 DEF JoinReject
<1>12. CASE Open(c)
  <2>1. HandlersOK'
    BY <1>3, <1>4, <1>5, <1>12 DEF Open, HandlerPlaces
  <2>2. FlagsOK' /\ SeatsOK'
    BY <1>0, <1>3, <1>12 DEF Open, Typed, FlagsOK, SeatsOK, Seats
  <2>4. HistoryOK'
    <3>1. stale' \in {stale, [stale EXCEPT ![hroom[c]] = Admitted(hroom[c])]}
      BY <1>12 DEF Open
    <3>2. Admitted(hroom[c]) \in SUBSET Seats
      BY DEF Admitted
    <3> QED
      BY <1>0, <3>1, <3>2 DEF Typed, HistoryOK
  <2>3. UNCHANGED <<state, handler_working>>
    BY <1>12 DEF Open
  <2> QED
    BY <1>0, <1>1, <2>1, <2>2, <2>3, <2>4, TypedKept DEF Typed, requestVars
<1>13. CASE Join(c)
  <2>1. HandlersOK'
    BY <1>3, <1>4, <1>5, <1>13 DEF Join, HandlerPlaces
  <2>2. FlagsOK'
    BY <1>3, <1>13 DEF Join, Typed, FlagsOK
  <2>4. SeatsOK'
    <3> DEFINE e == EmptySeat(hroom[c])
    <3>1. /\ players' = [players EXCEPT ![hroom[c]][e] = c] /\ hroom[c] \in Rooms
          /\ player_num' = [player_num EXCEPT ![hroom[c]] = @ + 1]
      BY <1>3, <1>13 DEF Join
    <3>2. player_num' \in [Rooms -> Int]
      BY <3>1 DEF Typed, SeatsOK
    <3> HIDE DEF e
    <3>3. players' \in [Rooms -> [Seats -> Conns \cup {None}]]
      BY <3>1, SeatSet DEF Typed, SeatsOK
    <3> QED
      BY <3>2, <3>3 DEF SeatsOK
  <2>3. UNCHANGED <<state, handler_working, stale>>
    BY <1>13 DEF Join
  <2> QED
    BY <1>0, <1>1, <2>1, <2>2, <2>3, <2>4, TypedKept DEF Typed, requestVars, history
<1>14. CASE Done(c)
  <2>1. HandlersOK'
    <3> DEFINE p == IF hpc[c] = "reject" THEN "lobby" ELSE "idle"
    <3>1. /\ p \in HandlerPlaces /\ 0 \in None .. NROOM /\ hfit[c] \in Rooms \cup {None}
          /\ p \notin {"random", "create", "join", "joinrandom", "open", "openrandom"}
      BY <1>3 DEF HandlerPlaces, None
    <3>2. /\ hpc' = [hpc EXCEPT ![c] = p] /\ hroom' = [hroom EXCEPT ![c] = 0]
          /\ hfit' = [hfit EXCEPT ![c] = hfit[c]]
      BY <1>5, <1>14 DEF Done
    <3> HIDE DEF p
    <3> QED
      BY <1>4, <3>1, <3>2
  <2>2. RequestsOK'
    BY <1>0, <1>14 DEF Done, Typed, RequestsOK
  <2> QED
    BY <1>0, <1>1, <1>14, <2>1, <2>2, TypedKept DEF Done, Typed, roomData, history
<1>15. CASE BackToLobby(c)
  <2>1. HandlersOK'
    BY <1>3, <1>4, <1>5, <1>15 DEF BackToLobby, HandlerPlaces
  <2>2. ConnsOK'
    BY <1>0, <1>15 DEF BackToLobby, Typed, ConnsOK
  <2> QED
    BY <1>0, <1>1, <1>15, <2>1, <2>2, TypedKept
    DEF BackToLobby, Typed, requestVars, roomData, history
<1> QED
  BY <1>6, <1>7, <1>8, <1>9, <1>10, <1>11, <1>12, <1>13, <1>14, <1>15 DEF GetInRoom

\* And RoomProcess with GameStart.
LEMMA RoomTyped ==
  ASSUME Typed, NEW r \in Rooms, RoomOwn(r) \/ RoomClient(r)
  PROVE  Typed'
<1> USE SizesAssumption
<1>0. UNCHANGED <<mainVars, requestVars, handlerVars>>
  BY DEF RoomOwn, RoomClient, Wake, Admit, SweepDone, RoomCount, GiveUpSeat, LeaveClosed,
         Forget, GameLeft, GameOver, GameWon, CloseAfterGame, LoopEnd, Exit, Leave, LeaveEOF,
         Start, GameLeave, GameEOF, roomFrame
<1>1. MainOK' /\ RequestsOK' /\ HandlersOK'
  BY <1>0, TypedKept DEF Typed
<1>2. ASSUME ConnsOK', FlagsOK', SeatsOK', SweepOK', CopiesOK', HistoryOK'
      PROVE  Typed'
  BY <1>1, <1>2 DEF Typed
<1>3. CASE Wake(r)
  <2>1. SweepOK' /\ CopiesOK'
    BY <1>3 DEF Wake, Typed, SweepOK, CopiesOK, SweepSeat, RoomPlaces, Seats
  <2>2. HistoryOK'
    BY <1>3 DEF Wake, Typed, HistoryOK
  <2> QED
    BY <1>0, <1>2, <1>3, <2>1, <2>2, TypedKept DEF Wake, Typed, roomData
<1>4. CASE Admit(r)
  <2>1. SweepOK'
    BY <1>4 DEF Admit, Typed, SweepOK, SweepSeat, RoomPlaces
  <2>2. CopiesOK'
    <3> DEFINE fresh == {s \in Seated(r) : rused[r][s] = None /\ state[players[r][s]] = 2}
               seats == [s \in Seats |-> IF s \in fresh THEN players[r][s] ELSE rused[r][s]]
    <3>1. seats \in [Seats -> Conns \cup {None}]
      BY DEF Typed, SeatsOK, CopiesOK
    <3>2. /\ rused' \in {rused, [rused EXCEPT ![r] = seats]}
          /\ rnum' \in {rnum, [rnum EXCEPT ![r] = player_num[r]]}
          /\ UNCHANGED <<rowner, rload, ralive, rgame>>
      BY <1>4 DEF Admit
    <3> HIDE DEF seats
    <3> QED
      BY <3>1, <3>2 DEF Typed, SeatsOK, CopiesOK
  <2>3. FlagsOK'
    BY <1>4 DEF Admit, Typed, FlagsOK
  <2> QED
    BY <1>0, <1>2, <1>4, <2>1, <2>2, <2>3, TypedKept DEF Admit, Typed, history
<1>5. CASE SweepDone(r) \/ LeaveClosed(r) \/ LoopEnd(r)
  <2>1. SweepOK'
    BY <1>5 DEF SweepDone, LeaveClosed, LoopEnd, Typed, SweepOK, SweepSeat, RoomPlaces
  <2> QED
    BY <1>0, <1>2, <1>5, <2>1, TypedKept
    DEF SweepDone, LeaveClosed, LoopEnd, Typed, roomData, history
<1>6. CASE Exit(r)
  <2>1. SweepOK' /\ FlagsOK'
    BY <1>6 DEF Exit, Typed, SweepOK, SweepSeat, RoomPlaces, FlagsOK
  <2> QED
    BY <1>0, <1>2, <1>6, <2>1, TypedKept DEF Exit, Typed, history
<1>7. CASE RoomCount(r)
  <2>1. SweepOK' /\ CopiesOK' /\ ConnsOK' /\ HistoryOK'
    BY <1>7 DEF RoomCount, RoomCounting, Typed, SweepOK, SweepSeat, RoomPlaces,
                CopiesOK, ConnsOK, HistoryOK
  <2> QED
    BY <1>2, <1>7, <2>1, TypedKept DEF RoomCount, Typed, roomData
<1>8. CASE GiveUpSeat(r)
  <2>1. SweepOK' /\ CopiesOK'
    BY <1>8 DEF GiveUpSeat, Typed, SweepOK, SweepSeat, RoomPlaces, CopiesOK, SeatsOK
  <2>2. FlagsOK'
    BY <1>8 DEF GiveUpSeat, Typed, FlagsOK
  <2>3. SeatsOK'
    <3>1. player_num' \in [Rooms -> Int]
      BY <1>8 DEF GiveUpSeat, Typed, SeatsOK
    <3>2. players' \in [Rooms -> [Seats -> Conns \cup {None}]]
      BY <1>8, SeatSet DEF GiveUpSeat, Typed, SeatsOK
    <3> QED
      BY <3>1, <3>2 DEF SeatsOK
  <2> QED
    BY <1>0, <1>2, <1>8, <2>1, <2>2, <2>3, TypedKept DEF GiveUpSeat, Typed, history
<1>9. CASE Forget(r)
  <2> DEFINE others == Admitted(r) \ {rseat[r]}
  <2>1. rseat[r] \in Seats
    BY <1>9 DEF Forget, Typed, SweepOK, SweepSeat
  <2>2. others # {} => Min(others) \in Seats
    <3>1. others \subseteq Nat /\ others \subseteq Seats
      BY DEF Admitted, Seats
    <3> HIDE DEF others
    <3> QED
      BY <3>1, MinOfSome
  <2>3. /\ rowner' \in {rowner, [rowner EXCEPT ![r] = Min(others)]}
        /\ others = {} => rowner' = rowner
        /\ rused' = [rused EXCEPT ![r][rseat[r]] = None]
        /\ rseat' = [rseat EXCEPT ![r] = rseat[r] + 1]
        /\ rpc' = [rpc EXCEPT ![r] = "serve"]
        /\ UNCHANGED <<rnum, rload, ralive, rgame>>
    BY <1>9 DEF Forget
  <2> HIDE DEF others
  <2>4. SweepOK'
    BY <2>1, <2>3 DEF Typed, SweepOK, SweepSeat, RoomPlaces, Seats
  <2>5. CopiesOK'
    BY <2>1, <2>2, <2>3 DEF Typed, CopiesOK
  <2>6. HistoryOK'
    BY <1>9 DEF Forget, Typed, HistoryOK
  <2> QED
    BY <1>0, <1>2, <1>9, <2>4, <2>5, <2>6, TypedKept DEF Forget, Typed, roomData
<1>10. CASE GameLeft(r) \/ GameWon(r)
  <2>1. SweepOK'
    BY <1>10 DEF GameLeft, GameWon, GameOver, Typed, SweepOK, SweepSeat, RoomPlaces
  <2>2. CopiesOK'
    BY <1>10 DEF GameLeft, GameWon, GameOver, Typed, CopiesOK
  <2>3. ConnsOK'
    BY <1>10 DEF GameLeft, GameWon, GameOver, Typed, ConnsOK
  <2> QED
    BY <1>0, <1>2, <1>10, <2>1, <2>2, <2>3, TypedKept DEF GameLeft, GameWon, Typed, roomData, history
<1>11. CASE CloseAfterGame(r)
  <2>1. SweepOK' /\ FlagsOK' /\ SeatsOK'
    BY <1>11 DEF CloseAfterGame, Typed, SweepOK, SweepSeat, RoomPlaces, FlagsOK, SeatsOK
  <2> QED
    BY <1>0, <1>2, <1>11, <2>1, TypedKept DEF CloseAfterGame, Typed, history
<1>12. ASSUME NEW s \in Seats, Leave(r, s) \/ LeaveEOF(r, s)
       PROVE  Typed'
  <2>1. ConnsOK' /\ CopiesOK'
    BY <1>12 DEF Leave, LeaveEOF, Typed, ConnsOK, CopiesOK
  <2>2. SweepOK'
    BY <1>12 DEF Leave, LeaveEOF, Typed, SweepOK, SweepSeat, RoomPlaces, Seats
  <2>3. HistoryOK'
    BY <1>12 DEF Leave, LeaveEOF, CountMisread, Typed, HistoryOK
  <2> QED
    BY <1>0, <1>2, <1>12, <2>1, <2>2, <2>3, TypedKept DEF Leave, LeaveEOF, Typed, roomData
<1>13. ASSUME NEW s \in Seats, Start(r, s)
       PROVE  Typed'
  <2>1. SweepOK' /\ FlagsOK'
    BY <1>13 DEF Start, Typed, SweepOK, SweepSeat, RoomPlaces, FlagsOK
  <2>2. CopiesOK'
    BY <1>13 DEF Start, Admitted, Typed, CopiesOK
  <2>3. HistoryOK'
    BY <1>13 DEF Start, CountMisread, Typed, HistoryOK
  <2> QED
    BY <1>0, <1>2, <1>13, <2>1, <2>2, <2>3, TypedKept DEF Start, Typed
<1>14. ASSUME NEW s \in Seats, GameLeave(r, s) \/ GameEOF(r, s)
       PROVE  Typed'
  <2>1. ConnsOK'
    BY <1>14 DEF GameLeave, GameEOF, Typed, ConnsOK
  <2>3. CopiesOK'
    <3>1. /\ ralive' = [ralive EXCEPT ![r] = ralive[r] \ {s}]
          /\ rgame' = [rgame EXCEPT ![r] = rgame[r] - 1]
          /\ rload' \in {rload, [rload EXCEPT ![r] = global_player_num - 1]}
          /\ UNCHANGED <<rused, rowner, rnum>>
      BY <1>14 DEF GameLeave, GameEOF
    <3>2. ralive[r] \ {s} \in SUBSET Seats
      BY DEF Typed, CopiesOK
    <3> QED
      BY <3>1, <3>2 DEF Typed, ConnsOK, CopiesOK
  <2>2. SweepOK'
    BY <1>14 DEF GameLeave, GameEOF, Typed, SweepOK, SweepSeat, RoomPlaces
  <2> QED
    BY <1>0, <1>2, <1>14, <2>1, <2>2, <2>3, TypedKept
    DEF GameLeave, GameEOF, Typed, roomData, history
<1> QED
  BY <1>3, <1>4, <1>5, <1>6, <1>7, <1>8, <1>9, <1>10, <1>11, <1>12, <1>13, <1>14
  DEF RoomOwn, RoomClient

LEMMA NextTyped == Typed /\ [Next]_vars => Typed'
<1>1. Typed /\ UNCHANGED vars => Typed'
  BY TypedKept DEF Typed, vars, roomData, roomVars
<1> QED
  BY <1>1, MainTyped, HandlerTyped, RoomTyped DEF Next

\* All of it is in its first state.
LEMMA InitTyped == Init => Typed
<1> SUFFICES ASSUME Init PROVE Typed
  OBVIOUS
<1> USE SizesAssumption DEF Init
<1>1. ConnsOK /\ MainOK
  BY DEF ConnsOK, MainOK
<1>2. RequestsOK /\ HandlersOK
  BY DEF RequestsOK, HandlersOK, Ops, HandlerPlaces, Rooms, None
<1>3. FlagsOK /\ SeatsOK /\ HistoryOK
  BY DEF FlagsOK, SeatsOK, HistoryOK
<1>4. SweepOK /\ CopiesOK
  BY DEF SweepOK, SweepSeat, CopiesOK, RoomPlaces, Seats
<1> QED
  BY <1>1, <1>2, <1>3, <1>4 DEF Typed

\* main(), GetInRoom and RoomProcess stay in range, whatever the numbers of
\* connections, rooms and seats: no index leaves conns[], room_data[] or
\* players[] although threads use room numbers they read without the lock.
THEOREM TypeCorrect == Spec => []TypeOK
<1>1. Spec => []Typed
  BY InitTyped, NextTyped, PTL DEF Spec
<1> QED
  BY <1>1, TypedIsTypeOK, PTL

-----------------------------------------------------------------------------
(* A room that plays keeps its players.                                    *)

GamePlaces == {"game", "gcount", "gleave"}

\* in_game is set only while the room's thread is in GameStart().
InGame == \A r \in Rooms : in_game[r] => rpc[r] \in GamePlaces \cup {"over"}

LEMMA NextInGame == Typed /\ InGame /\ [Next]_vars => InGame'
<1> SUFFICES ASSUME Typed, InGame, [Next]_vars
             PROVE  InGame'
  OBVIOUS
<1> USE DEF InGame, GamePlaces
<1>1. ASSUME UNCHANGED <<in_game, rpc>> PROVE InGame'
  BY <1>1
<1>2. CASE MainOwn \/ MainClient
  BY <1>1, <1>2 DEF MainOwn, MainClient, Scan, Select, AcceptNone, Count, ServeDone, Accept,
                    Serve, ServeEOF, ServeRequest, poolVars, roomData, roomVars
<1>3. ASSUME NEW c \in Conns, GetInRoom(c)
      PROVE  InGame'
  <2>1. CASE Open(c)
    BY <2>1 DEF Open, handlerFrame, roomVars, Typed, FlagsOK, SweepOK
  <2> QED
    BY <1>1, <1>3, <2>1
    DEF GetInRoom, TakeRequest, ScanRandom, ScanRandomEnd, ScanUnused, OpenRetry, Join,
        JoinRetry, JoinReject, Done, BackToLobby, handlerFrame, roomData, roomVars
<1>4. ASSUME NEW r \in Rooms, RoomOwn(r) \/ RoomClient(r)
      PROVE  InGame'
  <2>1. in_game \in [Rooms -> BOOLEAN] /\ rpc \in [Rooms -> RoomPlaces]
    BY DEF Typed, FlagsOK, SweepOK
  <2>2. CASE Wake(r) \/ Admit(r) \/ SweepDone(r) \/ LeaveClosed(r) \/ LoopEnd(r) \/ Exit(r)
    BY <2>1, <2>2 DEF Wake, Admit, SweepDone, LeaveClosed, LoopEnd, Exit, roomData
  <2>3. CASE RoomCount(r) \/ GiveUpSeat(r) \/ Forget(r)
    BY <2>1, <2>3 DEF RoomCount, RoomCounting, GiveUpSeat, Forget, roomData
  <2>4. CASE GameLeft(r) \/ GameWon(r) \/ CloseAfterGame(r)
    BY <2>1, <2>4 DEF GameLeft, GameWon, GameOver, CloseAfterGame, roomData
  <2>5. ASSUME NEW s \in Seats, Leave(r, s) \/ LeaveEOF(r, s) \/ Start(r, s)
        PROVE  InGame'
    BY <2>1, <2>5 DEF Leave, LeaveEOF, Start, Readable, roomData
  <2>6. ASSUME NEW s \in Seats, GameLeave(r, s) \/ GameEOF(r, s)
        PROVE  InGame'
    BY <2>1, <2>6 DEF GameLeave, GameEOF, roomData
  <2> QED
    BY <1>4, <2>2, <2>3, <2>4, <2>5, <2>6 DEF RoomOwn, RoomClient
<1>5. CASE UNCHANGED vars
  BY <1>1, <1>5 DEF vars, roomData, roomVars
<1> QED
  BY <1>2, <1>3, <1>4, <1>5 DEF Next

\* Of the steps that change players[], opening and closing leave the room out
\* of a game, and the others find it out of one.
LEMMA StepKeepsRoster ==
  Typed /\ InGame /\ [Next]_vars
    => \A r \in Rooms : in_game[r] /\ in_game'[r] => players'[r] = players[r]
<1> SUFFICES ASSUME Typed, InGame, [Next]_vars, NEW q \in Rooms, in_game[q], in_game'[q]
             PROVE  players'[q] = players[q]
  OBVIOUS
<1>1. /\ in_game \in [Rooms -> BOOLEAN] /\ rpc[q] \in GamePlaces \cup {"over"}
      /\ players \in [Rooms -> [Seats -> Conns \cup {None}]]
  BY DEF Typed, FlagsOK, SeatsOK, InGame
<1>2. CASE MainOwn \/ MainClient
  BY <1>2 DEF MainOwn, MainClient, Scan, Select, AcceptNone, Count, ServeDone, Accept,
              Serve, ServeEOF, ServeRequest, poolVars, roomData
<1>3. ASSUME NEW c \in Conns, GetInRoom(c)
      PROVE  players'[q] = players[q]
  <2>1. CASE Open(c)
    BY <1>1, <2>1 DEF Open
  <2>2. CASE Join(c)
    <3>1. hroom[c] # q
      BY <2>2 DEF Join, Closed
    <3>2. \E e : players' = [players EXCEPT ![hroom[c]][e] = c]
      BY <2>2 DEF Join
    <3> QED
      BY <1>1, <3>1, <3>2
  <2> QED
    BY <1>3, <2>1, <2>2
    DEF GetInRoom, TakeRequest, ScanRandom, ScanRandomEnd, ScanUnused, OpenRetry,
        JoinRetry, JoinReject, Done, BackToLobby, roomData
<1>4. ASSUME NEW r \in Rooms, RoomOwn(r) \/ RoomClient(r)
      PROVE  players'[q] = players[q]
  <2>1. CASE GiveUpSeat(r)
    BY <1>1, <2>1 DEF GiveUpSeat, GamePlaces
  <2>2. CASE CloseAfterGame(r)
    BY <1>1, <2>2 DEF CloseAfterGame
  <2> QED
    BY <1>4, <2>1, <2>2
    DEF RoomOwn, RoomClient, Wake, Admit, SweepDone, RoomCount, LeaveClosed, Forget,
        GameLeft, GameWon, LoopEnd, Exit, Leave, LeaveEOF, Start, GameLeave, GameEOF, roomData
<1>5. CASE UNCHANGED vars
  BY <1>5 DEF vars, roomData
<1> QED
  BY <1>2, <1>3, <1>4, <1>5 DEF Next

\* Nobody takes or gives up a seat of a room that plays, although a handler
\* chooses the room before it has the lock and the room thread leaves seats
\* taken until it closes the room.
THEOREM RosterFixed == Spec => GameRosterFixed
<1>1. Init => Typed /\ InGame
  BY InitTyped DEF Init, InGame
<1>2. Typed /\ InGame /\ [Next]_vars => (Typed /\ InGame)'
  BY NextTyped, NextInGame
<1>3. Spec => [](Typed /\ InGame)
  BY <1>1, <1>2, PTL DEF Spec
<1>4. Spec => [][Next]_vars
  BY PTL DEF Spec
<1> QED
  BY <1>3, <1>4, StepKeepsRoster, PTL DEF GameRosterFixed

-----------------------------------------------------------------------------
(* The seats and flags of one room.                                        *)

\* SeatCount for one room.
SeatsRight(r) ==
  /\ player_num[r] = Cardinality(Seated(r)) /\ player_num[r] <= ROOMCAP
  /\ used[r] <=> Seated(r) # {}
  /\ room_working[r] <=> used[r]

(***************************************************************************)
(* What makes it inductive: where the room's thread can be while the room  *)
(* is in use, and that its copy of the seats is right while it uses it.    *)
(* Between GiveUpSeat and Forget ("check") the seat given up may have been *)
(* taken again, and stale seats are not right.  The thread gives up and    *)
(* plays with seats that are not stale as long as it misreads nothing.     *)
(***************************************************************************)
CopyRight(r) ==
  rpc[r] \in {"top", "serve", "count", "leave", "check"} /\ used[r] =>
    \A s \in Seats : \/ rused[r][s] \in {None, players[r][s]}
                     \/ rpc[r] = "check" /\ s = rseat[r]
                     \/ s \in stale[r]

ThreadRight(r) ==
  /\ rpc[r] \in {"serve", "count", "leave", "over"} \cup GamePlaces => used[r]
  /\ rpc[r] \in {"count", "leave"} =>
       rused[r][rseat[r]] # None /\ rseat[r] \notin stale[r]
  /\ rpc[r] \in GamePlaces => ralive[r] \subseteq Admitted(r) \ stale[r]
  /\ CopyRight(r)

RoomRight(r) == SeatsRight(r) /\ ThreadRight(r)

SameRoom(q) ==
  UNCHANGED <<used[q], room_working[q], player_num[q], players[q], rpc[q], rseat[q],
              rused[q], ralive[q], stale[q]>>

LEMMA SameRoomRight ==
  ASSUME NEW q \in Rooms, RoomRight(q), SameRoom(q)
  PROVE  RoomRight(q)'
<1>1. Seated(q)' = Seated(q) /\ Admitted(q)' = Admitted(q)
  BY DEF SameRoom, Seated, Admitted
<1> QED
  BY <1>1 DEF RoomRight, SameRoom, SeatsRight, ThreadRight, CopyRight

\* Whoever takes a step, the rooms it is not about stay as they are.
LEMMA MainSameRoom ==
  ASSUME MainOwn \/ MainClient, NEW q \in Rooms
  PROVE  SameRoom(q)
BY DEF MainOwn, MainClient, Scan, Select, AcceptNone, Count, ServeDone, Accept, Serve,
       ServeEOF, ServeRequest, poolVars, roomData, roomVars, history, SameRoom

LEMMA HandlerSameRoom ==
  ASSUME Typed, NEW c \in Conns, GetInRoom(c), NEW q \in Rooms,
         Open(c) \/ Join(c) => hroom[c] # q
  PROVE  SameRoom(q)
<1> USE DEF Typed, FlagsOK, SeatsOK, HistoryOK, SameRoom, handlerFrame, roomVars
<1>1. CASE Open(c)
  BY <1>1 DEF Open
<1>2. CASE Join(c)
  <2>1. \E e : players' = [players EXCEPT ![hroom[c]][e] = c]
    BY <1>2 DEF Join
  <2>2. players'[q] = players[q]
    BY <1>2, <2>1
  <2> QED
    BY <1>2, <2>2 DEF Join
<1> QED
  BY <1>1, <1>2 DEF GetInRoom, TakeRequest, ScanRandom, ScanRandomEnd, ScanUnused,
                    OpenRetry, JoinRetry, JoinReject, Done, BackToLobby, roomData

LEMMA RoomSameRoom ==
  ASSUME Typed, NEW r \in Rooms, RoomOwn(r) \/ RoomClient(r), NEW q \in Rooms, q # r
  PROVE  SameRoom(q)
<1> USE DEF Typed, FlagsOK, SeatsOK, SweepOK, CopiesOK, HistoryOK, SameRoom, roomData, history
<1>1. CASE Wake(r) \/ Admit(r) \/ SweepDone(r) \/ LeaveClosed(r) \/ LoopEnd(r) \/ Exit(r)
  BY <1>1 DEF Wake, Admit, SweepDone, LeaveClosed, LoopEnd, Exit
<1>2. CASE RoomCount(r) \/ GiveUpSeat(r) \/ Forget(r)
  BY <1>2 DEF RoomCount, GiveUpSeat, Forget
<1>3. CASE GameLeft(r) \/ GameWon(r) \/ CloseAfterGame(r)
  BY <1>3 DEF GameLeft, GameWon, GameOver, CloseAfterGame
<1>4. ASSUME NEW s \in Seats, Leave(r, s) \/ LeaveEOF(r, s) \/ Start(r, s)
      PROVE  SameRoom(q)
  BY <1>4 DEF Leave, LeaveEOF, Start
<1>5. ASSUME NEW s \in Seats, GameLeave(r, s) \/ GameEOF(r, s)
      PROVE  SameRoom(q)
  BY <1>5 DEF GameLeave, GameEOF
<1> QED
  BY <1>1, <1>2, <1>3, <1>4, <1>5 DEF RoomOwn, RoomClient

\* The seats of a room can be counted.
LEMMA SeatedFinite ==
  ASSUME NEW r \in Rooms
  PROVE  /\ IsFiniteSet(Seated(r)) /\ Cardinality(Seated(r)) \in Nat
         /\ Cardinality(Seated(r)) = 0 <=> Seated(r) = {}
         /\ Cardinality(Seated(r)) < NSEAT => Seated(r) # Seats
<1>1. IsFiniteSet(Seats) /\ Cardinality(Seats) = NSEAT
  BY FS_Interval, SizesAssumption DEF Seats
<1>2. IsFiniteSet(Seated(r))
  BY <1>1, FS_Subset DEF Seated
<1> QED
  BY <1>1, <1>2, FS_CardinalityType, FS_EmptySet, SizesAssumption

\* Open: the room's only player is its owner, and what its thread still has in
\* used[] if it is at work is stale.
LEMMA OpenRight ==
  ASSUME Typed, NEW c \in Conns, Open(c), RoomRight(hroom[c])
  PROVE  RoomRight(hroom[c])'
<1> DEFINE r == hroom[c]
<1> USE SizesAssumption
<1>1. r \in Rooms /\ hroom' = hroom
  BY DEF Open, Typed, HandlersOK
<1>2. /\ used'[r] /\ room_working'[r] /\ player_num'[r] = 1
      /\ UNCHANGED <<rpc, rseat, rused, ralive>>
  BY <1>1 DEF Open, handlerFrame, roomVars, Typed, FlagsOK, SeatsOK
<1>3. \A s \in Seats : players'[r][s] = IF s = 0 THEN c ELSE players[r][s]
  BY <1>1 DEF Open, Typed, SeatsOK
<1>4. Seated(r) = {} /\ 0 \in Seats /\ c # None
  BY DEF Open, RoomRight, SeatsRight, Seats, Conns, None
<1>5. Seated(r)' = {0}
  BY <1>1, <1>3, <1>4 DEF Seated
<1>6. Cardinality({0}) = 1
  BY FS_Singleton
<1>7. SeatsRight(r)'
  BY <1>1, <1>2, <1>5, <1>6 DEF SeatsRight
<1>8. rpc[r] \in {"idle", "top", "check", "exit"}
  BY <1>1 DEF Open, RoomRight, ThreadRight, GamePlaces, Typed, SweepOK, RoomPlaces
<1>9. rpc[r] \in {"check", "top"} => stale'[r] = Admitted(r)
  BY <1>1 DEF Open, Typed, HistoryOK
<1>10. ThreadRight(r)'
  BY <1>1, <1>2, <1>8, <1>9 DEF ThreadRight, CopyRight, GamePlaces, Admitted
<1> QED
  BY <1>7, <1>10 DEF RoomRight

\* Join: there is an empty seat, and taking it adds one player.
LEMMA SeatFree ==
  ASSUME Typed, NEW r \in Rooms, SeatsRight(r), player_num[r] < ROOMCAP
  PROVE  EmptySeat(r) \in Seats /\ players[r][EmptySeat(r)] = None
<1> DEFINE S == {s \in Seats : players[r][s] = None}
<1>1. Seated(r) # Seats
  BY SeatedFinite, SizesAssumption DEF SeatsRight, Typed, SeatsOK
<1>2. S # {} /\ S \subseteq Nat
  BY <1>1 DEF Seated, Seats
<1>3. Min(S) \in S
  <2> HIDE DEF S
  <2> QED
    BY <1>2, MinOfSome
<1> QED
  BY <1>3 DEF EmptySeat

LEMMA JoinRight ==
  ASSUME Typed, NEW c \in Conns, Join(c), RoomRight(hroom[c])
  PROVE  RoomRight(hroom[c])'
<1> DEFINE r == hroom[c]
           e == EmptySeat(r)
<1> USE SizesAssumption
<1>1. r \in Rooms /\ hroom' = hroom
  BY DEF Join, Typed, HandlersOK
<1>2. used[r] /\ player_num[r] < ROOMCAP
  BY <1>1 DEF Join, Closed, Typed, SeatsOK
<1>3. e \in Seats /\ players[r][e] = None
  BY <1>1, <1>2, SeatFree DEF RoomRight
<1>4. /\ player_num'[r] = player_num[r] + 1 /\ player_num[r] \in Int
      /\ players' = [players EXCEPT ![r][e] = c]
      /\ UNCHANGED <<used, room_working, rpc, rseat, rused, ralive, stale>>
  BY <1>1 DEF Join, handlerFrame, roomVars, Typed, SeatsOK
<1> HIDE DEF e
<1>5. \A s \in Seats : players'[r][s] = IF s = e THEN c ELSE players[r][s]
  BY <1>1, <1>4, SeatSet DEF Typed, SeatsOK
<1>6. Seated(r)' = Seated(r) \cup {e} /\ e \notin Seated(r)
  BY <1>1, <1>3, <1>5 DEF Seated, Conns, None
<1>7. Cardinality(Seated(r) \cup {e}) = Cardinality(Seated(r)) + 1
  BY <1>1, <1>6, SeatedFinite, FS_AddElement
<1>8. SeatsRight(r)'
  BY <1>1, <1>2, <1>4, <1>6, <1>7 DEF RoomRight, SeatsRight
<1>9. ThreadRight(r)'
  BY <1>1, <1>3, <1>4, <1>5 DEF RoomRight, ThreadRight, CopyRight, Admitted, GamePlaces
<1> QED
  BY <1>8, <1>9 DEF RoomRight

\* A thread that does not misread reads for no stale seat.
LEMMA NoMisread ==
  ASSUME Typed, NEW r \in Rooms, NEW S, CountMisread(r, S), misreads' = 0
  PROVE  S \cap stale[r] = {}
BY DEF CountMisread, Typed, HistoryOK

\* The steps of the room's own thread.
LEMMA RoomStepRight ==
  ASSUME Typed, NEW r \in Rooms, RoomOwn(r) \/ RoomClient(r), RoomRight(r), misreads' = 0
  PROVE  RoomRight(r)'
<1> USE SizesAssumption
<1>1. /\ rpc \in [Rooms -> RoomPlaces] /\ rseat \in [Rooms -> 0 .. NSEAT]
      /\ rused \in [Rooms -> [Seats -> Conns \cup {None}]]
      /\ ralive \in [Rooms -> SUBSET Seats] /\ stale \in [Rooms -> SUBSET Seats]
  BY DEF Typed, SweepOK, CopiesOK, HistoryOK
\* A step that leaves the seats and flags alone.
<1>2. ASSUME UNCHANGED <<used, room_working, player_num, players>>
      PROVE  SeatsRight(r)'
  BY <1>2 DEF RoomRight, SeatsRight, Seated
<1> USE DEF GamePlaces, history
<1>3. CASE Wake(r)
  BY <1>1, <1>2, <1>3
  DEF Wake, roomData, RoomRight, SeatsRight, ThreadRight, CopyRight
<1>4. CASE Admit(r)
  <2>1. used[r]
    BY <1>4 DEF Admit, RoomRight, SeatsRight
  <2>2. /\ \A s \in Seats : rused'[r][s] \in {rused[r][s], players[r][s]}
        /\ rpc'[r] = "serve"
        /\ UNCHANGED <<used, room_working, player_num, players, stale>>
    BY <1>1, <1>4 DEF Admit
  <2>3. \A s \in Seats : rused'[r][s] \in {None, players[r][s]} \/ s \in stale[r]
    BY <1>4, <2>1, <2>2 DEF Admit, RoomRight, ThreadRight, CopyRight
  <2> QED
    BY <1>2, <2>1, <2>2, <2>3 DEF RoomRight, ThreadRight, CopyRight
<1>5. CASE SweepDone(r)
  BY <1>1, <1>2, <1>5 DEF SweepDone, roomData, RoomRight, ThreadRight, CopyRight
<1>6. CASE LeaveClosed(r) \/ LoopEnd(r)
  BY <1>1, <1>2, <1>6
  DEF LeaveClosed, LoopEnd, roomData, RoomRight, SeatsRight, ThreadRight, CopyRight
<1>7. CASE Exit(r)
  BY <1>1, <1>2, <1>7 DEF Exit, RoomRight, ThreadRight, CopyRight
<1>8. CASE RoomCount(r)
  <2>1. /\ \/ rpc[r] = "count" /\ rpc'[r] = "leave"
           \/ rpc[r] = "gcount" /\ rpc'[r] = "gleave"
        /\ UNCHANGED <<used, room_working, player_num, players, rseat, rused, ralive, stale>>
    BY <1>1, <1>8 DEF RoomCount, RoomCounting, roomData
  <2> QED
    BY <1>2, <2>1 DEF RoomRight, ThreadRight, CopyRight, Admitted
<1>9. CASE GiveUpSeat(r)
  <2> DEFINE e == rseat[r]
  <2>1. e \in Seats /\ e \in Seated(r)
    BY <1>9 DEF GiveUpSeat, RoomRight, ThreadRight, CopyRight, Typed, SweepOK, SweepSeat,
                Seated
  <2>2. /\ used'[r] <=> used[r] /\ player_num[r] # 1
        /\ room_working'[r] <=> room_working[r] /\ player_num[r] # 1
        /\ player_num'[r] = player_num[r] - 1 /\ player_num[r] \in Int
        /\ players' = [players EXCEPT ![r][e] = None]
        /\ rpc[r] = "leave" /\ rpc'[r] = "check" /\ UNCHANGED <<rseat, rused, ralive, stale>>
    BY <1>1, <1>9 DEF GiveUpSeat, Typed, FlagsOK, SeatsOK
  <2>3. \A s \in Seats : players'[r][s] = IF s = e THEN None ELSE players[r][s]
    BY <2>2, SeatSet DEF Typed, SeatsOK
  <2> HIDE DEF e
  <2>4. Seated(r)' = Seated(r) \ {e}
    BY <2>3 DEF Seated
  <2>5. /\ Cardinality(Seated(r) \ {e}) = Cardinality(Seated(r)) - 1
        /\ Cardinality(Seated(r) \ {e}) = 0 <=> Seated(r) \ {e} = {}
    BY <2>1, SeatedFinite, FS_RemoveElement, FS_EmptySet
  <2>6. SeatsRight(r)'
    BY <2>2, <2>4, <2>5 DEF RoomRight, SeatsRight
  <2>7. ThreadRight(r)'
    BY <2>2, <2>3 DEF RoomRight, ThreadRight, CopyRight, e
  <2> QED
    BY <2>6, <2>7 DEF RoomRight
<1>10. CASE Forget(r)
  <2>1. /\ rused' = [rused EXCEPT ![r][rseat[r]] = None]
        /\ rpc[r] = "check" /\ rpc'[r] = "serve" /\ room_working[r]
        /\ stale'[r] = stale[r] \ {rseat[r]}
        /\ UNCHANGED <<used, room_working, player_num, players>>
    BY <1>1, <1>10 DEF Forget, roomData
  <2>2. \A s \in Seats : rused'[r][s] = IF s = rseat[r] THEN None ELSE rused[r][s]
    BY <1>1, <2>1, SeatSet
  <2> QED
    BY <1>2, <2>1, <2>2 DEF RoomRight, SeatsRight, ThreadRight, CopyRight
<1>11. CASE GameLeft(r) \/ GameWon(r)
  BY <1>1, <1>2, <1>11
  DEF GameLeft, GameWon, GameOver, roomData, RoomRight, ThreadRight, CopyRight, Admitted
<1>12. CASE CloseAfterGame(r)
  <2>1. /\ ~used'[r] /\ ~room_working'[r] /\ player_num'[r] = 0 /\ rpc'[r] = "exit"
        /\ \A s \in Seats : players'[r][s] = None
    BY <1>1, <1>12 DEF CloseAfterGame, Typed, FlagsOK, SeatsOK
  <2>2. Seated(r)' = {}
    BY <2>1 DEF Seated
  <2> QED
    BY <2>1, <2>2, FS_EmptySet DEF RoomRight, SeatsRight, ThreadRight, CopyRight
<1>13. ASSUME NEW s \in Seats, Leave(r, s) \/ LeaveEOF(r, s)
       PROVE  RoomRight(r)'
  <2>1. /\ rpc[r] = "serve" /\ rpc'[r] \in {"leave", "count"} /\ rseat'[r] = s
        /\ rused[r][s] # None /\ CountMisread(r, {s})
        /\ UNCHANGED <<used, room_working, player_num, players, rused, stale>>
    BY <1>1, <1>13 DEF Leave, LeaveEOF, Readable, Admitted, roomData
  <2>2. s \notin stale[r]
    BY <2>1, NoMisread
  <2> QED
    BY <1>2, <2>1, <2>2 DEF RoomRight, ThreadRight, CopyRight
<1>14. ASSUME NEW s \in Seats, Start(r, s)
       PROVE  RoomRight(r)'
  <2>1. /\ rpc[r] = "serve" /\ rpc'[r] = "game" /\ ralive'[r] = Admitted(r)
        /\ CountMisread(r, Admitted(r))
        /\ UNCHANGED <<used, room_working, player_num, players, rused, stale>>
    BY <1>1, <1>14 DEF Start, Readable
  <2>2. Admitted(r) \cap stale[r] = {}
    BY <2>1, NoMisread
  <2> QED
    BY <1>2, <2>1, <2>2 DEF RoomRight, ThreadRight, CopyRight, Admitted
<1>15. ASSUME NEW s \in Seats, GameLeave(r, s) \/ GameEOF(r, s)
       PROVE  RoomRight(r)'
  <2>1. /\ rpc[r] = "game" /\ rpc'[r] \in {"gleave", "gcount"}
        /\ ralive'[r] = ralive[r] \ {s}
        /\ UNCHANGED <<used, room_working, player_num, players, rused, stale>>
    BY <1>1, <1>15 DEF GameLeave, GameEOF, roomData
  <2> QED
    BY <1>2, <2>1 DEF RoomRight, ThreadRight, CopyRight, Admitted
<1> QED
  BY <1>3, <1>4, <1>5, <1>6, <1>7, <1>8, <1>9, <1>10, <1>11, <1>12, <1>13, <1>14, <1>15
  DEF RoomOwn, RoomClient

\* The misreads are counted up.
LEMMA MisreadsGrows == Typed /\ [Next]_vars => misreads' >= misreads
<1> SUFFICES ASSUME Typed, [Next]_vars
             PROVE  misreads' >= misreads
  OBVIOUS
<1>1. misreads \in Nat
  BY DEF Typed, HistoryOK
<1>2. ASSUME NEW r \in Rooms, NEW S, CountMisread(r, S)
      PROVE  misreads' >= misreads
  BY <1>1, <1>2 DEF CountMisread
<1>3. CASE MainOwn \/ MainClient
  <2>1. misreads' = misreads
    BY <1>3 DEF MainOwn, MainClient, Scan, Select, AcceptNone, Count, ServeDone, Accept,
                Serve, ServeEOF, ServeRequest, poolVars, history
  <2> QED
    BY <1>1, <2>1
<1>4. ASSUME NEW c \in Conns, GetInRoom(c)
      PROVE  misreads' >= misreads
  <2>1. misreads' = misreads
    BY <1>4 DEF GetInRoom, TakeRequest, ScanRandom, ScanRandomEnd, ScanUnused, OpenRetry,
                Open, Join, JoinRetry, JoinReject, Done, BackToLobby, handlerFrame
  <2> QED
    BY <1>1, <2>1
<1>5. ASSUME NEW r \in Rooms, RoomOwn(r) \/ RoomClient(r)
      PROVE  misreads' >= misreads
  <2>1. (\E S : CountMisread(r, S)) \/ misreads' = misreads
    BY <1>5 DEF RoomOwn, RoomClient, Wake, Admit, SweepDone, RoomCount, GiveUpSeat,
                LeaveClosed, Forget, GameLeft, GameWon, CloseAfterGame, LoopEnd, Exit, Leave,
                LeaveEOF, Start, GameLeave, GameEOF, history
  <2> QED
    BY <1>1, <1>2, <2>1
<1>6. CASE UNCHANGED vars
  BY <1>1, <1>6 DEF vars, history
<1> QED
  BY <1>3, <1>4, <1>5, <1>6 DEF Next

LEMMA NextRoomRight ==
  ASSUME Typed, [Next]_vars, misreads' = 0, \A r \in Rooms : RoomRight(r)
  PROVE  \A r \in Rooms : RoomRight(r)'
<1> SUFFICES ASSUME NEW q \in Rooms
             PROVE  RoomRight(q)'
  OBVIOUS
<1>1. CASE MainOwn \/ MainClient
  BY <1>1, MainSameRoom, SameRoomRight
<1>2. ASSUME NEW c \in Conns, GetInRoom(c)
      PROVE  RoomRight(q)'
  <2>1. CASE Open(c) /\ hroom[c] = q
    <3>1. hroom' = hroom
      BY <2>1 DEF Open
    <3> QED
      BY <2>1, <3>1, OpenRight
  <2>2. CASE Join(c) /\ hroom[c] = q
    <3>1. hroom' = hroom
      BY <2>2 DEF Join
    <3> QED
      BY <2>2, <3>1, JoinRight
  <2>3. CASE ~(Open(c) /\ hroom[c] = q) /\ ~(Join(c) /\ hroom[c] = q)
    <3>1. SameRoom(q)
      BY <1>2, <2>3, HandlerSameRoom
    <3> QED
      BY <3>1, SameRoomRight
  <2> QED
    BY <2>1, <2>2, <2>3
<1>3. ASSUME NEW r \in Rooms, RoomOwn(r) \/ RoomClient(r)
      PROVE  RoomRight(q)'
  <2>1. CASE q = r
    BY <1>3, <2>1, RoomStepRight
  <2>2. CASE q # r
    <3>1. SameRoom(q)
      BY <1>3, <2>2, RoomSameRoom
    <3> QED
      BY <3>1, SameRoomRight
  <2> QED
    BY <2>1, <2>2
<1>4. CASE UNCHANGED vars
  <2>1. SameRoom(q)
    BY <1>4 DEF vars, roomData, roomVars, history, SameRoom
  <2> QED
    BY <2>1, SameRoomRight
<1> QED
  BY <1>1, <1>2, <1>3, <1>4 DEF Next

LEMMA InitRoomRight == Init => \A r \in Rooms : RoomRight(r)
<1> SUFFICES ASSUME Init, NEW r \in Rooms
             PROVE  RoomRight(r)
  OBVIOUS
<1>1. Seated(r) = {}
  BY DEF Init, Seated
<1> QED
  BY <1>1, FS_EmptySet, SizesAssumption
  DEF Init, RoomRight, SeatsRight, ThreadRight, CopyRight, GamePlaces

-----------------------------------------------------------------------------
(* Who reads a connection's socket.                                        *)

(***************************************************************************)
(* The connection that seat s of room r stands for, as far as the room's   *)
(* thread will read it: in a game the players still alive, otherwise       *)
(* whoever sits there, but for the one that is leaving.                    *)
(***************************************************************************)
Holds(r, s) ==
  IF rpc[r] \in GamePlaces THEN IF s \in ralive[r] THEN rused[r][s] ELSE None
  ELSE IF rpc[r] = "over" \/ (rpc[r] \in {"count", "leave"} /\ s = rseat[r]) THEN None
  ELSE players[r][s]

\* Thread c has a request of its connection to carry out.
Requesting(c) ==
  \/ hpc[c] \in {"create", "join", "random", "joinrandom", "open", "openrandom", "full",
                 "reject", "lobby"}
  \/ hpc[c] = "idle" /\ handler_working[c]

\* A connection is held by one seat at most, it is then not main()'s, and no
\* request of it is under way; one whose request is under way is not main()'s.
OneHolder ==
  \A c \in Conns, r \in Rooms, s \in Seats : Holds(r, s) = c =>
    /\ state[c] = 2 /\ ~Requesting(c)
    /\ \A q \in Rooms, t \in Seats : Holds(q, t) = c => q = r /\ t = s

RequestsHeld ==
  \A c \in Conns : /\ Requesting(c) => state[c] = 2
                   /\ hpc[c] = "lobby" => ~handler_working[c]

Owners == OneHolder /\ RequestsHeld

\* A step after which seats stand for what they did, or for nothing, and in
\* which the connections they still stand for are left alone.
LEMMA HoldersKept ==
  ASSUME OneHolder,
         \A r \in Rooms, s \in Seats, c \in Conns : Holds(r, s)' = c =>
           /\ Holds(r, s) = c
           /\ state'[c] = state[c]
           /\ Requesting(c)' => Requesting(c)
  PROVE  OneHolder'
BY DEF OneHolder

\* main() touches only connections that no seat stands for.
LEMMA MainOwners ==
  ASSUME Typed, Owners, MainOwn \/ MainClient
  PROVE  Owners'
<1>1. \A r \in Rooms, s \in Seats : Holds(r, s)' = Holds(r, s)
  BY MainSameRoom DEF SameRoom, Holds
<1>2. hpc' = hpc /\ state \in [Conns -> 0 .. 2] /\ handler_working \in [Conns -> BOOLEAN]
  BY DEF MainOwn, MainClient, Scan, Select, AcceptNone, Count, ServeDone, Accept, Serve,
         ServeEOF, ServeRequest, poolVars, handlerVars, Typed, ConnsOK, RequestsOK
<1>3. ASSUME UNCHANGED <<state, handler_working>>
      PROVE  Owners'
  <2>1. \A c \in Conns : Requesting(c)' <=> Requesting(c)
    BY <1>2, <1>3 DEF Requesting
  <2>2. OneHolder'
    BY <1>1, <1>3, <2>1, HoldersKept DEF Owners
  <2> QED
    BY <1>2, <1>3, <2>1, <2>2 DEF Owners, RequestsHeld
<1>4. ASSUME NEW d \in Conns, state[d] # 2,
             \A c \in Conns \ {d} : state'[c] = state[c] /\ handler_working'[c] = handler_working[c],
             state'[d] = 2 \/ handler_working'[d] = handler_working[d]
      PROVE  Owners'
  <2>1. \A c \in Conns \ {d} : Requesting(c)' <=> Requesting(c)
    BY <1>2, <1>4 DEF Requesting
  <2>2. ~Requesting(d) /\ hpc[d] # "lobby"
    BY <1>4 DEF Owners, RequestsHeld, Requesting
  <2>3. \A r \in Rooms, s \in Seats : Holds(r, s) # d
    BY <1>4 DEF Owners, OneHolder
  <2>4. OneHolder'
    BY <1>1, <1>4, <2>1, <2>3, HoldersKept DEF Owners
  <2>5. Requesting(d)' => state'[d] = 2
    BY <1>2, <1>4, <2>2 DEF Requesting
  <2>6. RequestsHeld'
    BY <1>2, <1>4, <2>1, <2>2, <2>5 DEF Owners, RequestsHeld
  <2> QED
    BY <2>4, <2>6 DEF Owners
<1>5. CASE Scan \/ Select \/ AcceptNone \/ Count \/ ServeDone
  BY <1>3, <1>5 DEF Scan, Select, AcceptNone, Count, ServeDone, requestVars
<1>6. CASE Accept
  <2>1. Free \subseteq Nat /\ Free # {}
    BY <1>6 DEF Accept, Free, Conns
  <2>2. Min(Free) \in Free
    BY <2>1, MinOfSome
  <2>3. Min(Free) \in Conns /\ state[Min(Free)] = 0
    BY <2>2 DEF Free
  <2>4. state' = [state EXCEPT ![Min(Free)] = 1] /\ handler_working' = handler_working
    BY <1>6 DEF Accept, requestVars
  <2> QED
    BY <1>2, <1>4, <2>3, <2>4
<1>7. ASSUME NEW k \in 1 .. Len(used_player_list), NEW v, Servable(k),
             state' = [state EXCEPT ![used_player_list[k]] = v],
             \/ handler_working' = handler_working
             \/ /\ v = 2
                /\ handler_working' = [handler_working EXCEPT ![used_player_list[k]] = TRUE]
      PROVE  Owners'
  <2>1. used_player_list[k] \in Conns
    BY DEF Typed, MainOK
  <2> QED
    BY <1>2, <1>4, <1>7, <2>1 DEF Servable
<1>8. ASSUME NEW k \in 1 .. Len(used_player_list), ServeEOF(k)
      PROVE  Owners'
  BY <1>7, <1>8 DEF ServeEOF, requestVars
<1>9. ASSUME NEW k \in 1 .. Len(used_player_list), NEW op, NEW r, ServeRequest(k, op, r)
      PROVE  Owners'
  BY <1>7, <1>9 DEF ServeRequest
<1> QED
  BY <1>5, <1>6, <1>8, <1>9 DEF MainOwn, MainClient, Serve

\* A handler takes its connection to a seat or back to the lobby.
LEMMA HandlerOwners ==
  ASSUME Typed, Owners, NEW d \in Conns, GetInRoom(d),
         \A r \in Rooms : RoomRight(r)
  PROVE  Owners'
<1>1. /\ state \in [Conns -> 0 .. 2] /\ handler_working \in [Conns -> BOOLEAN]
      /\ hpc \in [Conns -> HandlerPlaces]
  BY DEF Typed, ConnsOK, RequestsOK, HandlersOK
<1>2. \A c \in Conns \ {d} :
        /\ hpc'[c] = hpc[c] /\ state'[c] = state[c]
        /\ handler_working'[c] = handler_working[c]
        /\ Requesting(c)' <=> Requesting(c)
  <2>1. CASE TakeRequest(d) \/ ScanRandom(d) \/ ScanRandomEnd(d) \/ ScanUnused(d)
    BY <1>1, <2>1 DEF TakeRequest, ScanRandom, ScanRandomEnd, ScanUnused, Requesting
  <2>2. CASE OpenRetry(d) \/ JoinRetry(d) \/ JoinReject(d)
    BY <1>1, <2>2 DEF OpenRetry, JoinRetry, Rescan, JoinReject, Requesting
  <2>3. CASE Open(d) \/ Join(d)
    BY <1>1, <2>3 DEF Open, Join, Requesting
  <2>4. CASE Done(d) \/ BackToLobby(d)
    BY <1>1, <2>4 DEF Done, BackToLobby, Requesting
  <2> QED
    BY <2>1, <2>2, <2>3, <2>4 DEF GetInRoom
\* It is enough to know what becomes of d.
<1>3. ASSUME \A r \in Rooms, s \in Seats : Holds(r, s)' = Holds(r, s),
             \/ state'[d] = state[d] /\ (Requesting(d)' => Requesting(d))
             \/ Requesting(d) /\ ~Requesting(d)',
             hpc'[d] = "lobby" => ~handler_working'[d]
      PROVE  Owners'
  <2>1. OneHolder'
    BY <1>2, <1>3, HoldersKept DEF Owners, OneHolder
  <2>2. RequestsHeld'
    BY <1>2, <1>3 DEF Owners, RequestsHeld
  <2> QED
    BY <2>1, <2>2 DEF Owners
<1>4. ASSUME ~Open(d), ~Join(d)
      PROVE  \A r \in Rooms, s \in Seats : Holds(r, s)' = Holds(r, s)
  BY <1>4, HandlerSameRoom DEF SameRoom, Holds
<1>5. CASE ~Open(d) /\ ~Join(d)
  <2>1. CASE TakeRequest(d)
    BY <1>1, <1>3, <1>4, <1>5, <2>1 DEF TakeRequest, Requesting, Typed, RequestsOK, Ops
  <2>2. CASE ScanRandom(d) \/ ScanRandomEnd(d) \/ ScanUnused(d)
    BY <1>1, <1>3, <1>4, <1>5, <2>2 DEF ScanRandom, ScanRandomEnd, ScanUnused, Requesting
  <2>3. CASE OpenRetry(d) \/ JoinRetry(d) \/ JoinReject(d)
    BY <1>1, <1>3, <1>4, <1>5, <2>3 DEF OpenRetry, JoinRetry, Rescan, JoinReject, Requesting
  <2>4. CASE Done(d)
    BY <1>1, <1>3, <1>4, <1>5, <2>4 DEF Done, Requesting
  <2>5. CASE BackToLobby(d)
    BY <1>1, <1>3, <1>4, <1>5, <2>5 DEF BackToLobby, Requesting, Owners, RequestsHeld
  <2> QED
    BY <1>5, <2>1, <2>2, <2>3, <2>4, <2>5 DEF GetInRoom
<1>6. ASSUME NEW r \in Rooms, NEW e \in Seats, Requesting(d), hpc'[d] = "done",
             state' = state,
             \A q \in Rooms, s \in Seats :
               Holds(q, s)' = IF q = r /\ s = e THEN d ELSE Holds(q, s)
      PROVE  Owners'
  <2>1. \A q \in Rooms, s \in Seats : Holds(q, s) # d
    BY <1>6 DEF Owners, OneHolder
  <2>2. state[d] = 2 /\ ~Requesting(d)'
    BY <1>6 DEF Owners, RequestsHeld, Requesting
  <2>3. OneHolder'
    BY <1>2, <1>6, <2>1, <2>2 DEF Owners, OneHolder
  <2>4. RequestsHeld'
    BY <1>2, <1>6, <2>2 DEF Owners, RequestsHeld
  <2> QED
    BY <2>3, <2>4 DEF Owners
<1>7. ASSUME NEW r \in Rooms, NEW e \in Seats,
             players'[r] = [players[r] EXCEPT ![e] = d], players[r][e] = None,
             UNCHANGED <<rpc, rseat, rused, ralive>>,
             \A q \in Rooms \ {r} : players'[q] = players[q],
             rpc[r] \notin GamePlaces \cup {"over"}
      PROVE  \A q \in Rooms, s \in Seats :
               Holds(q, s)' = IF q = r /\ s = e THEN d ELSE Holds(q, s)
  <2>1. rpc[r] \in {"count", "leave"} => e # rseat[r]
    BY <1>7 DEF RoomRight, ThreadRight, CopyRight
  <2>2. players[r] \in [Seats -> Conns \cup {None}]
    BY DEF Typed, SeatsOK
  <2> QED
    BY <1>7, <2>1, <2>2 DEF Holds
<1>8. CASE Open(d)
  <2>1. hroom[d] \in Rooms /\ 0 \in Seats
    BY <1>8, SizesAssumption DEF Open, Typed, HandlersOK, Seats
  <2>5. rpc[hroom[d]] \notin GamePlaces \cup {"over"}
    BY <1>8, <2>1 DEF Open, RoomRight, ThreadRight
  <2>2. players[hroom[d]][0] = None
    BY <1>8, <2>1 DEF Open, RoomRight, SeatsRight, Seated
  <2>3. /\ Requesting(d) /\ hpc'[d] = "done" /\ state' = state
        /\ UNCHANGED <<rpc, rseat, rused, ralive>>
        /\ players'[hroom[d]] = [players[hroom[d]] EXCEPT ![0] = d]
        /\ \A q \in Rooms \ {hroom[d]} : players'[q] = players[q]
    BY <1>1, <1>8, <2>1 DEF Open, Requesting, handlerFrame, roomVars, Typed, SeatsOK
  <2>4. \A q \in Rooms, s \in Seats :
          Holds(q, s)' = IF q = hroom[d] /\ s = 0 THEN d ELSE Holds(q, s)
    BY <1>7, <2>1, <2>2, <2>3, <2>5
  <2> QED
    BY <1>6, <2>1, <2>3, <2>4
<1>9. CASE Join(d)
  <2> DEFINE r == hroom[d]
             e == EmptySeat(r)
  <2>1. r \in Rooms
    BY <1>9 DEF Join, Typed, HandlersOK
  <2>2. e \in Seats /\ players[r][e] = None
    <3>1. player_num[r] < ROOMCAP
      BY <1>9, <2>1, SizesAssumption DEF Join, Closed, Typed, SeatsOK
    <3> QED
      BY <2>1, <3>1, SeatFree DEF RoomRight
  <2>3. /\ Requesting(d) /\ hpc'[d] = "done" /\ state' = state
        /\ UNCHANGED <<rpc, rseat, rused, ralive>>
        /\ players' = [players EXCEPT ![r][e] = d]
    BY <1>1, <1>9, <2>1 DEF Join, Requesting, handlerFrame, roomVars
  <2> HIDE DEF e
  <2>4. /\ players'[r] = [players[r] EXCEPT ![e] = d]
        /\ \A q \in Rooms \ {r} : players'[q] = players[q]
    BY <2>1, <2>3 DEF Typed, SeatsOK
  <2>5. CASE rpc[r] \in GamePlaces \cup {"over"}
    <3>1. \A q \in Rooms, s \in Seats : Holds(q, s)' = Holds(q, s)
      BY <2>3, <2>4, <2>5 DEF Holds
    <3>2. ~Requesting(d)'
      BY <2>3 DEF Requesting
    <3> QED
      BY <1>3, <2>3, <3>1, <3>2
  <2>6. CASE rpc[r] \notin GamePlaces \cup {"over"}
    <3>1. \A q \in Rooms, s \in Seats :
            Holds(q, s)' = IF q = r /\ s = e THEN d ELSE Holds(q, s)
      BY <1>7, <2>1, <2>2, <2>3, <2>4, <2>6
    <3> QED
      BY <1>6, <2>1, <2>2, <2>3, <3>1
  <2> QED
    BY <2>5, <2>6
<1> QED
  BY <1>5, <1>8, <1>9

\* A room thread lets go of the connections it sends away.
LEMMA RoomOwners ==
  ASSUME Typed, Owners, NEW r \in Rooms, RoomOwn(r) \/ RoomClient(r), RoomRight(r),
         misreads' = 0
  PROVE  /\ Owners'
         /\ \A c \in Conns : state'[c] # state[c] => state[c] = 2
<1>1. /\ rpc \in [Rooms -> RoomPlaces] /\ rseat \in [Rooms -> 0 .. NSEAT]
      /\ rused \in [Rooms -> [Seats -> Conns \cup {None}]] /\ None \notin Conns
      /\ ralive \in [Rooms -> SUBSET Seats] /\ state \in [Conns -> 0 .. 2]
      /\ players \in [Rooms -> [Seats -> Conns \cup {None}]]
  BY DEF Typed, SweepOK, CopiesOK, SeatsOK, ConnsOK, Conns, None
<1>2. UNCHANGED <<hpc, handler_working>>
  BY DEF RoomOwn, RoomClient, Wake, Admit, SweepDone, RoomCount, GiveUpSeat, LeaveClosed,
         Forget, GameLeft, GameOver, GameWon, CloseAfterGame, LoopEnd, Exit, Leave, LeaveEOF,
         Start, GameLeave, GameEOF, roomFrame, requestVars, handlerVars
<1>3. \A c \in Conns : Requesting(c)' <=> Requesting(c)
  BY <1>2 DEF Requesting
<1>4. \A q \in Rooms \ {r}, s \in Seats : Holds(q, s)' = Holds(q, s)
  BY RoomSameRoom DEF SameRoom, Holds
\* It is enough to know what becomes of the connections of room r: some may be
\* let go, and only those change their state.
<1>5. ASSUME \A s \in Seats : Holds(r, s)' \in {None, Holds(r, s)},
             \A c \in Conns : state'[c] # state[c] =>
               \E s \in Seats : Holds(r, s) = c /\ Holds(r, s)' = None
      PROVE  Owners' /\ \A c \in Conns : state'[c] # state[c] => state[c] = 2
  <2>1. \A q \in Rooms, s \in Seats, c \in Conns : Holds(q, s)' = c => Holds(q, s) = c
    BY <1>1, <1>4, <1>5
  <2>2. \A c \in Conns : state'[c] # state[c] =>
          /\ state[c] = 2 /\ ~Requesting(c)
          /\ \A q \in Rooms, s \in Seats : Holds(q, s)' # c
    <3> SUFFICES ASSUME NEW c \in Conns, state'[c] # state[c]
                 PROVE  /\ state[c] = 2 /\ ~Requesting(c)
                        /\ \A q \in Rooms, s \in Seats : Holds(q, s)' # c
      OBVIOUS
    <3>1. PICK s \in Seats : Holds(r, s) = c /\ Holds(r, s)' = None
      BY <1>5
    <3>2. ASSUME NEW q \in Rooms, NEW t \in Seats, Holds(q, t)' = c
          PROVE  FALSE
      <4>1. Holds(q, t) = c
        BY <2>1, <3>2
      <4>2. q = r /\ t = s
        BY <3>1, <4>1 DEF Owners, OneHolder
      <4> QED
        BY <1>1, <3>1, <3>2, <4>2
    <3> QED
      BY <3>1, <3>2 DEF Owners, OneHolder
  <2>3. OneHolder'
    BY <1>3, <2>1, <2>2, HoldersKept DEF Owners
  <2>4. RequestsHeld'
    BY <1>2, <1>3, <2>2 DEF Owners, RequestsHeld
  <2> QED
    BY <2>2, <2>3, <2>4 DEF Owners
<1>6. ASSUME state' = state, \A s \in Seats : Holds(r, s)' \in {None, Holds(r, s)}
      PROVE  Owners' /\ \A c \in Conns : state'[c] # state[c] => state[c] = 2
  BY <1>5, <1>6
<1> USE DEF GamePlaces
<1>7. CASE Wake(r) \/ Admit(r) \/ SweepDone(r) \/ LeaveClosed(r) \/ LoopEnd(r) \/ Exit(r)
  <2>1. \A s \in Seats : Holds(r, s)' = Holds(r, s)
    BY <1>1, <1>7 DEF Wake, Admit, SweepDone, LeaveClosed, LoopEnd, Exit, roomData, Holds
  <2>2. state' = state
    BY <1>7 DEF Wake, Admit, SweepDone, LeaveClosed, LoopEnd, Exit
  <2> QED
    BY <1>6, <2>1, <2>2
<1>8. CASE RoomCount(r)
  <2>1. \A s \in Seats : Holds(r, s)' = Holds(r, s)
    BY <1>1, <1>8 DEF RoomCount, RoomCounting, roomData, Holds
  <2> QED
    BY <1>6, <1>8, <2>1 DEF RoomCount
<1>9. CASE GiveUpSeat(r)
  <2>1. \A s \in Seats : players'[r][s] = IF s = rseat[r] THEN None ELSE players[r][s]
    BY <1>1, <1>9, SeatSet DEF GiveUpSeat
  <2>2. \A s \in Seats : Holds(r, s)' = Holds(r, s)
    BY <1>1, <1>9, <2>1 DEF GiveUpSeat, Holds
  <2> QED
    BY <1>6, <1>9, <2>2 DEF GiveUpSeat
<1>10. CASE Forget(r)
  <2>1. \A s \in Seats : Holds(r, s)' = Holds(r, s)
    BY <1>1, <1>10 DEF Forget, roomData, Holds
  <2> QED
    BY <1>6, <1>10, <2>1 DEF Forget
<1>11. CASE GameLeft(r) \/ GameWon(r)
  <2>1. CASE GameOver(r)
    <3>1. \A s \in Seats : Holds(r, s)' = None
      BY <1>1, <2>1 DEF GameOver, Holds
    <3>2. rpc[r] \in GamePlaces
      BY <1>11 DEF GameLeft, GameWon
    <3>3. ASSUME NEW c \in Conns, state'[c] # state[c]
          PROVE  \E s \in Seats : Holds(r, s) = c
      <4>1. \E s \in ralive[r] : rused[r][s] = c
        BY <1>1, <2>1, <3>3 DEF GameOver
      <4> QED
        BY <1>1, <3>2, <4>1 DEF Holds
    <3> QED
      BY <1>5, <3>1, <3>3
  <2>2. CASE ~GameOver(r)
    <3>1. state' = state /\ \A s \in Seats : Holds(r, s)' = Holds(r, s)
      BY <1>1, <1>11, <2>2 DEF GameLeft, GameWon, roomData, Holds
    <3> QED
      BY <1>6, <3>1
  <2> QED
    BY <2>1, <2>2
<1>12. CASE CloseAfterGame(r)
  <2>1. \A s \in Seats : Holds(r, s)' = None
    BY <1>1, <1>12 DEF CloseAfterGame, Holds
  <2> QED
    BY <1>6, <1>12, <2>1 DEF CloseAfterGame
<1>13. ASSUME NEW s \in Seats, NEW v, state' = [state EXCEPT ![rused[r][s]] = v],
              Holds(r, s) = rused[r][s], Holds(r, s)' = None,
              \A t \in Seats : Holds(r, t)' \in {None, Holds(r, t)}
       PROVE  Owners' /\ \A c \in Conns : state'[c] # state[c] => state[c] = 2
  <2>1. \A c \in Conns : state'[c] # state[c] => c = rused[r][s]
    BY <1>1, <1>13
  <2> QED
    BY <1>5, <1>13, <2>1
<1>14. ASSUME NEW s \in Seats, Leave(r, s) \/ LeaveEOF(r, s)
       PROVE  Owners' /\ \A c \in Conns : state'[c] # state[c] => state[c] = 2
  <2>1. /\ rpc[r] = "serve" /\ rpc'[r] \in {"leave", "count"} /\ rseat'[r] = s
        /\ rused[r][s] # None /\ CountMisread(r, {s}) /\ UNCHANGED <<players, rused>>
        /\ \E v : state' = [state EXCEPT ![rused[r][s]] = v]
    BY <1>1, <1>14 DEF Leave, LeaveEOF, Readable, Admitted, roomData
  <2>2. rused[r][s] = players[r][s]
    BY <2>1, NoMisread DEF RoomRight, ThreadRight, CopyRight
  <2>3. /\ Holds(r, s) = rused[r][s] /\ Holds(r, s)' = None
        /\ \A t \in Seats : Holds(r, t)' \in {None, Holds(r, t)}
    BY <2>1, <2>2 DEF Holds
  <2> QED
    BY <1>13, <2>1, <2>3
<1>15. ASSUME NEW s \in Seats, Start(r, s)
       PROVE  Owners' /\ \A c \in Conns : state'[c] # state[c] => state[c] = 2
  <2>1. /\ rpc[r] = "serve" /\ rpc'[r] = "game" /\ ralive'[r] = Admitted(r)
        /\ CountMisread(r, Admitted(r)) /\ UNCHANGED <<players, rused, state>>
    BY <1>1, <1>15 DEF Start, Readable
  <2>2. \A t \in Admitted(r) : rused[r][t] = players[r][t]
    BY <2>1, NoMisread DEF RoomRight, ThreadRight, CopyRight, Admitted
  <2>3. \A t \in Seats : Holds(r, t)' \in {None, Holds(r, t)}
    BY <2>1, <2>2 DEF Holds
  <2> QED
    BY <1>6, <2>1, <2>3
<1>16. ASSUME NEW s \in Seats, GameLeave(r, s) \/ GameEOF(r, s)
       PROVE  Owners' /\ \A c \in Conns : state'[c] # state[c] => state[c] = 2
  <2>1. /\ rpc[r] = "game" /\ rpc'[r] \in {"gleave", "gcount"} /\ s \in ralive[r]
        /\ ralive'[r] = ralive[r] \ {s} /\ UNCHANGED <<players, rused>>
        /\ \E v : state' = [state EXCEPT ![rused[r][s]] = v]
    BY <1>1, <1>16 DEF GameLeave, GameEOF, roomData
  <2>2. /\ Holds(r, s) = rused[r][s] /\ Holds(r, s)' = None
        /\ \A t \in Seats : Holds(r, t)' \in {None, Holds(r, t)}
    BY <2>1 DEF Holds
  <2> QED
    BY <1>13, <2>1, <2>2
<1> QED
  BY <1>7, <1>8, <1>9, <1>10, <1>11, <1>12, <1>14, <1>15, <1>16 DEF RoomOwn, RoomClient

LEMMA NextOwners ==
  ASSUME Typed, Owners, [Next]_vars, misreads' = 0, \A r \in Rooms : RoomRight(r)
  PROVE  Owners'
<1>1. CASE UNCHANGED vars
  <2>1. \A r \in Rooms, s \in Seats : Holds(r, s)' = Holds(r, s)
    BY <1>1 DEF vars, roomData, roomVars, Holds
  <2>2. \A c \in Conns : Requesting(c)' <=> Requesting(c)
    BY <1>1 DEF vars, requestVars, handlerVars, Requesting
  <2>3. UNCHANGED <<state, hpc, handler_working>>
    BY <1>1 DEF vars, requestVars, handlerVars
  <2>4. OneHolder'
    BY <2>1, <2>2, <2>3, HoldersKept DEF Owners
  <2> QED
    BY <2>2, <2>3, <2>4 DEF Owners, RequestsHeld
<1> QED
  BY <1>1, MainOwners, HandlerOwners, RoomOwners DEF Next

LEMMA InitOwners == Init => Owners
<1> SUFFICES ASSUME Init
             PROVE  Owners
  OBVIOUS
<1>1. \A c \in Conns : ~Requesting(c) /\ hpc[c] # "lobby"
  BY DEF Init, Requesting
<1>2. \A r \in Rooms, s \in Seats : Holds(r, s) = None
  BY DEF Init, Holds, GamePlaces
<1> QED
  BY <1>1, <1>2 DEF Owners, OneHolder, RequestsHeld, Conns, None

\* A room thread reads only what its seats stand for.
LEMMA ReadsHeld ==
  ASSUME Typed, NEW r \in Rooms, RoomRight(r), NEW c \in Conns, RoomReads(r, c)
  PROVE  \E s \in Seats : Holds(r, s) = c
<1>1. None \notin Conns /\ ralive[r] \subseteq Seats
  BY DEF Conns, None, Typed, CopiesOK
<1>2. PICK s \in ReadSeats(r) \ stale[r] : rused[r][s] = c
  BY DEF RoomReads
<1>3. CASE rpc[r] \in {"top", "serve"}
  <2>1. room_working[r] /\ s \in Seats
    BY <1>2, <1>3 DEF ReadSeats, Admitted
  <2>2. players[r][s] = c
    BY <1>1, <1>2, <1>3, <2>1 DEF RoomRight, SeatsRight, ThreadRight, CopyRight
  <2> QED
    BY <1>3, <2>1, <2>2 DEF Holds, GamePlaces
<1>4. CASE rpc[r] \in GamePlaces
  <2>1. s \in ralive[r]
    BY <1>2, <1>4 DEF ReadSeats, GamePlaces
  <2> QED
    BY <1>1, <1>2, <1>4, <2>1 DEF Holds
<1> QED
  BY <1>2, <1>3, <1>4 DEF ReadSeats, GamePlaces

-----------------------------------------------------------------------------
(* main()'s books.                                                         *)

Listed == \A c \in Conns : state[c] # 0 => c \in ToSet(used_player_list)
Live == Conns \ Free
Counting == {r \in Rooms : RoomCounting(r)}

\* The second half of BooksRight, and what a thread that is about to store the
\* counter has loaded.
Counted ==
  raced = 0 =>
    /\ Cardinality(Live) =
         global_player_num + (IF mpc = "count" THEN mload - global_player_num ELSE 0)
           - Cardinality(Counting)
    /\ \A r \in Counting : rload[r] = global_player_num - 1

LEMMA BooksFinite ==
  /\ IsFiniteSet(Live) /\ Cardinality(Live) \in Nat
  /\ IsFiniteSet(Counting) /\ Cardinality(Counting) \in Nat
<1>1. IsFiniteSet(Conns) /\ IsFiniteSet(Rooms)
  BY FS_Interval, SizesAssumption DEF Conns, Rooms
<1> QED
  BY <1>1, FS_Subset, FS_CardinalityType DEF Live, Counting

\* A step that counts nobody in or out.
LEMMA CountedKept ==
  ASSUME Counted, UNCHANGED <<global_player_num, mload, rload, raced>>,
         mpc' = "count" <=> mpc = "count",
         \A r \in Rooms : RoomCounting(r)' <=> RoomCounting(r),
         \A c \in Conns : state'[c] = 0 <=> state[c] = 0
  PROVE  Counted'
<1>1. Live' = Live
  BY DEF Live, Free
<1>2. Counting' = Counting
  BY DEF Counting
<1> QED
  BY <1>1, <1>2 DEF Counted

\* A connection that is closed is one less, one that is accepted one more.
LEMMA LiveLess ==
  ASSUME NEW d \in Conns, state[d] # 0, state'[d] = 0,
         \A c \in Conns \ {d} : state'[c] = 0 <=> state[c] = 0
  PROVE  Cardinality(Live') = Cardinality(Live) - 1
<1>1. Live' = Live \ {d} /\ d \in Live
  BY DEF Live, Free
<1> QED
  BY <1>1, BooksFinite, FS_RemoveElement

LEMMA LiveMore ==
  ASSUME NEW d \in Conns, state[d] = 0, state'[d] # 0,
         \A c \in Conns \ {d} : state'[c] = 0 <=> state[c] = 0
  PROVE  Cardinality(Live') = Cardinality(Live) + 1
<1>1. Live' = Live \cup {d} /\ d \notin Live
  BY DEF Live, Free
<1> QED
  BY <1>1, BooksFinite, FS_AddElement

\* main() keeps its books: it accepts, it sees an end, it stores the counter.
LEMMA MainBooks ==
  ASSUME Typed, Listed, Counted, MainOwn \/ MainClient, raced' = 0 => raced = 0
  PROVE  Listed' /\ Counted'
<1>1. /\ state \in [Conns -> 0 .. 2] /\ global_player_num \in Int /\ mload \in Int
      /\ used_player_list \in Seq(Conns) /\ raced \in Nat
      /\ Cardinality(Live) \in Nat /\ Cardinality(Counting) \in Nat
  BY BooksFinite DEF Typed, ConnsOK, MainOK, HistoryOK
<1>2. UNCHANGED <<rpc, rload>> /\ Counting' = Counting
      /\ \A r \in Rooms : RoomCounting(r)' <=> RoomCounting(r)
  <2>1. UNCHANGED <<rpc, rload>>
    BY DEF MainOwn, MainClient, Scan, Select, AcceptNone, Count, ServeDone, Accept, Serve,
           ServeEOF, ServeRequest, poolVars, roomVars
  <2> QED
    BY <2>1 DEF Counting, RoomCounting
<1>3. CASE Scan
  <2>1. Counted'
    BY <1>2, <1>3, CountedKept DEF Scan, poolVars, history
  <2>2. mpos \in 1 .. Len(used_player_list)
    BY <1>3 DEF Scan, Typed, MainOK
  <2>3. \/ used_player_list' = used_player_list
        \/ /\ state[used_player_list[mpos]] = 0
           /\ used_player_list' = RemoveAt(used_player_list, mpos)
    BY <1>3 DEF Scan
  <2>4. Listed'
    <3>1. state' = state
      BY <1>3 DEF Scan
    <3>2. ToSet(used_player_list) \subseteq
            ToSet(RemoveAt(used_player_list, mpos)) \cup {used_player_list[mpos]}
      BY <1>1, <2>2, RemoveAtSeq
    <3> QED
      BY <2>3, <3>1, <3>2 DEF Listed
  <2> QED
    BY <2>1, <2>4
<1>4. CASE Select \/ AcceptNone \/ ServeDone
  <2>1. UNCHANGED <<state, used_player_list, global_player_num, mload, raced>>
        /\ mpc # "count" /\ mpc' # "count"
    BY <1>4 DEF Select, AcceptNone, ServeDone, LoopTop, poolVars, history
  <2> QED
    BY <1>2, <2>1, CountedKept DEF Listed
<1>5. CASE Count
  <2>1. UNCHANGED <<state, used_player_list>> /\ mpc = "count" /\ mpc' = "serve"
        /\ global_player_num' = mload
        /\ raced' = IF \E r \in Rooms : RoomCounting(r) THEN raced + 1 ELSE raced
    BY <1>5 DEF Count
  <2>2. ASSUME raced' = 0
        PROVE  Counting = {} /\ raced = 0
    BY <1>1, <2>1, <2>2 DEF Counting
  <2>3. Live' = Live
    BY <2>1 DEF Live, Free
  <2>4. Counted'
    BY <1>1, <1>2, <2>1, <2>2, <2>3, FS_EmptySet DEF Counted
  <2> QED
    BY <2>1, <2>4 DEF Listed
<1>6. CASE Accept
  <2> DEFINE d == Min(Free)
  <2>1. d \in Conns /\ state[d] = 0
    <3>1. Free \subseteq Nat /\ Free # {}
      BY <1>6 DEF Accept, Free, Conns
    <3>2. d \in Free
      BY <3>1, MinOfSome
    <3> QED
      BY <3>2 DEF Free
  <2>2. /\ state' = [state EXCEPT ![d] = 1] /\ used_player_list' = Append(used_player_list, d)
        /\ mload' = global_player_num + 1 /\ mpc = "scan" /\ mpc' = "count"
        /\ UNCHANGED <<global_player_num, raced>>
    BY <1>6 DEF Accept, poolVars, history
  <2> HIDE DEF d
  <2>3. Cardinality(Live') = Cardinality(Live) + 1
    BY <1>1, <2>1, <2>2, LiveMore
  <2>4. Counted'
    BY <1>1, <1>2, <2>2, <2>3 DEF Counted
  <2>5. ToSet(used_player_list') = ToSet(used_player_list) \cup {d}
    BY <1>1, <2>1, <2>2 DEF ToSet
  <2>6. Listed'
    BY <1>1, <2>1, <2>2, <2>5 DEF Listed
  <2> QED
    BY <2>4, <2>6
<1>7. ASSUME NEW k \in 1 .. Len(used_player_list), ServeEOF(k)
      PROVE  Listed' /\ Counted'
  <2> DEFINE d == used_player_list[k]
  <2>1. d \in Conns /\ state[d] = 1 /\ mpc = "serve"
    BY <1>1, <1>7 DEF ServeEOF, Servable
  <2>2. /\ state' = [state EXCEPT ![d] = 0] /\ mload' = global_player_num - 1
        /\ mpc' = "count" /\ UNCHANGED <<global_player_num, used_player_list, raced>>
    BY <1>7 DEF ServeEOF, poolVars, history
  <2> HIDE DEF d
  <2>3. Cardinality(Live') = Cardinality(Live) - 1
    BY <1>1, <2>1, <2>2, LiveLess
  <2>4. Counted'
    BY <1>1, <1>2, <2>1, <2>2, <2>3 DEF Counted
  <2>5. Listed'
    BY <1>1, <2>1, <2>2 DEF Listed
  <2> QED
    BY <2>4, <2>5
<1>8. ASSUME NEW k \in 1 .. Len(used_player_list), NEW op, NEW r, ServeRequest(k, op, r)
      PROVE  Listed' /\ Counted'
  <2>1. /\ used_player_list[k] \in Conns /\ state[used_player_list[k]] = 1
        /\ state' = [state EXCEPT ![used_player_list[k]] = 2]
        /\ UNCHANGED <<mpc, global_player_num, mload, used_player_list, raced>>
    BY <1>1, <1>8 DEF ServeRequest, Servable, poolVars, history
  <2>2. \A c \in Conns : state'[c] = 0 <=> state[c] = 0
    BY <1>1, <2>1
  <2>3. Counted'
    BY <1>2, <2>1, <2>2, CountedKept
  <2> QED
    BY <2>1, <2>2, <2>3 DEF Listed
<1> QED
  BY <1>3, <1>4, <1>5, <1>6, <1>7, <1>8 DEF MainOwn, MainClient, Serve

\* A handler counts nobody and drops no node.
LEMMA HandlerBooks ==
  ASSUME Typed, Owners, Listed, Counted, NEW d \in Conns, GetInRoom(d)
  PROVE  Listed' /\ Counted'
<1>1. UNCHANGED <<global_player_num, mpc, mload, used_player_list, rpc, rload, raced>>
  BY DEF GetInRoom, TakeRequest, ScanRandom, ScanRandomEnd, ScanUnused, OpenRetry, Open,
         Join, JoinRetry, JoinReject, Done, BackToLobby, handlerFrame, mainVars, roomVars
<1>2. \A c \in Conns : state'[c] = 0 <=> state[c] = 0
  <2>1. CASE BackToLobby(d)
    <3>1. state[d] = 2
      BY <2>1 DEF BackToLobby, Owners, RequestsHeld, Requesting
    <3> QED
      BY <2>1, <3>1 DEF BackToLobby, Typed, ConnsOK
  <2> QED
    BY <2>1 DEF GetInRoom, TakeRequest, ScanRandom, ScanRandomEnd, ScanUnused, OpenRetry,
                Open, Join, JoinRetry, JoinReject, Done
<1>3. Counted'
  BY <1>1, <1>2, CountedKept DEF RoomCounting
<1> QED
  BY <1>1, <1>2, <1>3 DEF Listed

\* A room thread that loses a client counts it out once.
LEMMA RoomBooks ==
  ASSUME Typed, Owners, Listed, Counted, NEW r \in Rooms, RoomOwn(r) \/ RoomClient(r),
         RoomRight(r), misreads' = 0
  PROVE  Listed' /\ Counted'
<1>1. /\ state \in [Conns -> 0 .. 2] /\ global_player_num \in Int /\ mload \in Int
      /\ rpc \in [Rooms -> RoomPlaces] /\ rload \in [Rooms -> Int] /\ raced \in Nat
      /\ Cardinality(Live) \in Nat /\ Cardinality(Counting) \in Nat
      /\ rused \in [Rooms -> [Seats -> Conns \cup {None}]] /\ ralive \in [Rooms -> SUBSET Seats]
      /\ IsFiniteSet(Counting)
  BY BooksFinite DEF Typed, ConnsOK, MainOK, SweepOK, CopiesOK, HistoryOK
<1>2. UNCHANGED <<used_player_list, mpc, mload>>
  BY DEF RoomOwn, RoomClient, Wake, Admit, SweepDone, RoomCount, GiveUpSeat, LeaveClosed,
         Forget, GameLeft, GameOver, GameWon, CloseAfterGame, LoopEnd, Exit, Leave, LeaveEOF,
         Start, GameLeave, GameEOF, roomFrame, mainVars
<1>3. \A c \in Conns : state'[c] # state[c] => state[c] = 2
  BY RoomOwners
<1>4. Listed'
  BY <1>2, <1>3 DEF Listed
<1>5. \A q \in Rooms \ {r} : RoomCounting(q)' <=> RoomCounting(q)
  BY RoomSameRoom DEF SameRoom, RoomCounting
\* The steps that end no connection and store no counter.
<1>6. ASSUME UNCHANGED <<global_player_num, rload, raced>>,
             ~RoomCounting(r), ~RoomCounting(r)',
             \A c \in Conns : state'[c] \in {state[c], 1}
      PROVE  Counted'
  <2>1. \A c \in Conns : state'[c] = 0 <=> state[c] = 0
    BY <1>3, <1>6
  <2> QED
    BY <1>2, <1>5, <1>6, <2>1, CountedKept
<1>7. CASE Wake(r) \/ Admit(r) \/ SweepDone(r) \/ LeaveClosed(r) \/ LoopEnd(r) \/ Exit(r)
  BY <1>1, <1>4, <1>6, <1>7
  DEF Wake, Admit, SweepDone, LeaveClosed, LoopEnd, Exit, RoomCounting, history
<1>8. CASE GiveUpSeat(r) \/ Forget(r) \/ CloseAfterGame(r)
  BY <1>1, <1>4, <1>6, <1>8 DEF GiveUpSeat, Forget, CloseAfterGame, RoomCounting, history
<1>9. CASE GameLeft(r) \/ GameWon(r)
  BY <1>1, <1>4, <1>6, <1>9 DEF GameLeft, GameWon, GameOver, RoomCounting, history
<1>10. ASSUME NEW s \in Seats, Leave(r, s) \/ Start(r, s) \/ GameLeave(r, s)
       PROVE  Listed' /\ Counted'
  BY <1>1, <1>4, <1>6, <1>10 DEF Leave, Start, GameLeave, Readable, RoomCounting, history
<1>11. CASE RoomCount(r)
  <2>1. /\ RoomCounting(r) /\ ~RoomCounting(r)' /\ global_player_num' = rload[r]
        /\ state' = state
        /\ raced' = IF mpc = "count" \/ \E q \in Rooms \ {r} : RoomCounting(q)
                    THEN raced + 1 ELSE raced
    BY <1>1, <1>11 DEF RoomCount, RoomCounting
  <2>2. Counted'
    <3> SUFFICES ASSUME raced' = 0
                 PROVE  /\ Cardinality(Live') = global_player_num'
                             + (IF mpc' = "count" THEN mload' - global_player_num' ELSE 0)
                             - Cardinality(Counting')
                        /\ \A q \in Counting' : rload'[q] = global_player_num' - 1
      BY DEF Counted
    <3>1. raced = 0 /\ mpc # "count" /\ Counting = {r}
      BY <1>1, <2>1 DEF Counting
    <3>2. Counting' = {}
      BY <1>5, <2>1, <3>1 DEF Counting
    <3>3. Live' = Live
      BY <2>1 DEF Live, Free
    <3>4. Cardinality({r}) = 1 /\ Cardinality({}) = 0
      BY FS_Singleton, FS_EmptySet
    <3>5. Cardinality(Live) = global_player_num - 1 /\ rload[r] = global_player_num - 1
      BY <1>1, <3>1, <3>4 DEF Counted
    <3> QED
      BY <1>1, <1>2, <2>1, <3>1, <3>2, <3>3, <3>4, <3>5
  <2> QED
    BY <1>4, <2>2
<1>12. ASSUME NEW d \in Conns, state[d] = 2, state' = [state EXCEPT ![d] = 0],
              ~RoomCounting(r), RoomCounting(r)', UNCHANGED <<global_player_num, raced>>,
              rload' = [rload EXCEPT ![r] = global_player_num - 1]
       PROVE  Listed' /\ Counted'
  <2>1. Cardinality(Live') = Cardinality(Live) - 1
    BY <1>1, <1>12, LiveLess
  <2>2. Counting' = Counting \cup {r} /\ r \notin Counting
    BY <1>5, <1>12 DEF Counting
  <2>3. Cardinality(Counting') = Cardinality(Counting) + 1
    BY <1>1, <2>2, FS_AddElement
  <2>4. raced = 0 => \A q \in Counting' : rload'[q] = global_player_num' - 1
    BY <1>1, <1>12, <2>2 DEF Counted, Counting
  <2>5. Counted'
    BY <1>1, <1>2, <1>12, <2>1, <2>3, <2>4 DEF Counted
  <2> QED
    BY <1>4, <2>5
<1>13. ASSUME NEW s \in Seats, LeaveEOF(r, s)
       PROVE  Listed' /\ Counted'
  <2>1. /\ rpc[r] = "serve" /\ rused[r][s] \in Conns /\ ~RoomCounting(r) /\ RoomCounting(r)'
        /\ state' = [state EXCEPT ![rused[r][s]] = 0]
        /\ rload' = [rload EXCEPT ![r] = global_player_num - 1]
        /\ CountMisread(r, {s}) /\ UNCHANGED <<global_player_num, raced>>
    BY <1>1, <1>13 DEF LeaveEOF, Readable, Admitted, RoomCounting
  <2>2. Holds(r, s) = rused[r][s]
    BY <2>1, NoMisread DEF Holds, GamePlaces, RoomRight, ThreadRight, CopyRight, Conns, None
  <2>3. state[rused[r][s]] = 2
    BY <2>1, <2>2 DEF Owners, OneHolder
  <2> QED
    BY <1>12, <2>1, <2>3
<1>14. ASSUME NEW s \in Seats, GameEOF(r, s)
       PROVE  Listed' /\ Counted'
  <2>1. rpc[r] = "game" /\ s \in ralive[r]
    BY <1>14 DEF GameEOF
  <2>2. rused[r][s] \in Conns
    BY <1>1, <2>1 DEF RoomRight, ThreadRight, Admitted, GamePlaces
  <2>3. /\ ~RoomCounting(r) /\ RoomCounting(r)'
        /\ state' = [state EXCEPT ![rused[r][s]] = 0]
        /\ rload' = [rload EXCEPT ![r] = global_player_num - 1]
        /\ UNCHANGED <<global_player_num, raced>>
    BY <1>1, <1>14 DEF GameEOF, RoomCounting, history
  <2>4. Holds(r, s) = rused[r][s]
    BY <2>1 DEF Holds, GamePlaces
  <2>5. state[rused[r][s]] = 2
    BY <2>2, <2>4 DEF Owners, OneHolder
  <2> QED
    BY <1>12, <2>2, <2>3, <2>5
<1> QED
  BY <1>7, <1>8, <1>9, <1>10, <1>11, <1>13, <1>14 DEF RoomOwn, RoomClient

\* The overlapping updates are counted up.
LEMMA RacedGrows == Typed /\ [Next]_vars => raced' >= raced
<1> SUFFICES ASSUME Typed, [Next]_vars
             PROVE  raced' >= raced
  OBVIOUS
<1>1. raced \in Nat
  BY DEF Typed, HistoryOK
<1>2. CASE Count \/ \E r \in Rooms : RoomCount(r)
  BY <1>1, <1>2 DEF Count, RoomCount
<1>3. CASE MainOwn \/ MainClient
  <2>1. Count \/ raced' = raced
    BY <1>3 DEF MainOwn, MainClient, Scan, Select, AcceptNone, ServeDone, Accept, Serve,
                ServeEOF, ServeRequest, poolVars, history
  <2> QED
    BY <1>1, <1>2, <2>1
<1>4. ASSUME NEW c \in Conns, GetInRoom(c)
      PROVE  raced' >= raced
  <2>1. raced' = raced
    BY <1>4 DEF GetInRoom, TakeRequest, ScanRandom, ScanRandomEnd, ScanUnused, OpenRetry,
                Open, Join, JoinRetry, JoinReject, Done, BackToLobby, handlerFrame
  <2> QED
    BY <1>1, <2>1
<1>5. ASSUME NEW r \in Rooms, RoomOwn(r) \/ RoomClient(r)
      PROVE  raced' >= raced
  <2>1. RoomCount(r) \/ raced' = raced
    BY <1>5 DEF RoomOwn, RoomClient, Wake, Admit, SweepDone, GiveUpSeat, LeaveClosed, Forget,
                GameLeft, GameWon, CloseAfterGame, LoopEnd, Exit, Leave, LeaveEOF, Start,
                GameLeave, GameEOF, history
  <2> QED
    BY <1>1, <1>2, <2>1
<1>6. CASE UNCHANGED vars
  BY <1>1, <1>6 DEF vars, history
<1> QED
  BY <1>3, <1>4, <1>5, <1>6 DEF Next

-----------------------------------------------------------------------------
(***************************************************************************)
(* The inductive invariant: what the threads do to rooms, sockets and      *)
(* books is right until a room thread reads for a stale seat.              *)
(***************************************************************************)
Right == (\A r \in Rooms : RoomRight(r)) /\ Owners /\ Listed /\ Counted
IInv == Typed /\ (misreads = 0 => Right)

LEMMA InitIInv == Init => IInv
<1> SUFFICES ASSUME Init
             PROVE  Right
  BY InitTyped DEF IInv
<1>1. Listed
  BY DEF Init, Listed
<1>2. Counting = {} /\ Live = {}
  BY DEF Init, Counting, RoomCounting, Live, Free
<1>3. Counted
  BY <1>2, FS_EmptySet DEF Init, Counted
<1> QED
  BY <1>1, <1>3, InitRoomRight, InitOwners DEF Right

LEMMA NextIInv == IInv /\ [Next]_vars => IInv'
<1> SUFFICES ASSUME IInv, [Next]_vars, misreads' = 0
             PROVE  Right'
  BY NextTyped DEF IInv
<1>1. Typed /\ misreads = 0 /\ Right
  BY MisreadsGrows DEF IInv, Typed, HistoryOK
<1>2. \A r \in Rooms : RoomRight(r)'
  BY <1>1, NextRoomRight DEF Right
<1>3. Owners'
  BY <1>1, NextOwners DEF Right
<1>4. raced' = 0 => raced = 0
  BY <1>1, RacedGrows DEF Typed, HistoryOK
<1>5. Listed' /\ Counted'
  <2>1. CASE UNCHANGED vars
    <3>1. UNCHANGED <<state, used_player_list, global_player_num, mload, mpc, rload, rpc, raced>>
      BY <2>1 DEF vars, mainVars, roomVars, history
    <3>2. Counted'
      BY <1>1, <3>1, CountedKept DEF Right, RoomCounting
    <3> QED
      BY <1>1, <3>1, <3>2 DEF Right, Listed
  <2> QED
    BY <1>1, <1>4, <2>1, MainBooks, HandlerBooks, RoomBooks DEF Right, Next
<1> QED
  BY <1>2, <1>3, <1>5 DEF Right

(***************************************************************************)
(* For every number of connections, rooms and seats: until a room thread   *)
(* reads for a stale seat, player_num counts the seats, and used and       *)
(* room_working say whether anybody sits there.                            *)
(***************************************************************************)
THEOREM SeatsCounted == Spec => []SeatCount
<1>1. IInv => SeatCount
  BY DEF IInv, Right, RoomRight, SeatsRight, SeatCount
<1> QED
  BY <1>1, InitIInv, NextIInv, PTL DEF Spec

(***************************************************************************)
(* A socket has one reader, whatever the numbers of connections and rooms  *)
(* and however main(), the handlers and the room threads interleave, but   *)
(* for the stale seats of a room that was opened again before its thread   *)
(* had seen it closed: the thread of such a room has the sockets of those  *)
(* it admitted since for itself, as long as no line is misread.            *)
(***************************************************************************)
THEOREM SocketsHaveOneReader == Spec => []OneReader
<1>1. IInv => OneReader
  <2> SUFFICES ASSUME IInv, misreads = 0, NEW r \in Rooms, NEW c \in Conns, RoomReads(r, c)
               PROVE  state[c] = 2 /\ \A q \in Rooms \ {r} : ~RoomReads(q, c)
    BY DEF OneReader
  <2>1. Typed /\ Owners /\ \A q \in Rooms : RoomRight(q)
    BY DEF IInv, Right
  <2>2. PICK s \in Seats : Holds(r, s) = c
    BY <2>1, ReadsHeld
  <2>3. ASSUME NEW q \in Rooms \ {r}, RoomReads(q, c)
        PROVE  FALSE
    <3>1. PICK t \in Seats : Holds(q, t) = c
      BY <2>1, <2>3, ReadsHeld
    <3> QED
      BY <2>1, <2>2, <3>1 DEF Owners, OneHolder
  <2> QED
    BY <2>1, <2>2, <2>3 DEF Owners, OneHolder
<1> QED
  BY <1>1, InitIInv, NextIInv, PTL DEF Spec

(***************************************************************************)
(* main()'s books are right: every live connection has a node, and         *)
(* global_player_num is off only by the updates under way, unless two of   *)
(* them overlapped or a line was misread.                                  *)
(***************************************************************************)
THEOREM BooksStayRight == Spec => []BooksRight
<1>1. IInv => BooksRight
  BY DEF IInv, Right, Listed, Counted, Live, Counting, BooksRight
<1> QED
  BY <1>1, InitIInv, NextIInv, PTL DEF Spec
=============================================================================
