------------------------------ MODULE UnoLobby ------------------------------
(***************************************************************************)
(* The threads of the UNO server src/tcpcliserv/final_server.c and what    *)
(* they share.  main() owns the connections in the lobby; handler thread c *)
(* (GetInRoom) takes the request of connection c to a room; room thread r  *)
(* (RoomProcess) owns the connections admitted to room r and plays its     *)
(* games.  A room's record is guarded by room_data_lock[r]; conns[].state, *)
(* handler_working[], room_working[] and global_player_num are shared      *)
(* without a lock.                                                         *)
(*                                                                         *)
(* One action is one critical section, or one access to an unlocked        *)
(* variable that another thread writes.  What a client sends is chosen     *)
(* when a thread reads its socket.  Names, replies and logging are left    *)
(* out; so is room_num, which is never read, and room_arg, whose fields    *)
(* are the constants owner = 0 and room_no = r.                            *)
(***************************************************************************)
EXTENDS Integers, SequencesExt

CONSTANTS
  MAXPLAYER,  \* entries of conns[], handler_arg[] and handler_working[]
  NROOM,      \* entries of room_data[] and room_working[]: MAXPLAYER too
  NSEAT,      \* entries of room_data[].players[]: 10
  ROOMCAP,    \* the players a room takes: the literal 9
  MaxNodes,   \* bound: length of used_player_list
  MaxRaces,   \* bound: overlapping updates of global_player_num
  MaxMisreads,  \* bound: lines read, and games begun, for stale seats
  Requests    \* the requests clients make, a subset of AllRequests

AllRequests == {"create", "join", "random", "leave", "start", "eof"}

ASSUME SizesAssumption ==
  /\ MAXPLAYER \in Nat \ {0} /\ NROOM \in Nat \ {0} /\ NSEAT \in Nat \ {0}
  /\ ROOMCAP \in 1 .. NSEAT - 1
  /\ MaxNodes \in Nat /\ MaxRaces \in Nat /\ MaxMisreads \in Nat
ASSUME RequestsAssumption == Requests \subseteq AllRequests

Conns == 0 .. MAXPLAYER - 1
Rooms == 0 .. NROOM - 1
Seats == 0 .. NSEAT - 1
None == -1
Listenfd == MAXPLAYER   \* the listening socket, in main()'s rset

VARIABLES
  state,              \* conns[c].state: 0 free, 1 in the lobby, 2 in a room
  global_player_num,
  used_player_list,   \* the indices of the linked list's nodes, in order
  mpc, mpos,          \* main(): where it is, and its position in the list
  mset, mload,        \* main(): rset, and global_player_num as loaded
  handler_working,    \* handler_working[c]: a request is waiting
  handler_arg,        \* handler_arg[c]: the request
  hpc,                \* GetInRoom c: where it is
  hroom, hfit,        \* its locals: the room it looks at, and fittest
  used, in_game, random, new_player, player_num, players,  \* room_data[r]
  room_working,
  rpc, rseat,         \* RoomProcess r: where it is, the seat it serves
  rused, rowner, rnum, rload,   \* its locals used[], owner, player_num
  ralive, rgame,      \* GameStart: seats still playing, its player_num
  stale,              \* history: seats of used[] from before room r was opened
                      \* again, its thread being still in its last round
  misreads,           \* history: reads and games of such seats
  raced               \* history: updates of global_player_num that were lost

mainVars == <<used_player_list, mpc, mpos, mset, mload>>
handlerVars == <<hpc, hroom, hfit>>
roomData == <<used, in_game, random, new_player, player_num, players>>
roomVars == <<rpc, rseat, rused, rowner, rnum, rload, ralive, rgame>>
requestVars == <<handler_working, handler_arg>>
history == <<stale, misreads, raced>>
\* What main() never changes but in Count.
poolVars == <<handlerVars, roomData, room_working, roomVars, history>>
vars == <<state, global_player_num, mainVars, requestVars, handlerVars,
          roomData, room_working, roomVars, history>>

\* global_player_num++ and -- are a load and a store.  A thread is between
\* the two; another one may begin then as long as the bound allows it.
RoomCounting(r) == rpc[r] \in {"count", "gcount"}
MayLoad == (mpc = "count" \/ \E r \in Rooms : RoomCounting(r)) => raced < MaxRaces

Init ==
  /\ state = [c \in Conns |-> 0] /\ global_player_num = 0
  /\ used_player_list = <<>>
  /\ mpc = "scan" /\ mpos = 1 /\ mset = {Listenfd} /\ mload = 0
  /\ handler_working = [c \in Conns |-> FALSE]
  /\ handler_arg = [c \in Conns |-> [op |-> "create", room |-> 0]]
  /\ hpc = [c \in Conns |-> "idle"]
  /\ hroom = [c \in Conns |-> 0] /\ hfit = [c \in Conns |-> None]
  /\ used = [r \in Rooms |-> FALSE] /\ in_game = [r \in Rooms |-> FALSE]
  /\ random = [r \in Rooms |-> FALSE] /\ new_player = [r \in Rooms |-> FALSE]
  /\ player_num = [r \in Rooms |-> 0]
  /\ players = [r \in Rooms |-> [s \in Seats |-> None]]
  /\ room_working = [r \in Rooms |-> FALSE]
  /\ rpc = [r \in Rooms |-> "idle"] /\ rseat = [r \in Rooms |-> 0]
  /\ rused = [r \in Rooms |-> [s \in Seats |-> None]]
  /\ rowner = [r \in Rooms |-> 0] /\ rnum = [r \in Rooms |-> 0]
  /\ rload = [r \in Rooms |-> 0]
  /\ ralive = [r \in Rooms |-> {}] /\ rgame = [r \in Rooms |-> 0]
  /\ stale = [r \in Rooms |-> {}] /\ misreads = 0 /\ raced = 0

-----------------------------------------------------------------------------
(* main(): prepare the select set, accept one client, serve the lobby.     *)

\* The top of the loop: the list is scanned from its head; the listening
\* socket is watched while there is room for another player.
LoopTop ==
  /\ mpc' = "scan" /\ mpos' = 1
  /\ mset' = IF global_player_num < MAXPLAYER THEN {Listenfd} ELSE {}

\* One node of the list: watched in the lobby, unlinked when it is free.
Scan ==
  /\ mpc = "scan" /\ mpos <= Len(used_player_list)
  /\ LET c == used_player_list[mpos] IN
       \/ /\ state[c] = 1
          /\ mset' = mset \cup {c} /\ mpos' = mpos + 1
          /\ UNCHANGED used_player_list
       \/ /\ state[c] = 0
          /\ used_player_list' = RemoveAt(used_player_list, mpos)
          /\ UNCHANGED <<mset, mpos>>
       \/ /\ state[c] = 2
          /\ mpos' = mpos + 1
          /\ UNCHANGED <<mset, used_player_list>>
  /\ UNCHANGED <<state, global_player_num, mpc, mload, requestVars, poolVars>>

\* select() returns; nobody, or nobody new, is ready.
Select ==
  /\ mpc = "scan" /\ mpos > Len(used_player_list)
  /\ mpc' = "serve" /\ mpos' = 1
  /\ UNCHANGED <<state, global_player_num, used_player_list, mset, mload,
                 requestVars, poolVars>>

Free == {c \in Conns : state[c] = 0}

\* select() returns with the listening socket ready and FindEmpty() has an
\* entry: it enters the lobby with a new node; global_player_num is loaded.
Accept ==
  /\ mpc = "scan" /\ mpos > Len(used_player_list)
  /\ Listenfd \in mset /\ Free # {}
  /\ Len(used_player_list) < MaxNodes /\ MayLoad
  /\ LET index == Min(Free) IN
       /\ state' = [state EXCEPT ![index] = 1]
       /\ used_player_list' = Append(used_player_list, index)
  /\ mload' = global_player_num + 1
  /\ mpc' = "count" /\ mpos' = 1
  /\ UNCHANGED <<global_player_num, mset, requestVars, poolVars>>

\* FindEmpty() finds none: back to the top of the loop, nobody is served.
AcceptNone ==
  /\ mpc = "scan" /\ mpos > Len(used_player_list)
  /\ Listenfd \in mset /\ Free = {}
  /\ LoopTop
  /\ UNCHANGED <<state, global_player_num, used_player_list, mload,
                 requestVars, poolVars>>

\* The store of global_player_num++ or -- in main().  It is lost if a room
\* thread has loaded the counter and not stored it yet.
Count ==
  /\ mpc = "count"
  /\ global_player_num' = mload /\ mload' = 0 /\ mpc' = "serve"
  /\ raced' = IF \E r \in Rooms : RoomCounting(r) THEN raced + 1 ELSE raced
  /\ UNCHANGED <<state, used_player_list, mpos, mset, requestVars,
                 handlerVars, roomData, room_working, roomVars, stale, misreads>>

\* The k-th node is in the lobby and its socket is in rset.
Servable(k) ==
  /\ mpc = "serve" /\ k \in mpos .. Len(used_player_list)
  /\ state[used_player_list[k]] = 1
  /\ used_player_list[k] \in mset

\* A lobby client closes its connection.
ServeEOF(k) ==
  /\ Servable(k) /\ "eof" \in Requests /\ MayLoad
  /\ state' = [state EXCEPT ![used_player_list[k]] = 0]
  /\ mload' = global_player_num - 1
  /\ mpc' = "count" /\ mpos' = k + 1
  /\ UNCHANGED <<global_player_num, used_player_list, mset, requestVars, poolVars>>

\* "3", "4 room" or "5": handed to the connection's GetInRoom thread.  The
\* number of a join is used unchecked; one that is no index of room_data[]
\* is left out ("-1" creates a room, any other is an access out of bounds).
ServeRequest(k, op, r) ==
  /\ Servable(k) /\ op \in Requests
  /\ LET c == used_player_list[k] IN
       /\ handler_arg' = [handler_arg EXCEPT ![c] = [op |-> op, room |-> r]]
       /\ state' = [state EXCEPT ![c] = 2]
       /\ handler_working' = [handler_working EXCEPT ![c] = TRUE]
  /\ mpos' = k + 1
  /\ UNCHANGED <<global_player_num, used_player_list, mpc, mset, mload,
                 poolVars>>

\* No other node of the list is ready.
ServeDone ==
  /\ mpc = "serve"
  /\ LoopTop
  /\ UNCHANGED <<state, global_player_num, used_player_list, mload,
                 requestVars, poolVars>>

Serve ==
  \E k \in 1 .. Len(used_player_list) :
    \/ ServeEOF(k)
    \/ ServeRequest(k, "create", 0) \/ ServeRequest(k, "random", 0)
    \/ \E r \in Rooms : ServeRequest(k, "join", r)

\* Steps main() takes by itself, and steps a client's input starts.
MainOwn == Scan \/ Select \/ AcceptNone \/ Count \/ ServeDone
MainClient == Accept \/ Serve

-----------------------------------------------------------------------------
(* GetInRoom(c): brings connection c to a room.                            *)

Seated(r) == {s \in Seats : players[r][s] # None}
Admitted(r) == {s \in Seats : rused[r][s] # None}

\* What a handler thread leaves alone in every step.
handlerFrame ==
  <<global_player_num, mainVars, handler_arg, roomVars, misreads, raced>>

\* handler_working[c] is seen set: the request is taken.
TakeRequest(c) ==
  /\ hpc[c] = "idle" /\ handler_working[c]
  /\ hroom' = [hroom EXCEPT ![c] = IF handler_arg[c].op = "join"
                                   THEN handler_arg[c].room ELSE 0]
  /\ hpc' = [hpc EXCEPT ![c] = handler_arg[c].op]
  /\ UNCHANGED <<handlerFrame, hfit, state, handler_working, roomData, room_working,
                 stale>>

\* One step of the random search, without the lock: a random room that is
\* not in game ends it; the first unused room is remembered as fittest.  Its
\* three reads are one step here: what they found is tested under the lock.
ScanRandom(c) ==
  /\ hpc[c] = "random" /\ hroom[c] < NROOM
  /\ LET r == hroom[c] IN
       IF ~in_game[r] /\ random[r]
       THEN /\ hpc' = [hpc EXCEPT ![c] = "joinrandom"]
            /\ hfit' = [hfit EXCEPT ![c] = None]
            /\ UNCHANGED hroom
       ELSE /\ hroom' = [hroom EXCEPT ![c] = r + 1]
            /\ hfit' = IF ~used[r] /\ hfit[c] = None
                       THEN [hfit EXCEPT ![c] = r] ELSE hfit
            /\ UNCHANGED hpc
  /\ UNCHANGED <<handlerFrame, state, handler_working, roomData, room_working,
                 stale>>

\* Mutant: the test for "no unused room" is missing.
ScanRandomEndUnchecked(c) ==
  /\ hpc[c] = "random" /\ hroom[c] = NROOM
  /\ hroom' = [hroom EXCEPT ![c] = hfit[c]] /\ hfit' = [hfit EXCEPT ![c] = None]
  /\ hpc' = [hpc EXCEPT ![c] = "openrandom"]
  /\ UNCHANGED <<handlerFrame, state, handler_working, roomData, room_working,
                 stale>>

\* No random room was found: a new one in fittest, or "17" if there is none.
ScanRandomEnd(c) ==
  /\ hpc[c] = "random" /\ hroom[c] = NROOM
  /\ hroom' = [hroom EXCEPT ![c] = hfit[c]] /\ hfit' = [hfit EXCEPT ![c] = None]
  /\ hpc' = [hpc EXCEPT ![c] = IF hfit[c] = None THEN "full" ELSE "openrandom"]
  /\ UNCHANGED <<handlerFrame, state, handler_working, roomData, room_working,
                 stale>>

\* One step of the search for an unused room, without the lock.
ScanUnused(c) ==
  /\ hpc[c] = "create"
  /\ \/ /\ hroom[c] < NROOM /\ used[hroom[c]]
        /\ hroom' = [hroom EXCEPT ![c] = @ + 1] /\ UNCHANGED hpc
     \/ /\ hroom[c] < NROOM /\ ~used[hroom[c]]
        /\ hpc' = [hpc EXCEPT ![c] = "open"] /\ UNCHANGED hroom
     \/ /\ hroom[c] = NROOM
        /\ hpc' = [hpc EXCEPT ![c] = "full"] /\ UNCHANGED hroom
  /\ UNCHANGED <<handlerFrame, hfit, state, handler_working, roomData,
                 room_working, stale>>

\* Start the search again from the first room.
Rescan(c) ==
  /\ hroom' = [hroom EXCEPT ![c] = 0]
  /\ hpc' = [hpc EXCEPT ![c] = IF @ = "open" THEN "create" ELSE "random"]

\* Under room_data_lock: the room found unused was taken meanwhile.
OpenRetry(c) ==
  /\ hpc[c] \in {"open", "openrandom"} /\ used[hroom[c]]
  /\ Rescan(c)
  /\ UNCHANGED <<handlerFrame, hfit, state, handler_working, roomData, room_working,
                 stale>>

\* Under room_data_lock: the room is opened with c as its owner in seat 0
\* and its thread is set to work.  Nobody looks whether that thread has seen
\* the room closed: in its last round, after the unlock (check) or before
\* the loop's test (top), it goes on with the used[] it has.
Open(c) ==
  /\ hpc[c] \in {"open", "openrandom"} /\ ~used[hroom[c]]
    /\ LET r == hroom[c] IN
       /\ used' = [used EXCEPT ![r] = TRUE]
       /\ player_num' = [player_num EXCEPT ![r] = 1]
       /\ random' = [random EXCEPT ![r] = (hpc[c] = "openrandom")]
       /\ players' = [players EXCEPT ![r][0] = c]
       /\ in_game' = [in_game EXCEPT ![r] = FALSE]
       /\ new_player' = [new_player EXCEPT ![r] = TRUE]
       /\ room_working' = [room_working EXCEPT ![r] = TRUE]
       /\ stale' = IF rpc[r] \in {"check", "top"}
                   THEN [stale EXCEPT ![r] = Admitted(r)] ELSE stale
  /\ hpc' = [hpc EXCEPT ![c] = "done"]
  /\ UNCHANGED <<handlerFrame, hroom, hfit, state, handler_working>>

\* Mutant: in_game is not tested again under the lock.
ClosedUnlessGame(r, op) ==
  \/ ~used[r] \/ player_num[r] >= ROOMCAP
  \/ op = "join" /\ random[r]

\* Why room r takes nobody, as tested under its lock: a room joined by
\* number must also not be a random one.
Closed(r, op) ==
  \/ ~used[r] \/ in_game[r] \/ player_num[r] >= ROOMCAP
  \/ op = "join" /\ random[r]

EmptySeat(r) == Min({s \in Seats : players[r][s] = None})

\* Mutant: new_player is not set for a joiner.
JoinUnannounced(c) ==
  /\ hpc[c] \in {"join", "joinrandom"} /\ ~Closed(hroom[c], hpc[c])
  /\ LET r == hroom[c] IN
       /\ player_num' = [player_num EXCEPT ![r] = @ + 1]
       /\ players' = [players EXCEPT ![r][EmptySeat(r)] = c]
  /\ hpc' = [hpc EXCEPT ![c] = "done"]
  /\ UNCHANGED <<handlerFrame, hroom, hfit, state, handler_working, new_player,
                 used, in_game, random, room_working, stale>>

\* Under room_data_lock: c takes the first empty seat.
Join(c) ==
  /\ hpc[c] \in {"join", "joinrandom"} /\ ~Closed(hroom[c], hpc[c])
  /\ LET r == hroom[c] IN
       /\ player_num' = [player_num EXCEPT ![r] = @ + 1]
       /\ players' = [players EXCEPT ![r][EmptySeat(r)] = c]
       /\ new_player' = [new_player EXCEPT ![r] = TRUE]
  /\ hpc' = [hpc EXCEPT ![c] = "done"]
  /\ UNCHANGED <<handlerFrame, hroom, hfit, state, handler_working, used,
                 in_game, random, room_working, stale>>

\* Under room_data_lock: a random join that fails searches again.
JoinRetry(c) ==
  /\ hpc[c] = "joinrandom" /\ Closed(hroom[c], "random")
  /\ Rescan(c)
  /\ UNCHANGED <<handlerFrame, hfit, state, handler_working, roomData, room_working,
                 stale>>

\* Under room_data_lock: a join by number fails with "16", "18" or "17".
JoinReject(c) ==
  /\ hpc[c] = "join" /\ Closed(hroom[c], "join")
  /\ hpc' = [hpc EXCEPT ![c] = "reject"]
  /\ UNCHANGED <<handlerFrame, hroom, hfit, state, handler_working, roomData,
                 room_working, stale>>

\* handler_working[c] = 0: the thread is free, and after a rejected join
\* has still to send the client back to the lobby.
Done(c) ==
  /\ hpc[c] \in {"done", "reject"}
  /\ handler_working' = [handler_working EXCEPT ![c] = FALSE]
  /\ hpc' = [hpc EXCEPT ![c] = IF @ = "reject" THEN "lobby" ELSE "idle"]
  /\ hroom' = [hroom EXCEPT ![c] = 0]
  /\ UNCHANGED <<handlerFrame, hfit, state, roomData, room_working,
                 stale>>

\* conns[c].state = 1, after "17" before handler_working[c] is cleared and
\* after a rejected join once it is.
BackToLobby(c) ==
  /\ hpc[c] \in {"full", "lobby"}
  /\ state' = [state EXCEPT ![c] = 1]
  /\ hpc' = [hpc EXCEPT ![c] = IF @ = "full" THEN "done" ELSE "idle"]
  /\ UNCHANGED <<handlerFrame, hroom, hfit, handler_working, roomData,
                 room_working, stale>>

GetInRoom(c) ==
  \/ TakeRequest(c) \/ ScanRandom(c) \/ ScanRandomEnd(c) \/ ScanUnused(c)
  \/ OpenRetry(c) \/ Open(c)
  \/ Join(c) \/ JoinRetry(c) \/ JoinReject(c)
  \/ Done(c) \/ BackToLobby(c)

-----------------------------------------------------------------------------
(* RoomProcess(r): admits, serves and plays with the clients of room r.    *)

\* What a room thread leaves alone in every step.  Locals that go out of
\* scope (the loop's seat, GameStart's variables) return to their first value.
roomFrame == <<mainVars, requestVars, handlerVars>>

\* room_working[r] is seen set.
Wake(r) ==
  /\ rpc[r] = "idle" /\ room_working[r]
  /\ rused' = [rused EXCEPT ![r] = [s \in Seats |-> None]]
  /\ rowner' = [rowner EXCEPT ![r] = 0]
  /\ stale' = [stale EXCEPT ![r] = {}]
  /\ rpc' = [rpc EXCEPT ![r] = "top"]
  /\ UNCHANGED <<roomFrame, state, global_player_num, roomData, room_working,
                 rseat, rnum, rload, ralive, rgame, misreads, raced>>

\* Top of the loop: under room_data_lock, everybody seated since the last
\* time is admitted; the seats are then served.
Admit(r) ==
  /\ rpc[r] = "top" /\ room_working[r]
  /\ LET fresh == {s \in Seated(r) : /\ rused[r][s] = None
                                     /\ state[players[r][s]] = 2}
     IN IF new_player[r] /\ fresh # {}
        THEN /\ rused' = [rused EXCEPT ![r] = [s \in Seats |->
                            IF s \in fresh THEN players[r][s] ELSE @[s]]]
             /\ rnum' = [rnum EXCEPT ![r] = player_num[r]]
        ELSE UNCHANGED <<rused, rnum>>
  /\ new_player' = [new_player EXCEPT ![r] = FALSE]
  /\ rpc' = [rpc EXCEPT ![r] = "serve"] /\ rseat' = [rseat EXCEPT ![r] = 0]
  /\ UNCHANGED <<roomFrame, state, global_player_num, used, in_game, random,
                 player_num, players, room_working, rowner, rload, ralive,
                 rgame, history>>

\* Seat s, whose turn in the sweep has come, has sent something.
Readable(r, s) == rpc[r] = "serve" /\ s >= rseat[r] /\ s \in Admitted(r)

\* Thread r acts for seats S of which some are stale: what it reads is not
\* its own, and if main() or a room closed that descriptor select() fails
\* and the server exits, which is left out.
CountMisread(r, S) ==
  LET misread == S \cap stale[r] # {}
  IN /\ misread => misreads < MaxMisreads
     /\ misreads' = IF misread THEN misreads + 1 ELSE misreads

\* "6": back to the lobby.
Leave(r, s) ==
  /\ Readable(r, s) /\ "leave" \in Requests
  /\ CountMisread(r, {s})
  /\ state' = [state EXCEPT ![rused[r][s]] = 1]
  /\ rpc' = [rpc EXCEPT ![r] = "leave"] /\ rseat' = [rseat EXCEPT ![r] = s]
  /\ UNCHANGED <<roomFrame, global_player_num, roomData, room_working, rused,
                 rowner, rnum, rload, ralive, rgame, stale, raced>>

\* Mutant: global_player_num-- is missing.
LeaveEOFUncounted(r, s) ==
  /\ Readable(r, s) /\ "eof" \in Requests /\ MayLoad
  /\ CountMisread(r, {s})
  /\ state' = [state EXCEPT ![rused[r][s]] = 0]
  /\ rload' = [rload EXCEPT ![r] = global_player_num - 1]
  /\ rpc' = [rpc EXCEPT ![r] = "leave"] /\ rseat' = [rseat EXCEPT ![r] = s]
  /\ UNCHANGED <<roomFrame, global_player_num, roomData, room_working, rused,
                 rowner, rnum, ralive, rgame, stale, raced>>

\* The client closed its connection; global_player_num is loaded.
LeaveEOF(r, s) ==
  /\ Readable(r, s) /\ "eof" \in Requests /\ MayLoad
  /\ CountMisread(r, {s})
  /\ state' = [state EXCEPT ![rused[r][s]] = 0]
  /\ rload' = [rload EXCEPT ![r] = global_player_num - 1]
  /\ rpc' = [rpc EXCEPT ![r] = "count"] /\ rseat' = [rseat EXCEPT ![r] = s]
  /\ UNCHANGED <<roomFrame, global_player_num, roomData, room_working, rused,
                 rowner, rnum, ralive, rgame, stale, raced>>

\* The store of global_player_num--, in the room or in its game.
RoomCount(r) ==
  /\ RoomCounting(r)
  /\ global_player_num' = rload[r] /\ rload' = [rload EXCEPT ![r] = 0]
  /\ rpc' = [rpc EXCEPT ![r] = IF @ = "count" THEN "leave" ELSE "gleave"]
  /\ raced' = IF mpc = "count" \/ \E q \in Rooms \ {r} : RoomCounting(q)
              THEN raced + 1 ELSE raced
  /\ UNCHANGED <<roomFrame, state, roomData, room_working, rseat, rused,
                 rowner, rnum, ralive, rgame, stale, misreads>>

\* Mutant: room_working is not cleared with the last player.
GiveUpSeatKeepsWorking(r) ==
  /\ rpc[r] = "leave"
  /\ players' = [players EXCEPT ![r][rseat[r]] = None]
  /\ player_num' = [player_num EXCEPT ![r] = @ - 1]
  /\ used' = [used EXCEPT ![r] = @ /\ player_num[r] # 1]
  /\ UNCHANGED room_working
  /\ rnum' = [rnum EXCEPT ![r] = player_num[r] - 1]
  /\ rpc' = [rpc EXCEPT ![r] = "check"]
  /\ UNCHANGED <<roomFrame, state, global_player_num, in_game, random,
                 new_player, rseat, rused, rowner, rload, ralive, rgame, history>>

\* Under room_data_lock: the seat is given up; the last one closes the room.
GiveUpSeat(r) ==
  /\ rpc[r] = "leave"
  /\ players' = [players EXCEPT ![r][rseat[r]] = None]
  /\ player_num' = [player_num EXCEPT ![r] = @ - 1]
  /\ used' = [used EXCEPT ![r] = @ /\ player_num[r] # 1]
  /\ room_working' = [room_working EXCEPT ![r] = @ /\ player_num[r] # 1]
  /\ rnum' = [rnum EXCEPT ![r] = player_num[r] - 1]
  /\ rpc' = [rpc EXCEPT ![r] = "check"]
  /\ UNCHANGED <<roomFrame, state, global_player_num, in_game, random,
                 new_player, rseat, rused, rowner, rload, ralive, rgame, history>>

\* After the unlock: if the room is closed the sweep ends here ...
LeaveClosed(r) ==
  /\ rpc[r] = "check" /\ ~room_working[r]
  /\ rpc' = [rpc EXCEPT ![r] = "top"] /\ rseat' = [rseat EXCEPT ![r] = 0]
  /\ UNCHANGED <<roomFrame, state, global_player_num, roomData, room_working,
                 rused, rowner, rnum, rload, ralive, rgame, history>>

\* Mutant: used[i] = -1 is missing.
ForgetKeepsUsed(r) ==
  /\ rpc[r] = "check" /\ room_working[r]
  /\ LET s == rseat[r]
         others == Admitted(r) \ {s}
     IN /\ rowner' = IF s = rowner[r] /\ others # {}
                     THEN [rowner EXCEPT ![r] = Min(others)] ELSE rowner
        /\ UNCHANGED <<rused, stale>>
        /\ rseat' = [rseat EXCEPT ![r] = s + 1]
  /\ rpc' = [rpc EXCEPT ![r] = "serve"]
  /\ UNCHANGED <<roomFrame, state, global_player_num, roomData, room_working,
                 rnum, rload, ralive, rgame, misreads, raced>>

\* ... else the owner is replaced if it left, and the seat is forgotten.
Forget(r) ==
  /\ rpc[r] = "check" /\ room_working[r]
  /\ LET s == rseat[r]
         others == Admitted(r) \ {s}
     IN /\ rowner' = IF s = rowner[r] /\ others # {}
                     THEN [rowner EXCEPT ![r] = Min(others)] ELSE rowner
        /\ rused' = [rused EXCEPT ![r][s] = None]
        /\ stale' = [stale EXCEPT ![r] = @ \ {s}]
        /\ rseat' = [rseat EXCEPT ![r] = s + 1]
  /\ rpc' = [rpc EXCEPT ![r] = "serve"]
  /\ UNCHANGED <<roomFrame, state, global_player_num, roomData, room_working,
                 rnum, rload, ralive, rgame, misreads, raced>>

\* "7": under room_data_lock the game begins, if there are enough players.
Start(r, s) ==
  /\ Readable(r, s) /\ "start" \in Requests /\ rnum[r] >= 2
  /\ CountMisread(r, Admitted(r))
  /\ in_game' = [in_game EXCEPT ![r] = TRUE]
  /\ ralive' = [ralive EXCEPT ![r] = Admitted(r)]
  /\ rgame' = [rgame EXCEPT ![r] = rnum[r]]
  /\ rpc' = [rpc EXCEPT ![r] = "game"] /\ rseat' = [rseat EXCEPT ![r] = 0]
  /\ UNCHANGED <<roomFrame, state, global_player_num, used, random, new_player,
                 player_num, players, room_working, rused, rowner, rnum, rload,
                 stale, raced>>

SweepDone(r) ==
  /\ rpc[r] = "serve"
  /\ rpc' = [rpc EXCEPT ![r] = "top"] /\ rseat' = [rseat EXCEPT ![r] = 0]
  /\ UNCHANGED <<roomFrame, state, global_player_num, roomData, room_working,
                 rused, rowner, rnum, rload, ralive, rgame, history>>

-----------------------------------------------------------------------------
(* GameStart(), as far as connections are concerned.                       *)

\* The game ends: everybody still playing is sent back to the lobby.
GameOver(r) ==
  /\ state' = [c \in Conns |-> IF \E s \in ralive[r] : rused[r][s] = c
                               THEN 1 ELSE state[c]]
  /\ ralive' = [ralive EXCEPT ![r] = {}] /\ rgame' = [rgame EXCEPT ![r] = 0]
  /\ rpc' = [rpc EXCEPT ![r] = "over"]

\* A player leaves the game: "8", or the end of its connection.
GameLeave(r, s) ==
  /\ rpc[r] = "game" /\ s \in ralive[r] /\ "leave" \in Requests
  /\ state' = [state EXCEPT ![rused[r][s]] = 1]
  /\ ralive' = [ralive EXCEPT ![r] = @ \ {s}]
  /\ rgame' = [rgame EXCEPT ![r] = @ - 1]
  /\ rpc' = [rpc EXCEPT ![r] = "gleave"]
  /\ UNCHANGED <<roomFrame, global_player_num, roomData, room_working, rseat,
                 rused, rowner, rnum, rload, history>>

GameEOF(r, s) ==
  /\ rpc[r] = "game" /\ s \in ralive[r] /\ "eof" \in Requests /\ MayLoad
  /\ state' = [state EXCEPT ![rused[r][s]] = 0]
  /\ ralive' = [ralive EXCEPT ![r] = @ \ {s}]
  /\ rgame' = [rgame EXCEPT ![r] = @ - 1]
  /\ rload' = [rload EXCEPT ![r] = global_player_num - 1]
  /\ rpc' = [rpc EXCEPT ![r] = "gcount"]
  /\ UNCHANGED <<roomFrame, global_player_num, roomData, room_working, rseat,
                 rused, rowner, rnum, history>>

\* The game goes on, or its last player has won by being alone.
GameLeft(r) ==
  /\ rpc[r] = "gleave"
  /\ \/ rgame[r] < 2 /\ GameOver(r)
     \/ /\ rgame[r] >= 2 /\ rpc' = [rpc EXCEPT ![r] = "game"]
        /\ UNCHANGED <<state, ralive, rgame>>
  /\ UNCHANGED <<roomFrame, global_player_num, roomData, room_working, rseat,
                 rused, rowner, rnum, rload, history>>

\* Somebody plays the last card.
GameWon(r) ==
  /\ rpc[r] = "game" /\ ralive[r] # {}
  /\ GameOver(r)
  /\ UNCHANGED <<roomFrame, global_player_num, roomData, room_working, rseat,
                 rused, rowner, rnum, rload, history>>

\* Under room_data_lock: the room is closed after its game.
CloseAfterGame(r) ==
  /\ rpc[r] = "over"
  /\ player_num' = [player_num EXCEPT ![r] = 0]
  /\ room_working' = [room_working EXCEPT ![r] = FALSE]
  /\ used' = [used EXCEPT ![r] = FALSE]
  /\ in_game' = [in_game EXCEPT ![r] = FALSE]
  /\ random' = [random EXCEPT ![r] = FALSE]
  /\ players' = [players EXCEPT ![r] = [s \in Seats |-> None]]
  /\ rpc' = [rpc EXCEPT ![r] = "exit"]
  /\ UNCHANGED <<roomFrame, state, global_player_num, new_player, rseat, rused,
                 rowner, rnum, rload, ralive, rgame, history>>

\* while (room_working[r] == 1) is found false ...
LoopEnd(r) ==
  /\ rpc[r] = "top" /\ ~room_working[r]
  /\ rpc' = [rpc EXCEPT ![r] = "exit"]
  /\ UNCHANGED <<roomFrame, state, global_player_num, roomData, room_working,
                 rseat, rused, rowner, rnum, rload, ralive, rgame, history>>

\* Mutant: random stays set after the room is closed.
ExitKeepsRandom(r) ==
  /\ rpc[r] = "exit"
  /\ UNCHANGED random
  /\ rpc' = [rpc EXCEPT ![r] = "idle"]
  /\ UNCHANGED <<roomFrame, state, global_player_num, used, in_game,
                 new_player, player_num, players, room_working, rseat, rused,
                 rowner, rnum, rload, ralive, rgame, history>>

\* ... and random is cleared, without the lock.
Exit(r) ==
  /\ rpc[r] = "exit"
  /\ random' = [random EXCEPT ![r] = FALSE]
  /\ rpc' = [rpc EXCEPT ![r] = "idle"]
  /\ UNCHANGED <<roomFrame, state, global_player_num, used, in_game,
                 new_player, player_num, players, room_working, rseat, rused,
                 rowner, rnum, rload, ralive, rgame, history>>

\* Steps room thread r takes by itself, and steps a client's input starts.
RoomOwn(r) ==
  \/ Wake(r) \/ Admit(r) \/ SweepDone(r)
  \/ RoomCount(r) \/ GiveUpSeat(r) \/ LeaveClosed(r) \/ Forget(r)
  \/ GameLeft(r) \/ CloseAfterGame(r) \/ LoopEnd(r) \/ Exit(r)

RoomClient(r) ==
  \/ \E s \in Seats : Leave(r, s) \/ LeaveEOF(r, s) \/ Start(r, s)
  \/ \E s \in Seats : GameLeave(r, s) \/ GameEOF(r, s)
  \/ GameWon(r)

-----------------------------------------------------------------------------
Next ==
  \/ MainOwn \/ MainClient
  \/ \E c \in Conns : GetInRoom(c)
  \/ \E r \in Rooms : RoomOwn(r) \/ RoomClient(r)

Spec == Init /\ [][Next]_vars

\* Every thread keeps being scheduled (they spin and never block but on the
\* short critical sections); clients owe nothing.
LiveSpec ==
  /\ Spec
  /\ WF_vars(MainOwn)
  /\ \A c \in Conns : WF_vars(GetInRoom(c))
  /\ \A r \in Rooms : WF_vars(RoomOwn(r))

-----------------------------------------------------------------------------
TypeOK ==
  /\ state \in [Conns -> 0 .. 2] /\ global_player_num \in Int
  /\ used_player_list \in Seq(Conns)
  /\ mpc \in {"scan", "count", "serve"} /\ mpos \in Nat \ {0}
  /\ mset \subseteq Conns \cup {Listenfd} /\ mload \in Int
  /\ handler_working \in [Conns -> BOOLEAN]
  /\ handler_arg \in [Conns -> [op : {"create", "join", "random"}, room : Rooms]]
  /\ hpc \in [Conns -> {"idle", "create", "join", "random", "joinrandom",
                        "open", "openrandom", "full", "reject", "lobby", "done"}]
  /\ hroom \in [Conns -> None .. NROOM] /\ hfit \in [Conns -> Rooms \cup {None}]
  /\ \A c \in Conns :
       /\ hpc[c] \in {"random", "create"} => hroom[c] \in 0 .. NROOM
       /\ hpc[c] \in {"join", "joinrandom", "open", "openrandom"}
          => hroom[c] \in Rooms
  /\ used \in [Rooms -> BOOLEAN] /\ in_game \in [Rooms -> BOOLEAN]
  /\ random \in [Rooms -> BOOLEAN] /\ new_player \in [Rooms -> BOOLEAN]
  /\ player_num \in [Rooms -> Int]
  /\ players \in [Rooms -> [Seats -> Conns \cup {None}]]
  /\ room_working \in [Rooms -> BOOLEAN]
  /\ rpc \in [Rooms -> {"idle", "top", "serve", "count", "leave", "check",
                        "game", "gcount", "gleave", "over", "exit"}]
  /\ rseat \in [Rooms -> 0 .. NSEAT]
  /\ rused \in [Rooms -> [Seats -> Conns \cup {None}]]
  /\ rowner \in [Rooms -> Seats] /\ rnum \in [Rooms -> Int]
  /\ rload \in [Rooms -> Int] /\ rgame \in [Rooms -> Int]
  /\ ralive \in [Rooms -> SUBSET Seats]
  /\ stale \in [Rooms -> SUBSET Seats] /\ misreads \in Nat /\ raced \in Nat

(***************************************************************************)
(* The seats of a room and its two flags agree although handlers choose a  *)
(* room without its lock (final_server.c:795-808, 849-859, 951-960,        *)
(* 1058-1074): player_num counts the taken seats, never more than a room   *)
(* takes, so that a joiner always finds an empty seat; a room is in use    *)
(* exactly while somebody sits in it; and its thread is at work exactly    *)
(* then.  It holds until a room thread reads for a stale seat: the seat it *)
(* gives up then need not be its reader's, and may be empty already.       *)
(***************************************************************************)
SeatCount ==
  misreads = 0 =>
    \A r \in Rooms :
      /\ player_num[r] = Cardinality(Seated(r)) /\ player_num[r] <= ROOMCAP
      /\ used[r] <=> Seated(r) # {}
      /\ room_working[r] <=> used[r]

\* The seats whose sockets room thread r will read.
ReadSeats(r) ==
  CASE rpc[r] \in {"top", "serve"} /\ room_working[r] -> Admitted(r)
    [] rpc[r] \in {"game", "gcount", "gleave"} -> ralive[r]
    [] OTHER -> {}

\* Room thread r will read the socket of connection c, which it admitted
\* since its room was opened.
RoomReads(r, c) == \E s \in ReadSeats(r) \ stale[r] : rused[r][s] = c

(***************************************************************************)
(* A socket has one reader.  conns[].state says whose it is (0 nobody's,   *)
(* 1 main()'s, 2 a room's, final_server.c:65): a connection that a room    *)
(* thread admitted and will read is in no other room and main() does not   *)
(* read it.  "When somebody leaves, remember to set state to 0, player to  *)
(* -1, used to -1" (final_server.c:794).  Excepted are the stale seats,    *)
(* which the code does leave behind: a room is opened again after its last *)
(* player gave up the seat under the lock (:808) and before its thread has *)
(* tested room_working[] without it (:810, :696), and the thread reads on  *)
(* for whoever left.  Once it has read such a line nothing is claimed.     *)
(***************************************************************************)
OneReader ==
  misreads = 0 =>
    \A r \in Rooms, c \in Conns :
      RoomReads(r, c) => /\ state[c] = 2
                         /\ \A q \in Rooms \ {r} : ~RoomReads(q, c)

(***************************************************************************)
(* Nobody takes or gives up a seat while the room plays: handlers test     *)
(* in_game under the lock (final_server.c:934, 1104), although they chose  *)
(* the room before they had it.                                            *)
(***************************************************************************)
GameRosterFixed ==
  [][\A r \in Rooms : in_game[r] /\ in_game'[r] => players'[r] = players[r]]_vars

(***************************************************************************)
(* main()'s books.  A node is dropped only for a connection nobody uses    *)
(* ("state = 2 must stay", final_server.c:1241): every live connection has *)
(* a node, so a player who leaves a room is served in the lobby again.     *)
(* And global_player_num, by which main() decides whether to accept, is    *)
(* the number of live connections up to the updates under way, unless two  *)
(* updates overlapped (final_server.c:787, 1291, 1308 are not atomic).     *)
(* Both hold until a room thread reads for a stale seat: it sets the state *)
(* of a connection that may be gone, or be another player's by now.        *)
(***************************************************************************)
BooksRight ==
  misreads = 0 =>
    /\ \A c \in Conns : state[c] # 0 => c \in ToSet(used_player_list)
    /\ raced = 0 =>
         Cardinality(Conns \ Free) =
           global_player_num
             + (IF mpc = "count" THEN mload - global_player_num ELSE 0)
             - Cardinality({r \in Rooms : RoomCounting(r)})

(***************************************************************************)
(* A joiner is admitted by the room thread sooner or later, or the seat is *)
(* given up, however the new_player flag is set and cleared                *)
(* (final_server.c:702-743, 960, 1143); but not in a stale seat, where the *)
(* thread takes it for the player who left (used[i] is not -1, :710).      *)
(***************************************************************************)
EventuallyAdmitted ==
  \A r \in Rooms, s \in Seats, c \in Conns :
    players[r][s] = c
      ~> (rused[r][s] = c \/ players[r][s] # c \/ s \in stale[r])

(***************************************************************************)
(* A random request comes to an end ("loop until added to a room",         *)
(* final_server.c:902) unless somebody leaves a room in the meantime, as   *)
(* long as the clients are not more than a room takes: a full random room  *)
(* is searched for again and again (941-947).                              *)
(***************************************************************************)
RandomRequestEnds ==
  \A c \in Conns :
    (hpc[c] = "random") ~>
      (hpc[c] = "idle" \/ \E r \in Rooms : rpc[r] = "leave")

-----------------------------------------------------------------------------
(* A statement of the source that its threads do not keep.                 *)

(***************************************************************************)
(* "When the room is dissolved and new_player == 1: if it is not random    *)
(* send 'room not found', if it is random make the new one the owner"      *)
(* (final_server.c:659): the game of a room does not end with somebody in  *)
(* a seat who was never admitted, and whom closing the room forgets.       *)
(***************************************************************************)
NobodyLeftInDissolvedRoom ==
  \A r \in Rooms, s \in Seats :
    rpc[r] = "over" => players[r][s] \in {None, rused[r][s]}
=============================================================================
