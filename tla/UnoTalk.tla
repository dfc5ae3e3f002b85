------------------------------ MODULE UnoTalk ------------------------------
(***************************************************************************)
(* The dialogue between the UNO clients, src/tcpcliserv/final_cli.c, and   *)
(* the server, final_server.c: login, lobby, one room and, in outline, its *)
(* game.  Each connection has a line of messages either way; a client acts *)
(* on what it has read, the server on what has reached it, and lines cross *)
(* on their way.                                                           *)
(*                                                                         *)
(* A server thread's reaction to one line is one step here: UnoLobby has   *)
(* the interleavings of the threads, UnoGame the game.  Room numbers,      *)
(* scores and the screen are left out; a client is known by the entry of   *)
(* conns[] that its connection has.                                        *)
(***************************************************************************)
EXTENDS Integers, FiniteSets, FiniteSetsExt, Sequences

CONSTANTS
  MAXPLAYER,  \* entries of conns[]
  NSEAT,      \* seats of the room
  ROOMCAP,    \* players the room takes
  Names,      \* the names players type
  MaxStarts,  \* bound: clients started
  MaxAsked    \* bound: requests for a room or a game

ASSUME TalkAssumption ==
  /\ MAXPLAYER \in Nat \ {0} /\ NSEAT \in Nat \ {0} /\ ROOMCAP \in 1 .. NSEAT - 1
  /\ MaxStarts \in Nat /\ MaxAsked \in Nat

Conns == 0 .. MAXPLAYER - 1
Seats == 0 .. NSEAT - 1
None == -1
NoName == ""

VARIABLES
  state, name,              \* conns[]
  request,                  \* handler_arg[c] while handler_working[c]
  used, random, in_game, new_player, players,      \* room_data[0]
  rused, owner, player_num, \* RoomProcess: used[], owner, player_num
  alive,                    \* GameStart: the seats that play
  up, down,                 \* the lines on their way to the server, to the client
  cpc, my_id, master, player,                      \* a client
  starts, asked,            \* history: for the bounds
  heirless                  \* history: the owner left, and only who was not yet let in stayed

conns == <<state, name>>
room == <<used, random, in_game, new_player, players>>
thread == <<rused, owner, player_num, alive>>
wires == <<up, down>>
client == <<cpc, my_id, master, player>>
bounds == <<starts, asked>>
vars == <<conns, request, room, thread, wires, client, bounds, heirless>>

Free == {c \in Conns : state[c] = 0}

\* Lines, by their first word.
Word(w) == [op |-> w]
Line(w, x) == [op |-> w, who |-> x]
EOF == Word("eof")

Init ==
  /\ state = [c \in Conns |-> 0] /\ name = [c \in Conns |-> NoName]
  /\ request = [c \in Conns |-> "none"]
  /\ used = FALSE /\ random = FALSE /\ in_game = FALSE /\ new_player = FALSE
  /\ players = [s \in Seats |-> None]
  /\ rused = [s \in Seats |-> None] /\ owner = 0 /\ player_num = 0 /\ alive = {}
  /\ up = [c \in Conns |-> <<>>] /\ down = [c \in Conns |-> <<>>]
  /\ cpc = [c \in Conns |-> "off"] /\ my_id = [c \in Conns |-> NoName]
  /\ master = [c \in Conns |-> NoName] /\ player = [c \in Conns |-> {}]
  /\ starts = 0 /\ asked = 0 /\ heirless = FALSE

-----------------------------------------------------------------------------
(* The client.                                                             *)

clientFrame == <<conns, request, room, thread, heirless>>

Send(c, lines) == up' = [up EXCEPT ![c] = @ \o lines]

\* A client connects, the server accepts it into the first free entry, and
\* the client announces itself.
Connect ==
  /\ Free # {} /\ starts < MaxStarts
  /\ LET c == Min(Free) IN
       /\ state' = [state EXCEPT ![c] = 1]
       /\ up' = [up EXCEPT ![c] = <<Word("1")>>] /\ down' = [down EXCEPT ![c] = <<>>]
       /\ cpc' = [cpc EXCEPT ![c] = "hello"]
       /\ my_id' = [my_id EXCEPT ![c] = NoName]
       /\ master' = [master EXCEPT ![c] = NoName] /\ player' = [player EXCEPT ![c] = {}]
  /\ starts' = starts + 1
  /\ UNCHANGED <<name, request, room, thread, asked, heirless>>

\* login(): a name is typed.
Login(c, n) ==
  /\ cpc[c] = "login"
  /\ my_id' = [my_id EXCEPT ![c] = n]
  /\ Send(c, <<Line("2", n)>>)
  /\ cpc' = [cpc EXCEPT ![c] = "loginwait"]
  /\ UNCHANGED <<clientFrame, down, master, player, bounds>>

\* goto_lobby(): 3 opens a room, 4 joins it, 5 leaves the choice to the server.
AskRoom(c, w) ==
  /\ cpc[c] = "lobby" /\ asked < MaxAsked
  /\ Send(c, <<Word(w)>>)
  /\ cpc' = [cpc EXCEPT ![c] = "enter"] /\ asked' = asked + 1
  /\ UNCHANGED <<clientFrame, down, my_id, master, player, starts>>

\* send_request(true): the token is sent and the answer awaited.
Request(c) == Line("token", my_id[c])

\* goto_room(): 1 leaves the room.
LeaveRoom(c) ==
  /\ cpc[c] = "room"
  /\ Send(c, <<Word("6"), Request(c)>>)
  /\ cpc' = [cpc EXCEPT ![c] = "back"]
  /\ UNCHANGED <<clientFrame, down, my_id, master, player, bounds>>

\* goto_room(): 2 starts the game, if this is the owner and not alone.
StartGame(c) ==
  /\ cpc[c] = "room" /\ my_id[c] = master[c] /\ player[c] # {}
  /\ asked < MaxAsked
  /\ Send(c, <<Word("7")>>)
  /\ asked' = asked + 1
  /\ UNCHANGED <<clientFrame, down, client, starts>>

\* game(): gg gives up.
GiveUp(c) ==
  /\ cpc[c] = "game"
  /\ Send(c, <<Word("8"), Request(c)>>)
  /\ cpc' = [cpc EXCEPT ![c] = "back"]
  /\ UNCHANGED <<clientFrame, down, my_id, master, player, bounds>>

\* The client is ended from outside.
Kill(c) ==
  /\ cpc[c] \notin {"off", "puzzled"}
  /\ cpc' = [cpc EXCEPT ![c] = "off"]
  /\ Send(c, <<EOF>>)
  /\ UNCHANGED <<clientFrame, down, my_id, master, player, bounds>>

\* The player list that goes with a line of the room.
NewPlayers(c, l) ==
  CASE l.op = "5" -> l.others \cup (IF my_id[c] = l.who THEN {} ELSE {my_id[c]})
    [] l.op = "6" -> player[c] \cup {l.who}
    [] l.op \in {"7", "8"} -> player[c] \ {l.who}
    [] OTHER -> player[c]

NewMaster(c, l) == IF l.op \in {"5", "8"} THEN l.who ELSE master[c]

\* The words of a game: a round, calls, cards drawn, chat; 7 for who leaves.
GameWords == {"7", "10", "11", "12", "13", "14", "19", "20", "21"}

\* Where the client goes on after reading line l; "puzzled" is exit(0) over a
\* line it does not expect.
Expects(c, l) ==
  CASE cpc[c] = "hello" -> IF l.op = "1" THEN "login" ELSE "puzzled"
    [] cpc[c] = "loginwait" -> IF l.op = "2" THEN "tokenwait"
                               ELSE IF l.op = "3" THEN "login" ELSE "puzzled"
    [] cpc[c] \in {"tokenwait", "back"} -> IF l.op = "4" THEN "lobby" ELSE "puzzled"
    [] cpc[c] = "enter" -> IF l.op = "5" THEN "room"
                           ELSE IF l.op \in {"16", "17", "18"} THEN "back" ELSE "puzzled"
    [] cpc[c] = "room" -> IF l.op = "9" THEN "game"
                          ELSE IF l.op \in {"6", "7", "8"} THEN "room" ELSE "puzzled"
    [] cpc[c] = "game" -> IF l.op = "15" THEN "back"
                          ELSE IF l.op \in GameWords THEN "game" ELSE "puzzled"

\* A client reads a line, wherever it waits for one.
Read(c) ==
  /\ down[c] # <<>>
  /\ cpc[c] \in {"hello", "loginwait", "tokenwait", "back", "enter", "room", "game"}
  /\ LET l == Head(down[c])
         next == Expects(c, l)
     IN /\ cpc' = [cpc EXCEPT ![c] = next]
        /\ player' = [player EXCEPT ![c] =
                        IF next = "room" THEN NewPlayers(c, l) ELSE @]
        /\ master' = [master EXCEPT ![c] = IF next = "room" THEN NewMaster(c, l) ELSE @]
        /\ Send(c, CASE next = "back" -> <<Request(c)>>
                     [] next = "puzzled" -> <<EOF>>
                     [] OTHER -> <<>>)
  /\ down' = [down EXCEPT ![c] = Tail(@)]
  /\ UNCHANGED <<clientFrame, my_id, bounds>>

ClientStep(c) ==
  \/ \E n \in Names : Login(c, n)
  \/ \E w \in {"3", "4", "5"} : AskRoom(c, w)
  \/ LeaveRoom(c) \/ StartGame(c) \/ GiveUp(c) \/ Kill(c)

-----------------------------------------------------------------------------
(* main() and GetInRoom().                                                 *)

Tell(c, lines) == down' = [down EXCEPT ![c] = @ \o lines]
Taken(c) == up' = [up EXCEPT ![c] = Tail(@)]

\* Mutant: the login does not look at who is in a room.
HandleLoginLobby(id, c) ==
  \A i \in Conns \ {c} : state[i] = 1 => name[i] # id

\* A name is free if no other connection in use has it.
HandleLogin(id, c) ==
  \A i \in Conns \ {c} : state[i] # 0 => name[i] # id

\* The answer to line l.
Answer(c, l) ==
  CASE l.op = "1" -> <<Word("1")>>
    [] l.op = "token" -> <<Word("4")>>
    [] l.op = "2" /\ HandleLogin(l.who, c) -> <<Word("2"), Word("4")>>
    [] l.op = "2" /\ ~HandleLogin(l.who, c) -> <<Word("3")>>
    [] OTHER -> <<>>

\* main() reads a line of a connection that is in the lobby.  A word it does
\* not know is passed over.
MainRead(c) ==
  /\ state[c] = 1 /\ up[c] # <<>>
  /\ LET l == Head(up[c])
         asks == l.op \in {"3", "4", "5"}
         named == l.op = "token" \/ (l.op = "2" /\ HandleLogin(l.who, c))
     IN /\ Taken(c) /\ Tell(c, Answer(c, l))
        /\ state' = [state EXCEPT ![c] = CASE l = EOF -> 0 [] asks -> 2 [] OTHER -> 1]
        /\ request' = [request EXCEPT ![c] = IF asks THEN l.op ELSE @]
        /\ name' = [name EXCEPT ![c] = IF named THEN l.who ELSE @]
  /\ UNCHANGED <<room, thread, client, bounds, heirless>>

Taking == {s \in Seats : players[s] # None}

\* What a handler thread answers instead of a seat, or "none".
Refusal(op) ==
  IF op = "4" /\ (~used \/ random) THEN "16"
  ELSE IF op = "4" /\ in_game THEN "18"
  ELSE IF \/ op = "4" /\ Cardinality(Taking) >= ROOMCAP
          \/ op = "3" /\ used
          \/ op = "5" /\ used /\ (in_game \/ ~random) THEN "17"
  ELSE "none"

Refuse(c) ==
  /\ request[c] # "none" /\ Refusal(request[c]) # "none"
  /\ Tell(c, <<Word(Refusal(request[c]))>>)
  /\ state' = [state EXCEPT ![c] = 1] /\ request' = [request EXCEPT ![c] = "none"]
  /\ UNCHANGED <<name, room, thread, up, client, bounds, heirless>>

\* A seat in the room, which is opened if nobody is in it; a random request
\* searches on while the room it finds is full.
Seat(c) ==
  /\ request[c] # "none" /\ Refusal(request[c]) = "none"
  /\ ~used \/ Cardinality(Taking) < ROOMCAP
  /\ players' = [players EXCEPT ![IF used THEN Min(Seats \ Taking) ELSE 0] = c]
  /\ random' = IF used THEN random ELSE request[c] = "5"
  /\ used' = TRUE /\ new_player' = TRUE
  \* RoomProcess() begins with an empty copy and owner 0
  /\ IF used THEN UNCHANGED <<rused, owner>>
     ELSE rused' = [s \in Seats |-> None] /\ owner' = 0
  /\ heirless' = (used /\ heirless)
  /\ request' = [request EXCEPT ![c] = "none"]
  /\ UNCHANGED <<conns, in_game, player_num, alive, wires, client, bounds>>

-----------------------------------------------------------------------------
(* RoomProcess() and, in outline, GameStart().                             *)

\* The name of connection c; what is read at conns[-1] is no player's name
\* (it is read only in the case that heirless records).
NameOf(c) == IF c = None THEN NoName ELSE name[c]

Inside == {s \in Seats : rused[s] # None}

\* SendToEveryone(): line l to the connections in seats S.
ToSeats(S, l) ==
  [c \in Conns |-> IF \E s \in S : rused[s] = c THEN Append(down[c], l) ELSE down[c]]

Newcomers == {s \in Taking : state[players[s]] = 2 /\ rused[s] = None}

\* The k-th of the seats S, in the order in which the thread goes through them.
NthSeat(S, k) == CHOOSE t \in S : Cardinality({u \in S : u < t}) = k - 1

\* Mutant: who is let in together is not told to each other.
JoinLinesBefore(s) ==
  LET told == IF s \in Newcomers THEN {} ELSE Newcomers
  IN [k \in 1 .. Cardinality(told) |->
        Line("6", NameOf(players[NthSeat(told, k)]))]

\* The seats are gone through in order, so seat s is told of the newcomers
\* in later seats, and of all of them if its player is there already.
JoinLines(s) ==
  LET told == {t \in Newcomers : s \in Newcomers => t > s}
  IN [k \in 1 .. Cardinality(told) |->
        Line("6", NameOf(players[NthSeat(told, k)]))]

\* What a newcomer in seat s is told first: who owns the room and who is in it.
Welcome(s) ==
  LET there == Inside \cup {t \in Newcomers : t < s}
  IN [op |-> "5", who |-> NameOf(players[owner]),
      others |-> {NameOf(players[t]) : t \in there \ {owner}}]

\* The newcomers are let in.
Admit ==
  /\ used /\ ~in_game /\ new_player
  /\ new_player' = FALSE
  /\ rused' = [s \in Seats |-> IF s \in Newcomers THEN players[s] ELSE rused[s]]
  /\ player_num' = IF Newcomers = {} THEN player_num ELSE Cardinality(Taking)
  /\ down' = [c \in Conns |->
       IF \E s \in Inside \cup Newcomers : players[s] = c
       THEN LET s == CHOOSE t \in Inside \cup Newcomers : players[t] = c
            IN down[c] \o (IF s \in Newcomers THEN <<Welcome(s)>> ELSE <<>>) \o JoinLines(s)
       ELSE down[c]]
  /\ UNCHANGED <<conns, request, used, random, in_game, players, owner, alive, up,
                 client, bounds, heirless>>

\* The line from seat s that the room thread finds.  It passes over any other
\* word, which no client in a room sends.
RoomLine(s, lines) ==
  /\ used /\ ~in_game /\ rused[s] # None
  /\ up[rused[s]] # <<>> /\ Head(up[rused[s]]) \in lines

\* Mutant: who leaves in order stays in the room's hands.
AfterLeaveStays(l) == IF l = EOF THEN 0 ELSE 2

\* conns[].state of who leaves the room or the game with line l.
AfterLeave(l) == IF l = EOF THEN 0 ELSE 1

\* "6", or the end of the connection: the seat is given up, the room closed
\* if it was the last, and the others told; if the owner went, who owns the
\* room now.
RoomLeave(s) ==
  /\ RoomLine(s, {Word("6"), EOF})
  /\ LET c == rused[s]
         last == Taking = {s}
         heirs == Inside \ {s}
         heir == IF s = owner /\ heirs # {} THEN Min(heirs) ELSE owner
     IN /\ Taken(c)
        /\ state' = [state EXCEPT ![c] = AfterLeave(Head(up[c]))]
        /\ players' = [players EXCEPT ![s] = None]
        /\ used' = ~last /\ random' = (random /\ ~last)
        /\ player_num' = Cardinality(Taking) - 1
        /\ rused' = [rused EXCEPT ![s] = None]
        /\ owner' = IF last THEN owner ELSE heir
        /\ down' = IF last THEN down
                   ELSE IF s = owner THEN ToSeats(heirs, Line("8", NameOf(rused[heir])))
                   ELSE ToSeats(heirs, Line("7", name[c]))
        /\ heirless' = (heirless \/ (s = owner /\ heirs = {} /\ ~last))
  /\ UNCHANGED <<name, request, in_game, new_player, alive, client, bounds>>

\* Mutant: the first round is announced before the game.
OpeningSwapped == <<Word("10"), Word("9")>>

\* The first lines of a game: who plays, and the first round.
Opening == <<Word("9"), Word("10")>>

\* "7": not enough players, or the game begins.
RoomStart(s) ==
  /\ RoomLine(s, {Word("7")})
  /\ Taken(rused[s])
  /\ IF player_num < 2
     THEN down' = ToSeats(Inside, Word("19")) /\ UNCHANGED <<in_game, alive>>
     ELSE /\ in_game' = TRUE /\ alive' = Inside
          /\ down' = [c \in Conns |-> IF \E t \in Inside : rused[t] = c
                                      THEN down[c] \o Opening ELSE down[c]]
  /\ UNCHANGED <<conns, request, used, random, new_player, players, rused, owner,
                 player_num, client, bounds, heirless>>

\* The room after its game: everybody who still plays is told and goes back
\* to the lobby.
CloseRoom(S, told) ==
  /\ down' = [c \in Conns |-> IF \E t \in S : rused[t] = c
                              THEN Append(told[c], Word("15")) ELSE told[c]]
  /\ used' = FALSE /\ random' = FALSE /\ in_game' = FALSE
  /\ players' = [s \in Seats |-> None] /\ alive' = {}

\* A player in the game: "8" or the end of the connection; the last one left
\* has won.  Other lines are UnoGame's.
GameRead(s) ==
  /\ in_game /\ s \in alive /\ up[rused[s]] # <<>>
  /\ LET c == rused[s]
         l == Head(up[c])
         rest == alive \ {s}
         told == ToSeats(rest, Line("7", name[c]))
     IN /\ Taken(c)
        /\ IF l \notin {Word("8"), EOF}
           THEN UNCHANGED <<state, down, used, random, in_game, players, alive, player_num>>
           ELSE IF player_num - 1 < 2
           THEN /\ CloseRoom(rest, told) /\ UNCHANGED player_num
                /\ state' = [d \in Conns |->
                     CASE d = c -> AfterLeave(l)
                       [] \E t \in rest : rused[t] = d -> 1
                       [] OTHER -> state[d]]
           ELSE /\ alive' = rest /\ down' = told /\ player_num' = player_num - 1
                /\ state' = [state EXCEPT ![c] = AfterLeave(l)]
                /\ UNCHANGED <<used, random, in_game, players>>
  /\ UNCHANGED <<name, request, new_player, rused, owner, client, bounds, heirless>>

\* Somebody wins.
GameWon ==
  /\ in_game /\ alive # {}
  /\ CloseRoom(alive, down)
  /\ state' = [c \in Conns |-> IF \E s \in alive : rused[s] = c THEN 1 ELSE state[c]]
  /\ UNCHANGED <<name, request, new_player, rused, owner, player_num, up, client, bounds, heirless>>

ServerStep ==
  \/ \E c \in Conns : MainRead(c) \/ Refuse(c) \/ Seat(c)
  \/ Admit
  \/ \E s \in Seats : RoomLeave(s) \/ RoomStart(s) \/ GameRead(s)

Next ==
  \/ Connect \/ GameWon \/ ServerStep
  \/ \E c \in Conns : Read(c) \/ ClientStep(c)

Spec == Init /\ [][Next]_vars

\* Server threads and clients go on; players type what and when they like.
LiveSpec ==
  /\ Spec
  /\ \A c \in Conns : WF_vars(MainRead(c)) /\ WF_vars(Refuse(c)) /\ WF_vars(Read(c))
  /\ WF_vars(Admit)
  /\ \A s \in Seats : WF_vars(RoomLeave(s) \/ RoomStart(s) \/ GameRead(s))

-----------------------------------------------------------------------------
(* Properties.                                                             *)

LoggedIn == {"tokenwait", "lobby", "enter", "room", "game", "back"}

\* Two players who are logged in have different names, wherever the server
\* has them, although names are set in three places and an entry of conns[]
\* keeps its name when it is used again (final_server.c:100-109, 1332-1366).
NamesDiffer ==
  \A c, d \in Conns :
    c # d /\ cpc[c] \in LoggedIn /\ cpc[d] \in LoggedIn => my_id[c] # my_id[d]

\* No line is on its way to the client or from it.
Quiet(c) == up[c] = <<>> /\ down[c] = <<>>

\* As soon as nothing is on its way, a client in the room shows the owner and
\* the players that the room thread has (final_cli.c:264-378), unless the
\* owner left the room to somebody who was not let in yet (heirless).
RoomsAgree ==
  \A c \in Conns :
    cpc[c] = "room" /\ Quiet(c) /\ ~heirless =>
      /\ master[c] = NameOf(rused[owner])
      /\ player[c] = {NameOf(rused[s]) : s \in Inside \ {owner}}

\* Client and server keep in step: a client that ends itself over a line it
\* does not expect was waiting for the answer to a leave that crossed the
\* line, or had asked for a game with too few players (final_cli.c:60-70,
\* 360-363; the room's "19" of final_server.c:838 is not known to goto_room()).
InStep ==
  [][\A c \in Conns :
       cpc[c] # "puzzled" /\ cpc'[c] = "puzzled" =>
         cpc[c] = "back" \/ Head(down[c]) = Word("19")]_vars

\* A client that left a room or a game is not kept waiting: it comes to the
\* lobby or ends, although the game may have begun or ended meanwhile, so
\* that its lines are read by another thread (final_cli.c:57-75).
BackInTheEnd ==
  \A c \in Conns : cpc[c] = "back" ~> cpc[c] # "back"

\* "This means the server got the request" (final_cli.c:60): the first line
\* after a leave is its answer.
AnswerComesFirst ==
  \A c \in Conns : cpc[c] = "back" /\ down[c] # <<>> => Head(down[c]) = Word("4")
=============================================================================
