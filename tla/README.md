# A TLA+ development for unpv13e

The repository holds the programs of *UNIX Network Programming*, volume 1,
third edition, and a networked UNO game, a server (`tcpcliserv/final_server.c`)
and its client (`tcpcliserv/final_cli.c`), built on the same library.  It is
many small programs rather than one large one.  This development models those
whose correctness depends on the order of events: threads and signal handlers
that share memory, processes that pass descriptors, alarms that race answers,
buffers that fill up, and a game whose players send what they like when they
like.

    UnoLobby -.- MCUnoLobby              final_server: connections, rooms, threads
              `- UnoLobbyProofs
    UnoTalk --.- MCUnoTalk               final_cli and final_server: login, lobby, room
              `- UnoTalkProofs
    UnoTurn                              final_server: who is next, who was first
       |-- UnoGame ---.                  final_server: one game
       `-- UnoTable --+- MCUnoGame       final_server and final_cli: one game, both sides
                             `- UnoGameProofs
    WorkerPool                           what the servers promise
       |-- ServPassFd  --.
       |-- ServLock    --|------------- ServLockProofs
       |-- ServQueue   --+- MCServers    server/serv02 to serv05, serv07 to serv09
       |-- ForkServer  --|     `- ServersProofs
       |                 |               a process or a thread for each client
       `-- SelectServer--'               one loop for all clients
    EchoClient --.                       str_cli() in its ten versions
    WebClient  --|                       nonblock/web, threads/web01 to web03
    SockTool   --|                       sock
    Heartbeat  --+- MCClients            oob/heartbeat*
    TcpOob     --|     `- ClientsProofs  oob/tcpsend*, tcprecv*
    SctpEcho   --|                       sctp
    SocketSetup--'                       lib/tcp_connect and others, main() functions
    SigioEcho  --.                       sigio: the ring of dg_echo()
    DgClient   --|                       dg_cli() in its versions, rtt
    IcmpDaemon --+- MCDatagrams          icmpd
    Traceroute --|     `- DatagramsProofs  traceroute
    Ping       --'                       ping, bsdping
    LineIO     --.                       readline(), readn()
    AddrText   --+- MCLibrary            inet_pton(), inet_ntop(), inet_aton()
    GetAddrInfo--'     `- LibraryProofs  libgai

`PROJECT.json` lists components, runs, the source lines behind each definition,
findings, hazards and theorems.  Source lines below are relative to `src/`.

## 1. Inventory

| Component | State | What is hard | What makes it correct | Module |
|---|---|---|---|---|
| UNO server, lobby and rooms (`final_server.c`, `main`, `GetInRoom`, `RoomProcess`) | `conns[]`, the list of used connections, `handler_working[]`, `handler_arg[]`, `room_data[]` under a lock per room, `room_working[]`, `global_player_num` | one thread per connection and per room, spinning on flags that no lock guards; the reader of a socket changes hands through `conns[].state` | seats are counted right, a socket has one reader, nobody is forgotten, a joiner is admitted | `UnoLobby` |
| UNO server, a game (`GameStart` and its helpers) | hands, pile, whose turn, direction, UNO calls of a sweep | lines come in any order and from anybody; players leave in the middle of a sweep; the pile runs out | the turn is always some player's; no card is in two places; UNO calls go to the earliest | `UnoGame`, `UnoTurn` |
| UNO server, login and lines to clients | names | names are set in three places; newcomers must hear of each other once | names are unique, every request is answered | `UnoTalk` |
| UNO client, login, lobby and room (`final_cli.c`) | screen, owner and players as the client sees them | lines cross; the client ends itself over a line it does not expect | client and server are in step, their copies of the room agree | `UnoTalk` |
| UNO client, a game (`game`) | hands, turn, counts and UNO calls as the client sees them, countdown | both sides hold a copy of the game; a client out of time sends again | the copies agree, moves are in turn | `UnoTable` |
| Preallocated servers (`server/serv02` to `serv05`, `serv07` to `serv09`) | table of children and pipes; lock around `accept`; ring of descriptors | the parent learns late what children do; lock held by somebody who dies; wake-ups, a full ring | each connection is served once, and in the end | `ServPassFd`, `ServLock`, `ServQueue`, `WorkerPool` |
| Servers with a process or a thread for each client (`tcpcliserv`, `unixdomain`, `threads`, `server`) | children, SIGCHLD, EINTR | children that end together are one signal; an `accept()` that is interrupted | the same promise, no zombies | `ForkServer` |
| Servers with one loop (`tcpservselect01`, `tcpservpoll01`, `nonblock/tcpservselect03`) | `client[]`, `maxi`, `allset`, `maxfd`, `nready` | descriptors and entries are used again while results are looked at | the table is right, the loop never waits for one client | `SelectServer` |
| TCP echo clients (`str_cli`) | two buffers, end-of-file flag | batch input, stdio and `select`, buffers full both ways | everything sent comes back, the client ends | `EchoClient` |
| Web clients | table of files, `nconn`, `nlefttoread`, `ndone` | limit on connections, threads that end before they are joined | the counters are true, every file is fetched | `WebClient` |
| `sock` | its options, its socket | options set at four places; a fork with signals | what was asked for is set when data move | `SockTool` |
| Out-of-band data, heartbeats | probe counts, the urgent mark | two signal handlers on one count; one mark, one byte | a dead peer is noticed; every byte is read once | `Heartbeat`, `TcpOob` |
| SCTP examples | streams, notifications | streams overtake each other; partial delivery | echoes in order, every line answered | `SctpEcho` |
| Setting up a socket (`lib/tcp_connect` and others, the `main()` functions) | list of addresses, descriptor | any call fails for any address; a connection aborted before `accept()` | one socket, none leaked | `SocketSetup` |
| Signal-driven echo server (`sigio/dgecho01.c`) | ring of datagrams, its indices and its count, signal mask | the handler interrupts the loop anywhere SIGIO is open; signals do not queue | first in first out, no lost wake-up | `SigioEcho` |
| UDP clients (`rtt`, `advio`, `bcast`, `mcast`) | estimators, alarm, jump buffer, pipe | lost, late and repeated answers; an alarm before the wait | an answer belongs to its request, a round ends | `DgClient` |
| ICMP daemon | `client[]`, `maxi`, raw sockets | entries and ports are used again | errors reach their owner only | `IcmpDaemon` |
| `traceroute`, `ping` | probe number, alarm flag; bit per sequence number | late answers and answers of others; a handler in the middle of a count | stops at the destination only; counts agree | `Traceroute`, `Ping` |
| Line and byte I/O (`readline`, `readn`) | bytes read ahead | shared by descriptors and threads | a line belongs to who sent it | `LineIO` |
| Address library (`libfree`, `libgai`) | the list under construction | any allocation fails; `::` anywhere | text and address agree; the list is what was asked for; nothing leaks | `AddrText`, `GetAddrInfo` |
| Drafts and homework, instrumented servers, UDP servers and announcements, routing sockets, PF_KEY, `ioctl`, raw packets, IP options, STREAMS, inetd, older copies of the library, wrapper functions | | no state or concurrency of their own, or versions of the above | | not modelled, see section 7 |

How the modelled parts interact.  In `final_server`, `main()` hands a lobby
connection to its handler thread by setting `conns[].state` to 2 and
`handler_working[]` to 1; the handler gives it a seat under the room's lock and
sets `new_player`, or opens a room and sets `room_working[]`; the room thread
admits it, and later gives it back to `main()` by setting the state to 1, or
calls `GameStart()` on its own copy of the roster.  `GameStart()` touches only
the room thread's locals, `conns[].state` and the counter of players, so
`UnoLobby` has who leaves and how a game ends, and `UnoGame` what happens
between.  A client knows the server's state only from the lines it has read;
`UnoTalk` and, within a game, `UnoTable` put the two together.  Nearly every
program comes to its socket through `SocketSetup`, and final_server, str_echo()
and the clients read through `LineIO`.  The other programs stand alone or are
pairs of a client and a server, which their module has both of.

## 2. Modules and the code

### UnoLobby

An action is one critical section, or one access to a shared variable that no
lock guards.  `mpc`, `hpc[c]` and `rpc[r]` say where `main()`, handler thread
`c` and room thread `r` are; locals of the source keep their names with a
prefix (`rused` is the `used[]` of `RoomProcess`).  `global_player_num++` and
`--` are a load and a store, since three threads do them without a lock.
Requests are chosen when a socket is read.

A handler may open a room again as soon as its last player has given up the seat
under the lock (`final_server.c:808`), while the room thread has not yet tested
`room_working[]` without it (`:810`, `:696`).  The thread then goes on with the
`used[]` of the room that was closed: those seats are `stale`, and `misreads` counts
the lines it reads, and the games it begins, for one of them.

Left out: names, login and what is sent to the clients (`UnoTalk`), `room_num`
(never read).  In a game the model has who leaves and when the game ends.  The
room number of a join is one of the rooms; the code uses `atoi()` of the line
unchecked (`:1381`), and what an index outside the array does is undefined.  A
`select()` over the closed descriptor of a stale seat ends the server; this is not
a step of the model, which so has behaviours beyond it.

### UnoTalk

A client is where it waits, `cpc`: for the first answer (`hello`), for a name to
be typed (`login`), for the answer to it, in the lobby, for a seat (`enter`), in
the room, in the game, or for the answer to its request after it left (`back`).
`up[c]` and `down[c]` are the lines on their way, in order.  `Read` is every
`Readline()` of the client: the line's first word decides where it goes, and a
word it does not expect ends it (`puzzled`, the `exit(0)` of every `else`).
`Login`, `AskRoom`, `LeaveRoom`, `StartGame` and `GiveUp` are what the player
types; `Kill` ends the client from outside.

The server's reaction to one line is one step: `MainRead` for `main()`, `Refuse`
and `Seat` for the handler thread, `Admit`, `RoomLeave` and
`RoomStart` for the room thread, `GameRead` and `GameWon` for the game.  What
happens between two accesses of the threads is `UnoLobby`'s subject.  A game is
an outline here: its opening, who leaves it and how it ends; `UnoGame` has its
inside, and `GameWon` may happen at any time.

* There is one room: the random search ends at it or opens it.
* A write to a client that is gone is lost here, while `Writen()` may end the
  server; as in `UnoGame` the model so has behaviours beyond that.
* A client's entry of `conns[]` is its identity.  A connection is accepted as
  soon as an entry is free.
* `players[owner]` may be -1 when somebody is let in (`heirless`): the code then
  reads `conns[-1].name`, and nothing is claimed of what such a client shows.

### UnoGame

A room thread sweeps over the seats of the players; `pos` is where the sweep
goes on, and each player's line is one action (`Leave`, `Play`, `Skip`,
`FalseCall`, `CallUno`, `Catch`).  `GiveCardToPlayer()` is a card at a time
(`Draw`, `Reshuffle`), with `give` as what remains of the call; the sweep does
not go on before it is finished.  `EndSweep` settles the calls.

* Players may send any line at any time: the server does not test whose turn it
  is, whether a card fits, or whether the player holds it.  This also covers
  lines that the static buffer of `lib/readline.c` attributes to the wrong
  player, and `recvline` as a previous line left it.
* `used` is any seating: whoever sits in a seat has any connection.  The
  `player_num` that `RoomProcess()` hands over is the room's count when somebody was
  admitted or left last (`:729`, `:807`, `:846`), and a joiner is counted by a handler
  before the room thread admits it.  `waiting` is how many were counted and not
  admitted.  A number below `player_num` is drawn for the first turn; if it is none of
  a player, it remains in `whose_round` as the number of a seat that may be empty.
* A card that is not found leaves `card_id` as it was; before the first card it
  is uninitialized, and the model takes any card.
* The player caught is looked for by `conns[j].name`, `j` being a seat (`Named`).
  Nobody found makes the code look at entry -1 of two arrays;
  the model takes either outcome of the test.
* Drawing takes any card of the pile, since the order of the pile is random.
* If all cards are in hands the code reads `card_seq[-1]`; the model stops.
* Scores, colours and text are left out.  A write to a player whose connection
  is gone ends the process (`Writen`); this is not a step of the model, which so
  has behaviours beyond it.

### SigioEcho

`dg_echo()` is one action per statement that touches the ring or the mask;
`sig_io()` is a delivery, a turn of its loop per datagram, and a return.  Test
and sleep are one step, `Suspend`: SIGIO is blocked until `sigsuspend()` opens
the mask, which is what the code relies on.  A handler's return out of
`sigsuspend()` restores the mask.  SIGHUP prints counters and is left out.  A full ring
ends the process (`SigIoOverflow`), and so does an error of `recvfrom()` or `Sendto()`
(`Fail`); nothing says that they must not fail.

### UnoTurn, UnoTable

`UnoTurn` has the two searches of the game, the next player in a direction and
the earliest of the calls, for both models of it.  `UnoTable` is a game as both
sides see it: each client's copy of the table, the lines up and down, and the
server's game as far as the lines tell of it.  Here cards are counted; which
card it is matters only through what it does (`Kinds`).  `TypeSkip` is also the
countdown: a client out of time sends the skip every second until its next round
(`TypeSkipAnytime` is the test of the turn left out, a mutant).  `Read` is the
client's reaction to a line, `Play` to `EndSweep` the server's.  Seats and connections differ as they do in
`UnoGame`.  A line that names a player has the seat of whoever has that name: the
server names `conns[used[s]]` nearly everywhere, but at `:650`, as in the comparison
at `:597`, `conns[s]`, so that "13" tells the clients of two cards for whoever has the
connection with the number of the seat (`Names`), and each of them counts the cards
there.  The turn of an empty seat is told as nobody's (`Shown`; the code reads
`conns[-1].name`).  `moved`, `stray`, `misnamed`, `blurred` and `revived` are history.
Talk, the screen, the reshuffle (a card of which
`UnoGame` has) and which cards the client allows are left out, and so is a
line that arrives in two pieces, which `game()` reads with `read()`.

### WorkerPool and the servers

`WorkerPool` is the promise: a connection comes in, waits, is served by one
worker, is done.  `ServPassFd` has `select()` as a snapshot that `Accept` and
`Scan` use up, as the code does with `nsel`, and the children's standard error
as the same pipe that reports them free.  `ServQueue` has the mutex, and a
condition variable that may wake a thread for no reason.  In both, `web_child()`
is one step that ends well (`Finish`) or ends the child or the process (`Die`),
as its `err_quit()` and the wrapper functions do, and a client may reset a
connection before it is accepted.  `ServLock` is five programs that differ in
the lock around `accept()` and in whether a worker is a process; a child may be
killed anywhere (`Kill`), and the kernel then frees a lock on a file but not a
mutex in shared memory (`Holder`).

`ForkServer` is seventeen programs as records: what is made for a connection (a
child, a thread, nothing), what handles SIGCHLD, whether EINTR is tried again,
whether `select()` comes first.  SIGCHLD is one bit (`chld`), delivered to a
parent that sleeps or runs; whether `accept()` is restarted or fails is either,
as systems differ.  `SelectServer` is three loops over one table; descriptors are
the lowest free number, so that a closed one is used again at once.

`MCServers` runs any one of them, chosen by `which`, over the same clients, and
maps all of them to `WorkerPool`: the stage of a connection follows from
`arrived`, `done` and the worker that has it.

### EchoClient, WebClient

Lines keep their order, so each stage of a line's way is a count
(`EchoClient`); the blocks that `read()` returns have any size.  stdio's buffer
is a stage of its own (`nfile`), which is what makes `select01` stop early.  The
server is `str_echo()` and may be killed at any time; the reset that a write then
provokes is `rst`.  `WebClient` has threads with their mutex, or `select()` with
its two sets, and a reply in one or two pieces; a failing call ends the program.

### SockTool, Heartbeat, TcpOob, SctpEcho

`SockTool`: a command line is a set of letters and a number of words.  `lset` and
`fdset` are the options set on the listening socket and on the one in use,
collected along the calls of `sockopts()`, `servopen()` and `cliopen()`.  The
signals of `tellwait.c` are `blocked`, `pending` and `sigflag`.  `Heartbeat` has
the handlers of both ends, under the echo client and server they belong to, and a
network that fails for good.  `TcpOob` has the kernel's side of out-of-band data
(external): a window, one mark, one byte, an exception that stays until data
beyond the mark is read.  `SctpEcho` has the programs over one association whose
messages are in order within a stream only (external).

### SocketSetup

A program is a record: whether all addresses are tried, the calls made for each,
the calls after it, whether it serves.  `CallOK`, `CallFails`, `NextAddress` and
`Last` walk through it; a failing wrapper ends the program.  `Accept` tries again
as `lib/wrapsock.c` does.  One definition for each `main()`, which names the
lines that the record stands for.

### DgClient, IcmpDaemon, Traceroute, Ping

`DgClient`: the versions differ in how they wait (`recv`, `select`, `alarm`,
`mask`, `pselect`, `jump`, `pipe`, `rtt`); each moment between two calls at which
SIGALRM finds nobody is a step.  `rtt.c`'s arithmetic is in milliseconds.
`IcmpDaemon` has the daemon's select loop over clients, both raw sockets and the
listening socket, and its clients, that may be killed; a port is used again once
its owner is gone, and a write to one that was killed ends the daemon.
`Traceroute` has `gotalarm` and the window between its test and `recvfrom()`.
`Ping` has `pr_pack()`'s test and set of a bit as two steps between which the
handler of SIGALRM clears another bit of the byte (`reg`).

### LineIO, AddrText, GetAddrInfo

`LineIO`: versions differ in where the bytes read ahead are kept.  `AddrText` is
operators only; texts are sequences of digits, colons and dots, parsed character
by character as the C code does, and the meaning of a text is defined separately
by its parts.  `GetAddrInfo` has the search list, a structure for each address
and socket type, and a failing allocation anywhere.

## 3. Runs

| Run | Checks | Shows |
|---|---|---|
| `uno_lobby` | `TypeOK` `SeatCount` `OneReader` `BooksRight` `GameRosterFixed` | Two clients with every kind of request against one room, until a line is read for a stale seat: seats and flags agree, a socket has one reader, `main()`'s list covers every live connection and its counter is right up to updates that overlap.  A running game keeps its players. |
| `uno_rooms` | `EventuallyAdmitted` `RandomRequestEnds` | A room found by random search, whose choice is made without the lock and tested with it: searches end and the seated are admitted, unless in a stale seat. |
| `uno_stranded` | `NobodyLeftInDissolvedRoom` (violated) | A client that joins between the last admission and the start of the game is in nobody's hands once the game is over. |
| `uno_talk` | `NamesDiffer` `RoomsAgree` `InStep` `BackInTheEnd` | Client and server over lines that cross: names differ, a client that has read everything shows the room as the server has it, only a crossing line or a refused start ends a client, and leaving leads back to the lobby. |
| `uno_crossed` | `AnswerComesFirst` (violated) | A line of the room sent before the leave was read is taken for its answer, and the client ends. |
| `uno_game` | `TypeOK` `RoundIsPlayable` `CardsInOnePlace` `FastestWins` `CopiesAgree` `MovesInTurn` | With seats and connections that differ and with joiners not admitted: the count and the turn are the players' up to those joiners, cards stay in one place until a reshuffle, calls are settled for the earliest; clients that have read everything show the server's table but for what a misnaming line does, and a first move is in turn whatever crosses it. |
| `game_named` | `CaughtIsNamed` (violated) | `conns[j].name` where `conns[used[j]].name` is meant. |
| `game_left` | `LeftStaysOut` (violated) | A player caught, then gone in the same sweep, is dealt back in. |
| `servers` | `TableRight` `RingKeepsAll` `LockRight` `ZombiesSeen` `SlotsRight` `ServesOnce` `ServedInTheEnd` | All servers implement `WorkerPool`, keep table, ring and lock right, leave no zombie where they call `waitpid()`, never wait for one client in the loop for all, and serve everybody as long as somebody is left to accept. |
| `clients` | `DataComesThrough` `CountsRight` `SocketReady` `ClientEnds` `NothingMissed` | What is sent comes out once and in order, counters are true, a program has one socket with the options it was asked for, clients end, and nothing that is waited for passes by. |
| `datagrams` | `RingIndices` `EchoFIFO` `OwnAnswer` `RtoRight` `OwnErrors` `EveryDatagramEchoed` `RoundEnds` | The shared ring stays consistent and loses no wake-up; answers and errors belong to who takes them; a round ends whatever is lost. |
| `library` | `LinesRight` `TextsRight` `ListRight` `NothingKept` | Bytes are returned once, in order and to their caller; texts and addresses agree; the list is what was asked for, and a failure leaves nothing behind. |

The four last runs, and `uno_game`, hold several models.  A variable that never
changes, `which`, says which of them runs; the others stay in one initial state.
A property of such a run is the conjunction of what the modules state for its
idea, under the modules' names.

### Bounds

* `MCUnoLobby.cfg`: two clients (the smallest number that can race in a room),
  one room, all requests; `MaxNodes` bounds the list of `main()`, which may hold
  a connection twice for a while; `MaxRaces` = 1 lets one update of the counter
  overlap another.  `MaxMisreads` = 0 ends a behaviour where a line would be read for a stale
  seat: `SeatCount`, `OneReader` and `BooksRight` speak of behaviours up to there
  (`misreads = 0`), and what comes after it is in section 6.
  `ROOMCAP` 3 in 4 seats keeps the code's spare seat (9 in 10).
* `MCUnoLobbyRooms.cfg`: one room, for two clients that find it, leave it and open it
  again, also while its thread is still in its last round.  No `start`, because of `uno_stranded`: a client
  that is never admitted is what that run shows.
* `MCUnoTalk.cfg`: two clients, which share a room, and a third start, so that
  an entry of `conns[]` is used again with its old name; two names, so that they
  can clash; `MaxAsked` 3 requests for a room or a game: a room with both in it
  and a game, or a room left and entered again.  `ROOMCAP` 2 in 3 seats.
* `MCUnoGame.cfg`: three seats and `ROOMCAP` 3.  The seatings are `Mixed`: three players,
  two of them in seats with each other's connection numbers, so that names go wrong;
  two players and a joiner not admitted, with the number of the empty seat drawn for
  the first turn; one player and one or two joiners not admitted.  One card of each kind, so that every effect
  happens; `LONG_MAX` 2 gives two time stamps, enough for before, after and a
  tie; `MaxReshuffle` 1.  One deal, and otherwise the first seat to begin: others differ in
  which effect comes first.  For `UnoTable` the same seatings with two cards
  each, so that the first play brings a player to one card and a call; a reverse
  and a draw-two, of which one turns the order and the other deals while lines
  are on their way; `MaxTyped` 3 lines: one for each of a move, a call and a
  leave or a catch that cross.  `TableLongMax` 2 gives the table's calls and catches two
  time stamps, so that a catch may be earlier than the call.  The pile (`TableCards`) does not run out.
* `MCServers.cfg`: two workers (three where they accept themselves, so that two
  can wait while one dies with the lock), a ring of 3 and `NCONN` 4 connections: it
  wraps and it can be full; `MsgLen` 2 bytes of last words: one to be taken as
  "free again", one to follow.  `NFEW` 3 connections to servers that make a child
  for each: two that end together while a third runs.  `NCLIENT` 2 entries, so
  that the table is full and an entry is used again, `NLINE` 2 lines on the way.
* `MCClients.cfg`: `CAP` 2 lines in each direction; six lines with buffers of
  one line, which fills both directions, the server and the client's buffer, so
  that a client that stopped reading would wait for ever; four lines with
  buffers of two, so that blocks are cut.  Three files over two connections; three
  options of eighteen, since what one does depends on at most two others (`-s`,
  `-u`); two children, of which the second meets the mask that the first has
  left open; two probes; a window of two bytes; two streams, two lines; two addresses
  and two waiting connections, of which one is aborted.
* `MCDatagrams.cfg`: `QSIZE` 3 and `MaxDg` 5: the ring wraps and overflows.
  Two requests with two answers each, of which one is late for the other;
  round trips of 0 and of 90 seconds, beyond either bound of the timeout; two
  clients of the daemon that use one port and one entry in turn; two hops, two
  probes; two sequence numbers (`SEQMOD`) for four requests, so that each bit is
  used again.
* `MCLibrary.cfg`: texts of up to eight characters over a small alphabet (two
  hex and two decimal digits, octets of one digit, three words): every shape of
  a full address, with `::` and with a dotted end.  Addresses of full size with
  words 0, 26 and 65535 for the round trip.  Three bytes on each of two
  descriptors with buffers of three; two addresses for each family.

`MCUnoLobby`'s `LiveView` and `MCUnoGame`'s `LiveGame` leave out of a state
what no later step reads (locals past their last use; `rowner`, which nothing but the owner's own replacement
reads; a game that is over, the one of the two models that is not played, the copy of
a client that has left, and of a call that its sender holds to be wrong all but its
kind, `Heard`).  Deadlock is checked in
`MCUnoLobby`'s runs.  The others have behaviours that stop: no more datagrams,
lines or connections within the bound, a game over, a process that quit.

### Fairness

* `UnoLobby` (`LiveSpec`): weak fairness of each thread's own steps; the threads
  spin, and a critical section contains no wait.  Clients owe nothing.  The
  random search of `RandomRequestEnds` may go round for ever around a room that
  empties again and again, hence the exception in that property.
* `UnoTalk` (`LiveSpec`): weak fairness of what the server's threads and the
  clients do with a line that has arrived, and of admission.  Players type what
  and when they like, and need not type at all.
* `MCServers`: weak fairness of each process and thread; strong fairness of
  taking the mutex, i.e. a thread that wants it is not passed over for ever.
  Clients of `SelectServer` close in the end; otherwise none for clients, for a
  child's death or for a wake-up without a signal.
* `EchoClient`: weak fairness of writer, reader and server; nobody need type.
  Standard output takes what `strclinonb` offers it in the end (strong fairness
  of the write that empties the buffer).
* `WebClient`: weak fairness of threads; strong fairness of the mutex and of the
  handling of a file that `select()` reports; the server answers in the end.
* `SockTool`, `Heartbeat`, `SctpEcho`, `SocketSetup`, `SigioEcho`, `DgClient`,
  `IcmpDaemon`, `Traceroute`, `Ping`: weak fairness of each process and of the
  delivery of a signal.  Nothing is assumed of the network, except in `SctpEcho`,
  whose stack delivers.  `TraceEnds` and `QueueServed` state what else they need:
  that ICMP messages keep coming in, and that no client resets a connection that
  is being served.

## 4. Proofs

For every value of the constants that satisfies the assumptions of the module:

* `UnoGameProofs`: `TypeCorrect`, `TurnStaysWithPlayers` (`RoundIsPlayable`) and
  `NoCardTwice` (`CardsInOnePlace`).  The lemma behind the second is
  `SwitchFindsPlayer`: going round from a seat, `SwitchToNextPlayer()` ends at
  somebody who plays if there is one, whatever the direction (`OnwardReaches`:
  every other seat is some number of places on; `UnoTurn` has the search
  itself).  A turn that passes on only when cards have been dealt needs to
  know that the cards go to a player (`Dealing`).
  `IInv` is `TypeOK`, `Dealing` and `RoundIsPlayable`; `CardsInOnePlace` is then
  inductive relative to it.  There is one lemma per action.  `RosterAssumption`
  says that somebody sits down and that nobody sits twice; `Init` that `player_num` is
  at least two and at least the number of those who sit, which is what
  `RoomProcess()` tests.  `RoundIsPlayable` counts the joiners not admitted
  (`waiting`): while there are none the turn is a player's, and with some of them it is
  a player's, or a seat's that was empty from the start, or nobody plays any more.
  `SettledByTheFastest` (`FastestWins`): a time stamp that the sweep has not come to,
  and that of who does not play, is `LONG_MAX` (`StampsFresh`), so starting from seat 0
  does no harm, and `LoopFindsEarliest` says what the loop has found at each seat.
* `UnoGameProofs`, about `UnoTable` as `MCUnoGame` has it, for any number of seats, any
  seating (`RosterAssumption`), hand and deck (`TableAssumption`): `FirstMovesInTurn` (`MovesInTurn`) and
  `CopiesAlwaysAgree` (`CopiesAgree`).  Server and clients lag behind each other by the
  lines on their way, so both invariants are about those lines.  `TurnKept`: a client
  has moved in its turn and nothing has changed since, or sees that it has the turn
  and has not moved, or the last round on its way to it says so; in all three cases
  the server's turn is its own (until a skip has been `stray`).  `Leads`: the lines on
  their way take what a client shows to a view that `Fits` the server's table: the
  turn and the number of players always; hands and pile unless a "13" since the last
  round named somebody else (`misnamed`); and who has called unless that ever happened
  or UNO was granted late (`blurred`).  A round tells the hands and the pile afresh, so
  `misnamed` ends with it; it does not tell who has called, so `blurred` does not.
  `Counted` says who may have called with how many cards, which is why a client's own
  bookkeeping of calls comes out right.  Both hold while the game lasts and nobody who
  left is dealt cards (`Lasts`).  There is one lemma per action.

* `ServLockProofs`: `LockStaysRight` (`LockRight`) and `Implements` (`ServesOnce`:
  the five programs of `ServLock` implement `WorkerPool`), for any number of
  workers and connections; no assumption on the constants is needed, since the
  pool's connections are mapped to all positive numbers.  `IInv` adds to
  `LockRight` that a connection is in one place (`OnePlace`: pending, done, or
  with one worker past `accept()`) and that servers without a lock never use it
  (`Loop`).  `OnePlace` is what makes the mapping a function: `WorkerOf` chooses
  the one worker that has a connection.  Then `Arrive`, `Abort`, `Accept` and
  closing (`Finish`, `Die`, `Kill`) are the pool's steps, and taking and
  releasing the lock is not seen.  That `accept()` returns a connection there is
  (`MinPending`) rests on the well-foundedness of `<` on the naturals.

* `UnoLobbyProofs`: `TypeCorrect`, `RosterFixed` (the action property
  `GameRosterFixed`: no seat changes hands while a room plays), `SeatsCounted`
  (`SeatCount`), `SocketsHaveOneReader` (`OneReader`) and `BooksStayRight`
  (`BooksRight`), for any number of connections, rooms and seats
  (`SizesAssumption`, `RequestsAssumption`).  The last three are about behaviours
  in which no line has been read, and no game begun, for a stale seat
  (`misreads = 0`), although rooms may be opened before their thread is idle: such a
  line breaks them, see section 6.  That is why `IInv` is
  `Typed /\ (misreads = 0 => Right)`.  `Right` says at which places of its thread a
  room or a connection is whose: who reads a socket depends on `conns[].state`, on
  the place of the handler and on the seat at once, and no one of the three
  properties is inductive without the others.
* `UnoTalkProofs`: `NamesStayDifferent` (`NamesDiffer`), `KeptInStep` (`InStep`) and
  `RoomsAlwaysAgree` (`RoomsAgree`), for any number of connections and seats (`TalkAssumption`).  What a client shows
  lags behind what the server believes by the lines on their way, so the invariant is
  about them: `After` says where a line takes a client, `Takes` where the lines under
  way leave it, and `AllInTouch` that the server's side of the connection fits that
  place (`View`), or that a "19" will find the client in the room (`Doomed`); for a
  client that waits for the answer to its token, the token is its last line (`Asks`)
  and the answer is not read before other lines are (`Patient`).  `NamesRight`: who
  claims a name, or is about to read that it may have it, has it in `conns[]`, and
  nobody else has.  With `TalkTyped` and `RoomRight` (a connection is with `main()`, a
  handler, or one seat of the room) this is `IInv`; there is one lemma per action.

  For `RoomsAgree` the invariant is `RoomInv`.  What a client shows is right only once
  it has read everything, so `AllShown` says that the lines under way lead from what it
  shows to what the room thread has: `Told` is what one line makes of the owner and the
  players shown, `Shows` what a prefix of the lines makes of them.  It is claimed of the
  clients that are `Watching`: waiting to be let in or in the room, and not about to end
  over a "19".  A "6" or a "7" carries only a name, so taking a player off the list is
  right only if names in the room differ; and between the leave and the reading of it the
  server still has the client in its seat.  Hence `KnownRight` (connections that claim
  a name, sit in a room or have sent what only a client with a name sends, `Known`,
  have different names in `conns[]`), `SignedRight` (a login or a token on its way carries
  the client's own name, and nothing follows the end of a connection) and `OwnerRight`
  (while the room is `Going`, the owner's seat is one of those the thread has, or nobody
  has been let in yet).  The lines
  that `Admit` sends are put in order by `NthSeat`; `JoinLines` and `Welcome` together tell
  each seat of every player once.
* `ServersProofs`, about `MCServers`, for any number of children, threads, slots,
  entries and connections (`ServersAssumption`, `QueueAssumption`):
  `NoDescriptorLost` (`RingKeepsAll`), `LockWithAcceptor` (`LockRight`),
  `TableStaysRight` (`TableRight`), `ZombiesStaySeen` (`ZombiesSeen`),
  `EntriesStayRight` (`SlotsRight`), and `PoolImplemented` (`ServesOnce`: every
  server implements the safety part of `WorkerPool`).  One inductive invariant per
  server: `QueueInv` (the slots between `iget` and `iput` are the filled ones, no
  connection is in two places, none is forgotten), `PassInv` (while nobody has
  died each child is at one place of its `Round`, `navail` counts the free ones and a
  pipe that `select()` reported has its byte still), `ForkInv` (a connection is open only
  between `accept()` and `close()`, and a child that has ended is announced by a
  signal that is pending or being handled), `LoopInv` (entries and descriptors of the
  clients to be served correspond one to one; what `select()` reported and the scan has
  not reached is still ready) and `IInv` of `ServLockProofs`.  Each of them says
  that a connection is in one place, which makes the refinement mapping a function.
* `DatagramsProofs`, about `SigioEcho` (`QSIZEAssumption`): `TypeCorrect` and
  `IndicesAgree` (`RingIndices`: `iput` is `nqueue` slots after `iget`, at every point
  of the loop; the loop never takes from an empty ring; a delivery never counts more
  than the ring holds).  `RingIndices` is not inductive by itself: that `nqueue--`
  cannot meet the handler's `nqueue++` needs SIGIO to be blocked there, which is
  `Masked`.  `RingInv` is the conjunction of the three; the index arithmetic is in
  `NextSlotInRing` and `NextSlotAfter`.  `EchoedInOrder` (`EchoFIFO`: no datagram is
  lost, repeated, reordered or overwritten) rests on `InOrder`, which says which slot
  of the ring holds the oldest datagram not sent and numbers the others from there.
* `DatagramsProofs`, about `MCDatagrams` (`DatagramsAssumption`): `AnswersAreOwn`
  (`OwnAnswer`), `TimeoutKeepsBounds` (`RtoRight`) and `ErrorsAreOwn` (`OwnErrors`).
  `TraceInv`: while `recv()` waits, no answer is ahead of the probes and those to the
  last probe tell the truth.  `PingInv`: a number whose bit is not set has
  been sent at least once since it was last counted, as an inequality between counts
  and the cardinality of the free numbers.  `ClientInv`: `RoundRight` says in which round of `dg_send_recv()` each
  datagram under way belongs, `TimerRight` which timeouts `rtt_minmax()` and
  doubling can produce.  `IcmpInv`: the daemon's table (`TableOK`), where each error
  has got to (`Arrivals`), what the pass over `select()`'s result may still rely on
  (`Selected`), and each client's own state (`ClientRight`).
* `ClientsProofs`, about `MCClients` (`EchoConstants`, `ClientsAssumption`):
  `SocketStaysReady` (`SocketReady`), `CountsStayRight` (`CountsRight`) and
  `NothingGoesAstray` (`DataComesThrough`).  One invariant per program, and
  `ClientsInv` is their conjunction, since a program that does not run keeps
  its state: `SetupInv` (what `sockfd` is after each call, `Reached`), `SockInv`
  (what has been set on the way), `WebInv` (the counters are cardinalities:
  `Counters`; a file is marked when it has a thread: `ThreadsRight`), `BeatInv` (the
  alarm is off before the connection is shut down), `EchoInv` (a line comes no
  further than it is: `Stages`; what end-of-file and a FIN imply: `EndOfInput`,
  `Endings`; the pointers of `strclinonb`: `Nonblocking`), `OobInv` (where the urgent
  byte is while the receiver knows or does not know of it) and `SctpInv` (the
  messages of a stream, printed, coming back and on their way, are numbered without
  a gap: `Follows`; each stream is answered on one of its own: `BackRight`; and as
  many are under way as were sent and not answered: `Underway`).

* `LibraryProofs`, about `MCLibrary` (`LibraryAssumption`): `ListAlwaysRight`
  (`ListRight`) and `NothingEverKept` (`NothingKept`), for any number of addresses.
  `GaiInv`: which of the name's states is possible at which step (`Holds`), so that no
  error path meets a name that is attached.  `SoFar`: after each search and each call of
  `ga_port()` the list is right as far as it has got, position by position: one structure
  for each of the first addresses (`Listed`), or two (`ListedTwice`).  `ga_port()` and what
  was asked for are both the concatenation of a list of lists; `FlattenBlocks` says what
  is at each place of it when the lists have the same length.
  `LinesAlwaysRight` (`LinesRight`), for any input, any size of the callers' buffer and
  every version of `readline()` and `readn()`.  `LinesInv` says of the eleven places where
  bytes are (`BytePieces`) that together they hold every byte and hold none twice
  (`Complete`), of a version that suits its use that the bytes of a descriptor follow each
  other from the returned ones to those still to be read (`Chain`), and that a line
  under way has no newline (`Cut`).  A step moves bytes from one place to another
  (`Trade`); a call that stores a byte and returns is two such moves.

Model-checked only:

* liveness under fairness, everywhere;
* `TextsRight` of `MCLibrary`: what the folds over a text compute, for every text,
  would need an induction over data;
* everything under section 6 that a run with a larger bound shows, and the runs that
  expect a violation.

## 5. Findings

1. `tcpcliserv/final_server.c:855` (`uno_stranded`): after a game the seats are
   cleared without looking at `new_player`; the note at line 659 says what was
   meant.
2. `tcpcliserv/final_server.c:597` (`game_named`): a seat is used as the index
   of a connection.  At `:650` the same mistake makes every client count the two
   cards of a catch for the wrong player (`misnamed` in `CopiesAgree`).
3. `tcpcliserv/final_server.c:650` (`game_left`): two cards for a player who has
   left make -1 cards into 1.
4. `tcpcliserv/final_cli.c:61` (`uno_crossed`): after a leave the next line is
   taken for the answer, and any other line ends the client.

`InStep` says where the fourth can happen and that it happens nowhere else, save
for the "19" of a refused start, which `goto_room()` does not know either.
`RoundIsPlayable`, `CardsInOnePlace` and `CopiesAgree` except what follows from
the third (`revived`), `CopiesAgree` also what follows from the second.  `CardsInOnePlace` stops at the first reshuffle:
`shuffle()` numbers the new pile 0, 1, 2 and so on, whichever cards are in hands.

## 6. Known exceptions

What the properties leave out because the code does not keep to it.  Where a
formula is named, its module states it without the exception, and a run of the
module with it as a property shows the case.

* `tcpcliserv/final_server.c:810`: a room opened again before its thread saw it
  closed goes on with a stale `used[]`, and with the owner of before.  A line read for
  such a seat is taken from somebody else: the socket is `main()`'s or
  another room's, its state is set by who does not own it, and a seat is given up that
  is empty or somebody else's (`OneReader`, `SeatCount` and `BooksRight` of `UnoLobby`
  without `misreads = 0`, with `MaxMisreads` 1).  A newcomer to a stale seat is not
  admitted (`EventuallyAdmitted`).  A room miscounted in this way may begin a game
  whose `player_num` is smaller than its players; `UnoGame` does not begin so.
* `:807`, `:836`, `:846`: the player count that allows a game, and that the game goes
  on with, may count joiners who have not been admitted (`waiting`).  The game then
  ends that many leaves late, with two or more of them never, even when nobody plays.
  The first turn may be an empty seat's: no client believes it has the turn, and the
  name sent for it is that of `conns[-1]`.  A skip, which such a client does not send,
  would deal to the empty seat.
* `:650`: the "13" about a catch names `conns[have_uno]` where
  `conns[used[have_uno]]` is meant: until the next round every client shows two cards
  too many with whoever has that connection, and UNO calls it took off there stay
  off (`misnamed`, `blurred`).  A name left in an entry of `conns[]` that nobody at the
  table has is taken to be no player's.
* `:640`: UNO is granted to somebody who was dealt cards since the call (`blurred`).
* `:1077`: `handler_working` is cleared after the connection was handed over: a client
  that has left the room again and asked for another by then loses its request.
* `tcpcliserv/final_cli.c:371`: the list of players on the screen ends at the
  first empty seat.  `:821`: the second skip of a client out of time may reach
  the server in the next player's turn (`stray`).
* `server/serv05.c:75`: each byte of a dying child's error message counts it as
  free again (`FreeIsAlive` in `ServPassFd`).
* `tcpcliserv/sigchldwait.c`, and servers without a handler: zombies stay.
* `udpcliserv/udpservselect01.c:58`, `nonblock/tcpservselect03.c:38`: a
  connection reset between `select()` and `accept()` stops the loop (`Blocked`).
* `select/strcliselect01.c` ends with lines on their way;
  `nonblock/strclinonb.c` may end with lines unprinted (`AllPrinted`);
  `threads/strclithread2.c` may accuse a server that did nothing wrong
  (`NoFalseAlarm`); the versions that wait for events but block in `Writen()` may
  wait for a server that waits for them when a direction of the connection holds
  less than two of their buffers (`Roomy`).
* `threads/web03.c:121`: `F_DONE` is set before the mutex is taken, so the main
  thread may join, holding the mutex, a thread that waits for it (`AllJoined` in
  `WebClient`).
* `sock/sockopts.c:62` and `:81`: a UDP server sets neither `IP_TOS` nor `IP_TTL`
  (`AllOptionsSet`); `sock/tellwait.c`: `WAIT_CHILD()` opens the mask
  again, so that the second child's signal may come between the test and
  `sigsuspend()` (`EveryChildHeard`); `sock/loopudp.c:22`: a local `servaddr` hides
  the one `cliopen()` filled in.
* `bcast/dgclibcast1.c`, `dgclibcast3.c`: the alarm may find nobody in
  `recvfrom()` (`WaitedLongEnough`).
* `icmpd/readable_conn.c`: what a client reads as its answer may be an error for
  the former owner of its entry, whose port is still there (`NeverMistaken`).
* `traceroute/recv_v6.c`: a `break` outside the braces ends the wait at
  the message of another program or probe, its result uninitialized (`ReadsOn`).
  In both versions an alarm just before `recvfrom()` is missed.
* `ping/bsdping.c:132`: requests sent ahead (`-l`) or from the handler may exceed
  `-c` (`MaxPackets`), and `-f` may wait for ever when answers are lost.
* `lib/readline.c:6`: two descriptors share the bytes read ahead; the count that is
  returned is one too many for a line that fills the caller's buffer, and differs
  for a last line without a newline in `server/readline_r.c`.
* `libfree/inet_pton.c`: a colon at the end is accepted; a `::` in an address
  that is already full, which line 134 says is ignored, clears the words behind it.
* `libgai/getaddrinfo.c`: `AF_LOCAL` without a path ends the process; the
  canonical name is kept when memory runs out before it is attached, and so is
  what `ga_unix()` made, unlike the comment at lines 17 to 19 says.

## 7. Not modelled

* `tcpcliserv/final_project`, `final_test`, `hw1`, `hw4`, `hw6`: drafts of
  `final_server` and `final_cli`, and course exercises.
* `server/meter.c` and the `m` versions: the modelled servers with counters.
* UDP servers that bind every address, multicast announcements, `recvfrom()` with
  flags: a receive and a send in a loop.
* Routing sockets, PF_KEY, `ioctl`, interface lists: a kernel message decoded,
  nothing kept between two.
* `udpcksum`, IP options, STREAMS, inetd: packets put together, system calls in
  sequence.
* Older copies and tests of the address library, `getnameinfo()`,
  `libfree/getaddrinfo.c`, which is another implementation by other authors, and
  the size argument of `inet_ntop()`.
* Wrapper functions: the models have their one effect, that a failing call ends
  the program, where it matters.
* Of what is modelled: chat and the screen of `final_cli`, colours and numbers of
  cards, scores, a line cut in two by a `read()` in `game()`; statistics that
  servers print on SIGINT; the formats that `sock`, `ping` and `traceroute` print.

## 8. Plan

1. `UnoLobby` composed with `UnoGame` at `GameStart()`.
2. `udpserv04`, which receives on one socket for each interface.
