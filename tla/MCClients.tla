----------------------------- MODULE MCClients ------------------------------
(***************************************************************************)
(* The programs on connections for TLC: the echo clients, the web clients, *)
(* sock, the heartbeat, out-of-band data, SCTP, and the way all programs   *)
(* come to their socket.  One of them runs, the others stay in their       *)
(* initial state.                                                          *)
(***************************************************************************)
EXTENDS EchoClient

CONSTANTS
  NFILES, MAXNCONN, Webs,
  Options, MaxOptions, NBUF, NKIDS,
  MAXNPROBES, NHLINE,
  Receivers, NWIN,
  NSTRM, NROUND,
  NADDR, NWAIT

\* Files to fetch, and transfers that may run at once; a window that takes a byte; streams.
ASSUME ClientsAssumption ==
  /\ NFILES \in Nat /\ MAXNCONN \in Nat
  /\ NWIN \in Nat \ {0} /\ NSTRM \in Nat \ {0}

VARIABLES
  which,
  web, wpc, i, f_flags, nconn, nlefttoconn, nlefttoread, ndone, tpc, mutex,
  rs, webrset, webwset, chunks,
  opts, args, kpc, mode, lset, fdset, dest, nsource, half, kid, nkids,
  blocked, pending, sigflag,
  up, hcpc, hspc, cprobes, sprobes, calarm, salarm, toserv, tocli, nline, owed, hbeof, hbshut,
  rcv, snd, slow, wire, q, mark, byte, had, urg, oobeof, oobpc, justreadoob, xset, atmark, oobread,
  sv, cl, upto, down, snote, cnote, part, peeled, shutting, spc, scpc, round, smsg, ngot, last,
  setprog, mpc, call, addr, fd, lost, queue, reset, served, came

\* Six lines fill both directions, the server and a buffer of one line; blocks of two
\* lines are read, written and cut with four.
SmallSizes == {<<6, 1>>, <<4, 2>>}

Web == INSTANCE WebClient WITH mpc <- wpc, rset <- webrset, wset <- webwset
Sock == INSTANCE SockTool WITH spc <- kpc
Beat == INSTANCE Heartbeat WITH stdineof <- hbeof, shut <- hbshut
Oob == INSTANCE TcpOob WITH eof <- oobeof, rpc <- oobpc
Sctp == INSTANCE SctpEcho WITH nsent <- smsg
Setup == INSTANCE SocketSetup WITH prog <- setprog

webVars == <<web, wpc, i, f_flags, nconn, nlefttoconn, nlefttoread, ndone, tpc, mutex,
             rs, webrset, webwset, chunks>>
sockVars == <<opts, args, kpc, mode, lset, fdset, dest, nsource, half, kid, nkids,
              blocked, pending, sigflag>>
beatVars == <<up, hcpc, hspc, cprobes, sprobes, calarm, salarm, toserv, tocli, nline, owed,
              hbeof, hbshut>>
oobVars == <<rcv, snd, slow, wire, q, mark, byte, had, urg, oobeof, oobpc, justreadoob, xset,
             atmark, oobread>>
sctpVars == <<sv, cl, upto, down, snote, cnote, part, peeled, shutting, spc, scpc, round, smsg,
              ngot, last>>
setupVars == <<setprog, mpc, call, addr, fd, lost, queue, reset, served, came>>
MCvars == <<which, vars, webVars, sockVars, beatVars, oobVars, sctpVars, setupVars>>

\* A program that does not run has one initial state.
MCInit ==
  /\ which \in {"echo", "web", "sock", "beat", "oob", "sctp", "setup"}
  /\ Init /\ (which = "echo" \/ (prog = "str_cli" /\ sizes = <<4, 2>>))
  /\ Web!Init /\ (which = "web" \/ web = "web01")
  /\ Sock!Init /\ (which = "sock" \/ (opts = {} /\ args = 0))
  /\ Beat!Init
  /\ Oob!Init /\ (which = "oob" \/ (rcv = Oob!tcprecv01 /\ snd = Oob!tcpsend01.sends))
  /\ Sctp!Init /\ (which = "sctp" \/ (sv = Sctp!sctpserv01 /\ cl = Sctp!sctp_strcli))
  /\ Setup!Init /\ (which = "setup" \/ setprog = Setup!udpcli01)

Echoes == /\ which = "echo"
          /\ UNCHANGED <<which, webVars, sockVars, beatVars, oobVars, sctpVars, setupVars>>
Fetches == /\ which = "web"
           /\ UNCHANGED <<which, vars, sockVars, beatVars, oobVars, sctpVars, setupVars>>
Socks == /\ which = "sock"
         /\ UNCHANGED <<which, vars, webVars, beatVars, oobVars, sctpVars, setupVars>>
Beats == /\ which = "beat"
         /\ UNCHANGED <<which, vars, webVars, sockVars, oobVars, sctpVars, setupVars>>
Oobs == /\ which = "oob"
        /\ UNCHANGED <<which, vars, webVars, sockVars, beatVars, sctpVars, setupVars>>
Sctps == /\ which = "sctp"
         /\ UNCHANGED <<which, vars, webVars, sockVars, beatVars, oobVars, setupVars>>
Setups == /\ which = "setup"
          /\ UNCHANGED <<which, vars, webVars, sockVars, beatVars, oobVars, sctpVars>>

MCNext == (Echoes /\ Next) \/ (Fetches /\ Web!Next) \/ (Socks /\ Sock!Next) \/ (Beats /\ Beat!Next)
          \/ (Oobs /\ Oob!Next) \/ (Sctps /\ Sctp!Next) \/ (Setups /\ Setup!Next)

\* The fairness of the program that runs.
MCFairness == \/ which = "echo" /\ Fairness
              \/ which = "web" /\ Web!Fairness
              \/ which = "sock" /\ Sock!Fairness
              \/ which = "beat" /\ Beat!Fairness
              \/ which = "oob"
              \/ which = "sctp" /\ Sctp!Fairness
              \/ which = "setup" /\ Setup!Fairness

MCSpec == MCInit /\ [][MCNext]_MCvars /\ MCFairness

-----------------------------------------------------------------------------
\* What was sent comes out at the other end, once and in order.  A client of
\* str_cli()'s that ends without complaint has had back and has printed every line
\* that was typed unless the server was killed, complains of the server only then
\* and keeps its pointers within its buffers (EchoClient); the out-of-band programs
\* read every byte (TcpOob), and no heartbeat follows the client's FIN (Heartbeat); two messages of an SCTP stream are echoed in order and
\* nothing of a line is left when the next one is sent (SctpEcho).
DataComesThrough ==
  /\ NothingLost /\ PrintedAll /\ AlarmsAreTrue /\ PointersRight
  /\ Oob!ReadsEveryByte /\ Beat!NoBeatAfterShutdown
  /\ Sctp!EchoInOrder /\ Sctp!NothingLeft

\* The counters of the web clients tell the truth, and nonblock/web waits for
\* what is open and only for that (WebClient).
CountsRight == Web!CountsRight /\ Web!SetsOpen

\* When data begin to move the program has one socket: whichever addresses
\* failed, none is lost on the way (SocketSetup), and sock has set on it what it was
\* asked to set and knows where to send (SockTool).
SocketReady == Setup!OneSocket /\ Sock!OptionsSet

\* A client ends: an echo client after the end of its input (EchoClient), a web
\* client when every file is fetched (WebClient).
ClientEnds ==
  /\ which = "echo" => EndsAfterEof
  /\ which = "web" => Web!FetchesAll

\* What a program waits for does not pass it by: sock's parent hears of its first
\* child (SockTool), both ends of a heartbeat notice that the network has failed
\* (Heartbeat), every line is answered (SctpEcho), and a connection that was
\* aborted does not keep the others waiting (SocketSetup).
NothingMissed ==
  /\ which = "sock" => Sock!FirstChildHeard
  /\ which = "beat" => Beat!FailureNoticed
  /\ which = "sctp" => Sctp!LineAnswered
  /\ which = "setup" => Setup!QueueServed
=============================================================================
