----------------------------- MODULE SockTool -------------------------------
(***************************************************************************)
(* The test program of src/sock/: its options, the opening of a socket as  *)
(* client or server, the socket options it sets on the way, the fork of a  *)
(* concurrent server with the signals of tellwait.c, and the loops that    *)
(* move the data.                                                          *)
(*                                                                         *)
(* An option is its letter.  What the program sends is counted by NBUF     *)
(* buffers, its peer is abstract.                                          *)
(***************************************************************************)
EXTENDS Integers, FiniteSets

CONSTANTS Options, MaxOptions, NBUF, NKIDS

VARIABLES
  opts, args,                        \* the command line
  spc, mode,                         \* where sock is, which loop it runs
  lset, fdset,                       \* options set on the listening, on the data socket
  dest,                              \* where an unconnected UDP client sends to
  nsource, half,                     \* buffers written; half closed
  kid, nkids,                        \* the child that was forked last, how many
  blocked, pending, sigflag          \* SIGUSR2 in the parent

cmdVars == <<opts, args>>
setVars == <<lset, fdset>>
loopVars == <<dest, nsource, half>>
kidVars == <<kid, nkids>>
sigVars == <<blocked, pending, sigflag>>
sockvars == <<cmdVars, spc, mode, setVars, loopVars, kidVars, sigVars>>

Has(c) == c \in opts
udp == Has("u")
server == Has("s")

\* The globals of main.c before main(): a client, connected even with UDP.
Init ==
  /\ opts \in {o \in SUBSET Options : Cardinality(o) <= MaxOptions} /\ args \in 0 .. 3
  /\ spc = "main" /\ mode = "none" /\ lset = {} /\ fdset = {}
  /\ dest = "none" /\ nsource = 0 /\ half = FALSE /\ kid = "none" /\ nkids = 0
  /\ blocked = FALSE /\ pending = FALSE /\ sigflag = FALSE

-----------------------------------------------------------------------------
(* main().                                                                 *)

\* Options that do not go together, a missing host or port.
Senseless ==
  \/ udp /\ opts \cap {"h", "D", "L", "N"} # {}
  \/ ~udp /\ Has("f")
  \/ ~server /\ args # 2
  \/ server /\ args \notin {1, 2}

usage == spc' = "usage" /\ UNCHANGED <<cmdVars, mode, setVars, loopVars, kidVars, sigVars>>

main ==
  /\ spc = "main"
  /\ \/ Senseless /\ usage
     \/ /\ ~Senseless /\ spc' = IF server THEN "servopen" ELSE "cliopen"
        /\ UNCHANGED <<cmdVars, mode, setVars, loopVars, kidVars, sigVars>>

\* Which loop runs on the open socket.
Dispatch ==
  IF Has("i") THEN IF server THEN "sink" ELSE "source" ELSE "loop"

-----------------------------------------------------------------------------
(* sockopts(fd, doall): which of the options asked for it sets on fd.       *)

FirstOptions(doall) == opts \cap ({"D", "Y"} \cup (IF doall THEN {} ELSE {"H", "J"})
                                  \cup (IF udp THEN {} ELSE {"X"}))
RouteOptions == opts \cap {"g", "j", "t", "B"}
LastOptions(doall) == opts \cap ((IF doall /\ ~udp THEN {"K", "N", "L"} ELSE {})
                                 \cup (IF doall THEN {"x", "y"} ELSE {})
                                 \cup (IF udp THEN {"E"} ELSE {}) \cup {"I"})

Sockopts(doall) == FirstOptions(doall) \cup RouteOptions \cup LastOptions(doall)

\* err_sys() or err_quit(): a call failed, a name is unknown.
Fail == spc' = "error" /\ UNCHANGED <<cmdVars, mode, setVars, loopVars, kidVars, sigVars>>

Run(s) ==
  /\ fdset' = s
  /\ spc' = "run" /\ mode' = Dispatch
  /\ dest' = IF udp /\ ~server /\ Has("o") /\ mode' = "loop" THEN "unset" ELSE "host"

\* cliopen() up to connect(): bind() where it is asked for.
CliOpen ==
  /\ spc = "cliopen"
  /\ \/ Fail
     \/ /\ spc' = "connect" /\ fdset' = Sockopts(FALSE)
        /\ UNCHANGED <<cmdVars, mode, lset, loopVars, kidVars, sigVars>>

\* connect(), again after a signal; not for an unconnected UDP client.
Connect ==
  /\ spc = "connect"
  /\ \/ (~udp \/ ~Has("o")) /\ Fail
     \/ /\ Run(fdset \cup Sockopts(TRUE))
        /\ UNCHANGED <<cmdVars, lset, nsource, half, kidVars, sigVars>>

\* servopen() of a UDP server.
ServOpenUdp ==
  /\ spc = "servopen" /\ udp
  /\ \/ Fail
     \/ /\ Run(Sockopts(TRUE))
        /\ UNCHANGED <<cmdVars, lset, nsource, half, kidVars, sigVars>>

\* Mutant: SIGUSR2 is not blocked.
TellWaitOpen == FALSE

\* TELL_WAIT() blocks SIGUSR2.
TellWait == Has("F")

\* servopen() of a TCP server up to listen().
ServOpenTcp ==
  /\ spc = "servopen" /\ ~udp
  /\ \/ Fail
     \/ /\ spc' = "accept" /\ lset' = Sockopts(FALSE) /\ blocked' = TellWait
        /\ UNCHANGED <<cmdVars, mode, fdset, loopVars, kidVars, pending, sigflag>>

\* The connected socket has the options of the listening one, or has not.
Accept ==
  /\ spc = "accept" /\ ~Has("F")
  /\ \/ Has("I") /\ Fail
     \/ \E inherited \in {lset, {}} :
          /\ Run(inherited \cup Sockopts(TRUE))
          /\ UNCHANGED <<cmdVars, lset, nsource, half, kidVars, sigVars>>

-----------------------------------------------------------------------------
(* The concurrent server: the parent waits for the word of its child.       *)

AcceptFork ==
  /\ spc = "accept" /\ Has("F")
  /\ \/ Has("I") /\ Fail
     \/ /\ nkids < NKIDS /\ nkids' = nkids + 1 /\ kid' = "born" /\ spc' = "wait_child"
        /\ UNCHANGED <<cmdVars, mode, setVars, loopVars, sigVars>>

\* The child's socket options may fail; otherwise TELL_PARENT().
ChildTells ==
  /\ kid = "born" /\ kid' \in {"told", "failed"}
  /\ pending' = (pending \/ (kid' = "told" /\ blocked /\ spc # "asleep"))
  /\ sigflag' = (sigflag \/ (kid' = "told" /\ (~blocked \/ spc = "asleep")))
  /\ spc' = IF kid' = "told" /\ spc = "asleep" THEN "wait_child" ELSE spc
  /\ UNCHANGED <<cmdVars, mode, setVars, loopVars, nkids, blocked>>

\* WAIT_CHILD(): test sigflag, then sigsuspend() with nothing blocked; at the
\* end the mask of before TELL_WAIT() comes back.
WaitChild ==
  /\ spc = "wait_child"
  /\ \/ /\ sigflag /\ sigflag' = FALSE /\ blocked' = FALSE /\ spc' = "accept"
     \/ ~sigflag /\ spc' = "sigsuspend" /\ UNCHANGED <<sigflag, blocked>>
  /\ UNCHANGED <<cmdVars, mode, setVars, loopVars, kidVars, pending>>

Sigsuspend ==
  /\ spc = "sigsuspend"
  /\ IF pending THEN spc' = "wait_child" /\ sigflag' = TRUE /\ pending' = FALSE
                ELSE spc' = "asleep" /\ UNCHANGED <<sigflag, pending>>
  /\ UNCHANGED <<cmdVars, mode, setVars, loopVars, kidVars, blocked>>

-----------------------------------------------------------------------------
(* The loops over the data.                                                *)

loopFrame == <<cmdVars, mode, setVars, dest, kidVars, sigVars>>

\* source_tcp(), source_udp(): NBUF buffers; -W goes on after an error.
Source ==
  /\ spc = "run" /\ mode = "source"
  /\ \/ nsource < NBUF /\ nsource' = nsource + 1 /\ UNCHANGED <<spc, half, loopFrame>>
     \/ nsource < NBUF /\ ~Has("W") /\ Fail
     \/ nsource = NBUF /\ spc' = "closed" /\ UNCHANGED <<nsource, half, loopFrame>>

\* sink_tcp(), sink_udp(): until the peer closes.
Sink ==
  /\ spc = "run" /\ mode = "sink"
  /\ (spc' = "closed" /\ UNCHANGED <<nsource, half, loopFrame>>) \/ Fail

\* loop_tcp(), loop_udp(): standard input ends, the half-close option goes on
\* reading; the peer closes.  An unconnected UDP client learns the address of
\* its server from the first datagram it receives.
LoopEof ==
  /\ spc = "run" /\ mode = "loop" /\ ~half
  /\ half' = Has("h") /\ spc' = IF Has("h") THEN "run" ELSE "closed"
  /\ UNCHANGED <<nsource, loopFrame>>
LoopPeer ==
  /\ spc = "run" /\ mode = "loop"
  /\ \/ dest' = "host" /\ UNCHANGED <<spc, nsource, half, cmdVars, mode, setVars, kidVars, sigVars>>
     \/ spc' = "closed" /\ (~udp \/ (~server /\ ~Has("o"))) /\ UNCHANGED <<nsource, half, loopFrame>>
     \/ Fail

-----------------------------------------------------------------------------
ParentStep == main \/ CliOpen \/ Connect \/ ServOpenUdp \/ ServOpenTcp \/ Accept \/ AcceptFork
              \/ WaitChild \/ Sigsuspend \/ Source \/ Sink \/ LoopEof \/ LoopPeer
Next == ParentStep \/ ChildTells
Fairness == WF_sockvars(main \/ CliOpen \/ ServOpenTcp \/ WaitChild \/ Sigsuspend) /\ WF_sockvars(ChildTells)
Spec == Init /\ [][Next]_sockvars /\ Fairness

-----------------------------------------------------------------------------
\* The options that mean something for the socket that was asked for.
Meant == opts \cap ({"D", "Y", "H", "J", "g", "j", "t", "B", "x", "y", "I"}
                    \cup (IF udp THEN {"E"} ELSE {"X", "K", "N", "L"}))

\* When data begin to move, every option that was asked for has been set on the
\* socket, or on the listening socket it comes from, and it is known where to send.
\* Two exceptions: a UDP server's IP_TOS and IP_TTL (sock/sockopts.c:62,81 with
\* sock/servopen.c:87), and loop_udp() of an unconnected client, whose own servaddr
\* (sock/loopudp.c:22) hides the one that cliopen() has filled in.
OptionsSet ==
  spc = "run" =>
    /\ Meant \ (IF udp /\ server THEN {"H", "J"} ELSE {}) \subseteq lset \cup fdset
    /\ dest = "unset" => mode = "loop" /\ {"u", "o"} \subseteq opts

\* The parent of a concurrent server that has forked its first child goes on to
\* accept the next connection, unless that child failed first: the signal is
\* blocked until the parent waits for it (sock/tellwait.c:29).
FirstChildHeard == (nkids = 1 /\ kid = "told") ~> (spc # "asleep" /\ spc # "sigsuspend" /\ spc # "wait_child")

\* "and back to for(;;) for another accept()" (sock/servopen.c:116).
EveryChildHeard == (kid = "told" /\ spc = "asleep") ~> (spc = "accept")

\* "-J n  IP_TTL option" (sock/main.c:409), for every socket.
AllOptionsSet == spc = "run" => Meant \subseteq lset \cup fdset
=============================================================================
