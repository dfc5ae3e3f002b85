--------------------------- MODULE ClientsProofs ----------------------------
(***************************************************************************)
(* TLAPS proofs about MCClients, in which one of the programs on           *)
(* connections runs: whichever calls fail, a program works with the socket *)
(* that it asked for, the counters of the web clients tell the truth, and  *)
(* what is sent comes out at the other end, for every number of addresses, *)
(* options, files, transfers, lines and streams.                           *)
(***************************************************************************)
EXTENDS MCClients, Sequences, FiniteSets, FiniteSetTheorems, WellFoundedInduction, TLAPS

-----------------------------------------------------------------------------
(* The way to the socket.                                                  *)

\* The calls that the programs make, for an address and at the end.
Calls == {<<"socket">>, <<"socket", "connect">>, <<"socket", "bind">>,
          <<"socket", "connect_timeo">>, <<"socket", "connect_nonb">>}
Shape(p) ==
  \/ p.calls \in Calls /\ p.last = <<>>
  \/ p.calls = <<"socket", "bind">> /\ p.last = <<"listen">>
  \/ p.calls = <<"socket">> /\ p.last = <<"bind">>

\* What sockfd is after the calls before this one.
Reached(p, n) ==
  IF n = 1 THEN "none"
  ELSE IF n <= Len(p.calls) + 1 THEN Setup!After(p.calls[n - 1]) ELSE Setup!After(p.last[1])

SetupInv ==
  /\ Shape(setprog) /\ lost = 0
  /\ mpc = "walk" => /\ call \in 1 .. Len(setprog.calls) + Len(setprog.last) + 1
                     /\ fd = Reached(setprog, call)
  /\ mpc \in {"use", "accept", "serve"} =>
       fd = Reached(setprog, Len(setprog.calls) + Len(setprog.last) + 1)

LEMMA Shapes == ASSUME setprog \in Setup!Programs PROVE Shape(setprog)
BY DEF Shape, Calls, Setup!Programs, Setup!Program, Setup!tcp_connect, Setup!udp_client,
       Setup!tcp_listen, Setup!udp_server, Setup!tcpcli01, Setup!advio_tcpcli01,
       Setup!nonblock_daytimetcpcli, Setup!udpcli01, Setup!mcast_udpcli06,
       Setup!intro_daytimetcpsrv, Setup!udpserv01

LEMMA Within ==
  ASSUME NEW m \in Nat, NEW n \in Nat, NEW c \in 1 .. m
  PROVE  c + 1 \in 1 .. m + n + 1
OBVIOUS

LEMMA FromOne == ASSUME NEW m \in Nat, NEW n \in Nat PROVE 1 \in 1 .. m + n + 1
OBVIOUS

LEMMA SetupInit == Setup!Init => SetupInv
<1> SUFFICES ASSUME Setup!Init PROVE SetupInv
  OBVIOUS
<1>1. Shape(setprog) /\ mpc = "walk" /\ call = 1 /\ fd = "none" /\ lost = 0
  BY Shapes DEF Setup!Init
<1>2. Len(setprog.calls) \in Nat /\ Len(setprog.last) \in Nat
  BY <1>1 DEF Shape, Calls
<1>3. 1 \in 1 .. Len(setprog.calls) + Len(setprog.last) + 1
  BY <1>2, FromOne
<1>4. Reached(setprog, 1) = "none"
  BY DEF Reached
<1> QED BY <1>1, <1>3, <1>4, Zenon DEF SetupInv

\* The socket is as the next call wants it.
LEMMA ReadyForCall ==
  ASSUME NEW p, Shape(p), NEW n \in 1 .. Len(p.calls)
  PROVE  /\ Reached(p, n) \in Setup!Before(p.calls[n])
         /\ p.calls[n] = "socket" <=> n = 1
         /\ Reached(p, n + 1) = Setup!After(p.calls[n])
<1>1. CASE p.calls = <<"socket">>
  BY <1>1 DEF Reached, Setup!Before, Setup!After
<1>2. ASSUME NEW c \in {"connect", "bind", "connect_timeo", "connect_nonb"}, p.calls = <<"socket", c>>
      PROVE  /\ Reached(p, n) \in Setup!Before(p.calls[n])
             /\ p.calls[n] = "socket" <=> n = 1
             /\ Reached(p, n + 1) = Setup!After(p.calls[n])
  <2>1. Len(p.calls) = 2 /\ p.calls[1] = "socket" /\ p.calls[2] = c
    BY <1>2
  <2>2. CASE n = 1
    BY <2>1, <2>2 DEF Reached, Setup!Before, Setup!After
  <2>3. CASE n = 2
    BY <2>1, <2>3 DEF Reached, Setup!Before, Setup!After
  <2> QED BY <2>1, <2>2, <2>3
<1> QED BY <1>1, <1>2 DEF Shape, Calls

LEMMA SetupNext == SetupInv /\ (Setup!Next \/ UNCHANGED setupVars) => SetupInv'
<1> SUFFICES ASSUME SetupInv, Setup!Next \/ UNCHANGED setupVars
             PROVE  SetupInv'
  OBVIOUS
<1>0. Shape(setprog) /\ Len(setprog.calls) \in Nat /\ Len(setprog.last) \in Nat
  BY DEF SetupInv, Shape, Calls
<1>1. CASE Setup!Walk
  <2>1. /\ mpc = "walk" /\ call <= Len(setprog.calls) /\ UNCHANGED <<setprog, mpc>>
        /\ fd' = Setup!After(setprog.calls[call]) /\ call' = call + 1
        /\ lost' = IF setprog.calls[call] = "socket" /\ fd # "none" THEN lost + 1 ELSE lost
    BY <1>1 DEF Setup!Walk, Setup!CallOK, Setup!Keep
  <2>2. call \in 1 .. Len(setprog.calls) /\ fd = Reached(setprog, call)
    BY <1>0, <2>1 DEF SetupInv
  <2>3. /\ setprog.calls[call] = "socket" <=> call = 1
        /\ Reached(setprog, call + 1) = Setup!After(setprog.calls[call])
    BY <1>0, <2>2, ReadyForCall
  <2>4. lost' = 0
    BY <2>1, <2>2, <2>3 DEF SetupInv, Reached
  <2>5. call + 1 \in 1 .. Len(setprog.calls) + Len(setprog.last) + 1
    BY <1>0, <2>2, Within
  <2>6. mpc \notin {"use", "accept", "serve"}
    BY <2>1
  <2> QED BY <1>0, <2>1, <2>3, <2>4, <2>5, <2>6 DEF SetupInv
<1>2. CASE Setup!NextAddress
  <2>1. /\ mpc = "walk" /\ call <= Len(setprog.calls) /\ UNCHANGED setprog /\ call' = 1
        /\ fd' = "none" /\ mpc' \in {"quit", "walk"}
        /\ lost' = lost + (IF setprog.calls[call] = "socket" /\ fd # "none" THEN 1 ELSE 0)
    BY <1>2 DEF Setup!NextAddress, Setup!Closed
  <2>2. call \in 1 .. Len(setprog.calls) /\ fd = Reached(setprog, call)
    BY <1>0, <2>1 DEF SetupInv
  <2>3. setprog.calls[call] = "socket" <=> call = 1
    BY <1>0, <2>2, ReadyForCall
  <2>4. lost' = 0
    BY <2>1, <2>2, <2>3 DEF SetupInv, Reached
  <2>5. 1 \in 1 .. Len(setprog.calls) + Len(setprog.last) + 1
    BY <1>0, FromOne
  <2>6. Reached(setprog, 1) = "none"
    BY DEF Reached
  <2> QED BY <1>0, <2>1, <2>4, <2>5, <2>6 DEF SetupInv
<1>3. CASE Setup!CallFails
  BY <1>3 DEF Setup!CallFails, SetupInv
<1>4. CASE Setup!Last
  <2>1. mpc = "walk" /\ call > Len(setprog.calls) /\ UNCHANGED setprog
    BY <1>4 DEF Setup!Last, Setup!CallOK
  <2>2. CASE call <= Len(setprog.calls) + Len(setprog.last) /\ Setup!CallOK(setprog.last[1])
    <3>1. /\ UNCHANGED mpc /\ fd' = Setup!After(setprog.last[1]) /\ call' = call + 1
          /\ lost' = IF setprog.last[1] = "socket" /\ fd # "none" THEN lost + 1 ELSE lost
      BY <2>2 DEF Setup!CallOK, Setup!Keep
    <3>2. Len(setprog.last) = 1 /\ setprog.last[1] # "socket" /\ call = Len(setprog.calls) + 1
          /\ Len(setprog.calls) > 0
      <4>1. setprog.last # <<>>
        <5> SUFFICES ASSUME setprog.last = <<>> PROVE FALSE
          OBVIOUS
        <5>1. Len(setprog.last) = 0 /\ call \in Nat
          BY <1>0, <2>1 DEF SetupInv
        <5> QED BY <1>0, <2>1, <2>2, <5>1
      <4>2. setprog.last \in {<<"listen">>, <<"bind">>}
        BY <1>0, <4>1 DEF Shape
      <4>3. Len(setprog.last) = 1 /\ setprog.last[1] # "socket"
        BY <4>2
      <4>4. Len(setprog.calls) > 0
        BY <1>0 DEF Shape, Calls
      <4>5. call \in 1 .. Len(setprog.calls) + Len(setprog.last) + 1
        BY <2>1 DEF SetupInv
      <4> QED BY <1>0, <2>1, <2>2, <4>3, <4>4, <4>5
    <3> QED BY <1>0, <2>1, <3>1, <3>2 DEF SetupInv, Reached
  <2>3. CASE /\ call = Len(setprog.calls) + Len(setprog.last) + 1
             /\ mpc' = (IF setprog.serves THEN "accept" ELSE "use") /\ UNCHANGED <<setprog, call, fd, lost>>
    BY <1>0, <2>1, <2>3 DEF SetupInv
  <2> QED BY <1>4, <2>2, <2>3 DEF Setup!Last
<1>5. CASE /\ UNCHANGED <<setprog, call, fd, lost>>
           /\ \/ UNCHANGED mpc
              \/ mpc' \in {"accept", "serve", "quit", "end"} /\ mpc \in {"use", "accept", "serve"}
  BY <1>5 DEF SetupInv
<1>6. CASE \/ Setup!Use \/ Setup!Come \/ Setup!Reset \/ Setup!Accept \/ Setup!Serve
           \/ UNCHANGED setupVars \/ \E k \in DOMAIN queue : Setup!Abort(k)
  BY <1>5, <1>6 DEF Setup!Use, Setup!Come, Setup!Reset, Setup!Accept, Setup!Again, Setup!Serve,
                    Setup!Abort, setupVars
<1> QED
  BY <1>1, <1>2, <1>3, <1>4, <1>6 DEF Setup!Next, Setup!Main

LEMMA SetupRight == SetupInv => Setup!OneSocket
<1> SUFFICES ASSUME SetupInv PROVE Setup!OneSocket
  OBVIOUS
<1>0. Shape(setprog) /\ lost = 0
  BY DEF SetupInv
<1>1. mpc = "walk" /\ call <= Len(setprog.calls) => fd \in Setup!Before(setprog.calls[call])
  <2> SUFFICES ASSUME mpc = "walk", call <= Len(setprog.calls)
               PROVE  fd \in Setup!Before(setprog.calls[call])
    OBVIOUS
  <2>1. Len(setprog.calls) \in Nat /\ Len(setprog.last) \in Nat
    BY <1>0 DEF Shape, Calls
  <2>2. call \in 1 .. Len(setprog.calls) /\ fd = Reached(setprog, call)
    BY <2>1 DEF SetupInv
  <2> QED BY <1>0, <2>2, ReadyForCall
<1>2. Reached(setprog, Len(setprog.calls) + Len(setprog.last) + 1)
        = Setup!After(IF setprog.last # <<>> THEN setprog.last[1] ELSE setprog.calls[Len(setprog.calls)])
  <2>1. CASE setprog.last = <<>>
    <3>1. Len(setprog.calls) \in Nat \ {0} /\ Len(setprog.last) = 0
      BY <1>0, <2>1 DEF Shape, Calls
    <3> QED BY <2>1, <3>1 DEF Reached
  <2>2. CASE setprog.last # <<>>
    <3>1. /\ setprog.last \in {<<"listen">>, <<"bind">>}
          /\ setprog.calls \in {<<"socket", "bind">>, <<"socket">>}
      BY <1>0, <2>2 DEF Shape
    <3>2. Len(setprog.calls) \in Nat \ {0} /\ Len(setprog.last) = 1
      BY <3>1
    <3> QED BY <2>2, <3>2 DEF Reached
  <2> QED BY <2>1, <2>2
<1> QED BY <1>0, <1>1, <1>2 DEF Setup!OneSocket, SetupInv

-----------------------------------------------------------------------------
(* sock.                                                                   *)

\* What has been set on the way: before connect(), and on the socket that listens.
SockInv ==
  /\ kpc = "servopen" => Sock!server
  /\ kpc = "cliopen" => ~Sock!server
  /\ kpc = "connect" => ~Sock!server /\ fdset = Sock!Sockopts(FALSE)
  /\ kpc \in {"accept", "wait_child", "sigsuspend", "asleep"} =>
       ~Sock!udp /\ lset = Sock!Sockopts(FALSE)
  /\ Sock!OptionsSet

LEMMA SockInit == Sock!Init => SockInv
BY DEF SockInv, Sock!Init, Sock!OptionsSet

\* The options of before connect() and of after it are those that mean something; a UDP
\* server only sets the second ones.
LEMMA BothCalls ==
  /\ Sock!Meant \subseteq Sock!Sockopts(FALSE) \cup Sock!Sockopts(TRUE)
  /\ Sock!Meant \ {"H", "J"} \subseteq Sock!Sockopts(TRUE)
BY DEF Sock!Meant, Sock!Sockopts, Sock!FirstOptions, Sock!RouteOptions, Sock!LastOptions, Sock!udp

\* A program that begins to move data with these options.
LEMMA RunRight ==
  ASSUME NEW s, Sock!Run(s), UNCHANGED <<opts, lset>>,
         Sock!Meant \ (IF Sock!udp /\ Sock!server THEN {"H", "J"} ELSE {}) \subseteq lset \cup s
  PROVE  SockInv'
<1>1. /\ kpc' = "run" /\ fdset' = s /\ mode' = Sock!Dispatch
      /\ dest' = IF Sock!udp /\ ~Sock!server /\ Sock!Has("o") /\ mode' = "loop" THEN "unset" ELSE "host"
  BY DEF Sock!Run
<1>2. /\ Sock!Meant' = Sock!Meant /\ Sock!udp' = Sock!udp /\ Sock!server' = Sock!server
  BY DEF Sock!Meant, Sock!udp, Sock!server, Sock!Has
<1>3. dest' = "unset" => mode' = "loop" /\ {"u", "o"} \subseteq opts'
  BY <1>1 DEF Sock!udp, Sock!Has
<1> QED BY <1>1, <1>2, <1>3 DEF SockInv, Sock!OptionsSet

\* Steps that leave the options alone.
LEMMA SockKeeps ==
  ASSUME SockInv, UNCHANGED <<opts, mode, lset, fdset>>, dest' = dest \/ dest' = "host",
         \/ kpc' = kpc
         \/ kpc' \in {"error", "closed", "usage"}
         \/ {kpc, kpc'} \subseteq {"accept", "wait_child", "sigsuspend", "asleep"}
  PROVE  SockInv'
<1>1. /\ Sock!Meant' = Sock!Meant /\ Sock!udp' = Sock!udp /\ Sock!server' = Sock!server
      /\ Sock!Sockopts(FALSE)' = Sock!Sockopts(FALSE)
  BY DEF Sock!Meant, Sock!udp, Sock!server, Sock!Has, Sock!Sockopts, Sock!FirstOptions,
         Sock!RouteOptions, Sock!LastOptions
<1>2. Sock!OptionsSet'
  BY <1>1 DEF SockInv, Sock!OptionsSet
<1> QED BY <1>1, <1>2 DEF SockInv

LEMMA SockNext == SockInv /\ (Sock!Next \/ UNCHANGED sockVars) => SockInv'
<1> SUFFICES ASSUME SockInv, Sock!Next \/ UNCHANGED sockVars
             PROVE  SockInv'
  OBVIOUS
<1>0. ASSUME UNCHANGED opts
      PROVE  /\ Sock!udp' = Sock!udp /\ Sock!server' = Sock!server
             /\ Sock!Sockopts(FALSE)' = Sock!Sockopts(FALSE)
  BY <1>0 DEF Sock!udp, Sock!server, Sock!Has, Sock!Sockopts, Sock!FirstOptions,
              Sock!RouteOptions, Sock!LastOptions
<1>1. CASE Sock!Fail
  BY <1>1, SockKeeps DEF Sock!Fail, Sock!cmdVars, Sock!setVars, Sock!loopVars
<1>2. CASE Sock!main
  <2>1. UNCHANGED <<opts, mode, lset, fdset, dest>>
    BY <1>2 DEF Sock!main, Sock!usage, Sock!cmdVars, Sock!setVars, Sock!loopVars
  <2>2. CASE kpc' = "usage"
    BY <2>1, <2>2, SockKeeps
  <2>3. CASE kpc' = IF Sock!server THEN "servopen" ELSE "cliopen"
    BY <1>0, <2>1, <2>3 DEF SockInv, Sock!OptionsSet
  <2> QED BY <1>2, <2>2, <2>3 DEF Sock!main, Sock!usage
<1>3. CASE Sock!CliOpen
  <2>1. CASE kpc' = "connect" /\ fdset' = Sock!Sockopts(FALSE) /\ UNCHANGED opts /\ kpc = "cliopen"
    <3>1. ~Sock!server' /\ fdset' = Sock!Sockopts(FALSE)'
      BY <1>0, <2>1 DEF SockInv, Sock!server, Sock!Has
    <3> QED BY <2>1, <3>1 DEF SockInv, Sock!OptionsSet
  <2> QED BY <1>1, <1>3, <2>1 DEF Sock!CliOpen, Sock!cmdVars
<1>4. CASE Sock!Connect
  <2>1. CASE Sock!Run(fdset \cup Sock!Sockopts(TRUE)) /\ UNCHANGED <<opts, lset>> /\ kpc = "connect"
    <3>1. ~Sock!server /\ fdset = Sock!Sockopts(FALSE)
      BY <2>1 DEF SockInv
    <3>2. PICK s : s = fdset \cup Sock!Sockopts(TRUE)
      OBVIOUS
    <3>3. Sock!Meant \ (IF Sock!udp /\ Sock!server THEN {"H", "J"} ELSE {}) \subseteq lset \cup s
      BY <3>1, <3>2, BothCalls
    <3>4. Sock!Run(s)
      BY <2>1, <3>2
    <3> QED BY <2>1, <3>3, <3>4, RunRight
  <2> QED BY <1>1, <1>4, <2>1 DEF Sock!Connect, Sock!cmdVars
<1>5. CASE Sock!ServOpenUdp
  <2>1. CASE Sock!Run(Sock!Sockopts(TRUE)) /\ UNCHANGED <<opts, lset>> /\ kpc = "servopen" /\ Sock!udp
    <3>1. Sock!server
      BY <2>1 DEF SockInv
    <3>2. PICK s : s = Sock!Sockopts(TRUE)
      OBVIOUS
    <3>3. Sock!Meant \ (IF Sock!udp /\ Sock!server THEN {"H", "J"} ELSE {}) \subseteq lset \cup s
      BY <2>1, <3>1, <3>2, BothCalls
    <3>4. Sock!Run(s)
      BY <2>1, <3>2
    <3> QED BY <2>1, <3>3, <3>4, RunRight
  <2> QED BY <1>1, <1>5, <2>1 DEF Sock!ServOpenUdp, Sock!cmdVars
<1>6. CASE Sock!ServOpenTcp
  <2>1. CASE /\ kpc' = "accept" /\ lset' = Sock!Sockopts(FALSE) /\ UNCHANGED opts /\ ~Sock!udp
    <3>1. ~Sock!udp' /\ lset' = Sock!Sockopts(FALSE)'
      BY <1>0, <2>1 DEF Sock!udp, Sock!Has
    <3> QED BY <2>1, <3>1 DEF SockInv, Sock!OptionsSet
  <2> QED BY <1>1, <1>6, <2>1 DEF Sock!ServOpenTcp, Sock!cmdVars
<1>7. CASE Sock!Accept
  <2>1. ASSUME NEW inherited, Sock!Run(inherited \cup Sock!Sockopts(TRUE)), UNCHANGED <<opts, lset>>,
               kpc = "accept"
        PROVE  SockInv'
    <3>1. ~Sock!udp /\ lset = Sock!Sockopts(FALSE)
      BY <2>1 DEF SockInv
    <3>2. PICK s : s = inherited \cup Sock!Sockopts(TRUE)
      OBVIOUS
    <3>3. Sock!Meant \ (IF Sock!udp /\ Sock!server THEN {"H", "J"} ELSE {}) \subseteq lset \cup s
      BY <3>1, <3>2, BothCalls
    <3>4. Sock!Run(s)
      BY <2>1, <3>2
    <3> QED BY <2>1, <3>3, <3>4, RunRight
  <2> QED BY <1>1, <1>7, <2>1 DEF Sock!Accept, Sock!cmdVars
<1>8. CASE Sock!AcceptFork
  BY <1>1, <1>8, SockKeeps DEF Sock!AcceptFork, Sock!cmdVars, Sock!setVars, Sock!loopVars
<1>9. CASE Sock!WaitChild
  BY <1>9, SockKeeps DEF Sock!WaitChild, Sock!cmdVars, Sock!setVars, Sock!loopVars
<1>10. CASE Sock!Sigsuspend
  BY <1>10, SockKeeps DEF Sock!Sigsuspend, Sock!cmdVars, Sock!setVars, Sock!loopVars
<1>11. CASE Sock!ChildTells
  BY <1>11, SockKeeps DEF Sock!ChildTells, Sock!cmdVars, Sock!setVars, Sock!loopVars
<1>12. CASE Sock!Source \/ Sock!Sink \/ Sock!LoopEof \/ Sock!LoopPeer
  <2>1. \/ Sock!Fail
        \/ /\ UNCHANGED <<opts, mode, lset, fdset>> /\ (dest' = dest \/ dest' = "host")
           /\ kpc' = kpc \/ kpc' = "closed"
    BY <1>12 DEF Sock!Source, Sock!Sink, Sock!LoopEof, Sock!LoopPeer, Sock!loopFrame, Sock!cmdVars,
                 Sock!setVars
  <2> QED BY <1>1, <2>1, SockKeeps
<1>13. CASE UNCHANGED sockVars
  BY <1>13, SockKeeps DEF sockVars
<1> QED
  BY <1>2, <1>3, <1>4, <1>5, <1>6, <1>7, <1>8, <1>9, <1>10, <1>11, <1>12, <1>13
     DEF Sock!Next, Sock!ParentStep

-----------------------------------------------------------------------------
(* The web clients.                                                        *)

WebFlags == {0, 1, 2, 4, 8}
ThreadPlaces == {"none", "connect", "read", "lock", "unlock", "gone", "joined"}
WebPlaces == {"home", "loop", "wait", "relock", "scan", "ready", "end", "error"}

\* The files that are still to be counted out.
Left == {f \in Web!Files : IF web = "nonblock" THEN f_flags[f] # 4 ELSE tpc[f] # "joined"}

WebTyped ==
  /\ f_flags \in [Web!Files -> WebFlags] /\ tpc \in [Web!Files -> ThreadPlaces]
  /\ wpc \in WebPlaces /\ i \in Nat \ {0}
  /\ wpc = "ready" => web = "nonblock"

\* A file is marked when it has a thread; nonblock/web has none.
ThreadsRight ==
  \A f \in Web!Files : IF web = "nonblock" THEN tpc[f] = "none"
                                           ELSE f_flags[f] = 0 <=> tpc[f] = "none"

Counters ==
  /\ nlefttoconn = Cardinality(Web!Unstarted) /\ nlefttoread = Cardinality(Left)
  /\ nconn = nlefttoread - nlefttoconn /\ nconn <= MAXNCONN

WebInv == web # "web02" => WebTyped /\ ThreadsRight /\ Counters /\ Web!SetsOpen

LEMMA FilesFinite ==
  /\ IsFiniteSet(Web!Files) /\ IsFiniteSet(Web!Unstarted) /\ IsFiniteSet(Left)
  /\ Cardinality(Web!Unstarted) \in Nat /\ Cardinality(Left) \in Nat
  /\ Cardinality(Web!Files) = NFILES
<1>1. IsFiniteSet(Web!Files) /\ Cardinality(Web!Files) = NFILES
  BY ClientsAssumption, FS_Interval DEF Web!Files
<1>2. Web!Unstarted \subseteq Web!Files /\ Left \subseteq Web!Files
  BY DEF Web!Unstarted, Left
<1>3. IsFiniteSet(Web!Unstarted) /\ IsFiniteSet(Left)
  BY <1>1, <1>2, FS_Subset
<1> QED BY <1>1, <1>3, FS_CardinalityType

LEMMA OneLess ==
  ASSUME NEW S, IsFiniteSet(S), NEW x \in S
  PROVE  Cardinality(S \ {x}) = Cardinality(S) - 1
BY FS_RemoveElement

LEMMA WebInit == Web!Init => WebInv
<1> SUFFICES ASSUME Web!Init PROVE WebInv
  OBVIOUS
<1>1. WebTyped
  BY DEF Web!Init, WebTyped, WebFlags, ThreadPlaces, WebPlaces
<1>2. ThreadsRight /\ Web!SetsOpen
  BY DEF Web!Init, ThreadsRight, Web!SetsOpen, Web!Open
<1>3. Web!Unstarted = Web!Files /\ Left = Web!Files
  BY DEF Web!Init, Web!Unstarted, Left
<1>4. Counters
  BY <1>3, FilesFinite, ClientsAssumption DEF Web!Init, Counters
<1> QED BY <1>1, <1>2, <1>4 DEF WebInv

LEMMA FirstOf ==
  ASSUME NEW S, S \subseteq Nat, S # {}
  PROVE  (CHOOSE x \in S : \A y \in S : x <= y) \in S
<1> DEFINE Less == {p \in Nat \X Nat : p[1] < p[2]}
<1>1. Less = OpToRel(<, Nat)
  BY Zenon DEF OpToRel
<1>2. IsWellFoundedOn(Less, Nat)
  BY <1>1, NatLessThanWellFounded, Zenon
<1>3. PICK x \in S : \A y \in S : ~ (<<y, x>> \in Less)
  <2> HIDE DEF Less
  <2> QED BY <1>2, WFMin, Zenon
<1>4. ASSUME NEW y \in S PROVE x <= y
  <2>1. x \in Nat /\ y \in Nat
    OBVIOUS
  <2>2. <<y, x>> \notin Less
    BY <1>3
  <2> QED BY <2>1, <2>2
<1> QED BY <1>4

\* err_quit("nothing found") is never reached.
LEMMA FileFound ==
  ASSUME Counters, Web!MayStart
  PROVE  Web!Find \in Web!Unstarted /\ Web!Find \in Web!Files
<1>1. Web!Unstarted # {}
  BY FilesFinite, FS_EmptySet DEF Counters, Web!MayStart
<1>2. Web!Unstarted \subseteq Nat
  BY ClientsAssumption DEF Web!Unstarted, Web!Files
<1>3. Web!Find \in Web!Unstarted
  BY <1>1, <1>2, FirstOf DEF Web!Find
<1> QED BY <1>3 DEF Web!Unstarted

\* A transfer is started: one file fewer is unstarted, the same ones are left.
LEMMA StartCounts ==
  ASSUME Counters, Web!MayStart, Web!Counted, UNCHANGED <<nlefttoread, web>>,
         Web!Unstarted' = Web!Unstarted \ {Web!Find}, Left' = Left
  PROVE  Counters'
<1>1. PICK u : u = Web!Unstarted /\ Web!Unstarted' = u \ {Web!Find}
  OBVIOUS
<1>2. PICK x : x = Web!Find
  OBVIOUS
<1>3. Cardinality(u \ {x}) = Cardinality(u) - 1
  BY <1>1, <1>2, FileFound, FilesFinite, OneLess
<1>4. Web!Unstarted' = u \ {x}
  BY <1>1, <1>2
<1>5. /\ nconn' = nconn + 1 /\ nlefttoconn' = nlefttoconn - 1 /\ nconn < MAXNCONN
  BY DEF Web!Counted, Web!MayStart
<1>6. nlefttoconn' = Cardinality(Web!Unstarted')
  BY <1>1, <1>3, <1>4, <1>5 DEF Counters
<1>7. nlefttoread' = Cardinality(Left')
  BY DEF Counters
<1>8. nlefttoconn \in Nat /\ nlefttoread \in Nat
  BY FilesFinite DEF Counters
<1>9. nconn' = nlefttoread' - nlefttoconn' /\ nconn' <= MAXNCONN
  BY <1>5, <1>8, ClientsAssumption DEF Counters
<1> QED BY <1>6, <1>7, <1>9 DEF Counters

\* A transfer has ended.
LEMMA EndCounts ==
  ASSUME Counters, UNCHANGED nlefttoconn, NEW x, x \in Left,
         nconn' = nconn - 1, nlefttoread' = nlefttoread - 1,
         Web!Unstarted' = Web!Unstarted, Left' = Left \ {x}
  PROVE  Counters'
<1>1. PICK l : l = Left
  OBVIOUS
<1>2. Cardinality(l \ {x}) = Cardinality(l) - 1
  BY <1>1, FilesFinite, OneLess
<1>3. Left' = l \ {x}
  BY <1>1
<1>4. nlefttoread' = Cardinality(Left')
  BY <1>1, <1>2, <1>3 DEF Counters
<1>5. nlefttoconn' = Cardinality(Web!Unstarted')
  BY DEF Counters
<1>6. nlefttoconn \in Nat /\ nlefttoread \in Nat
  BY FilesFinite DEF Counters
<1>7. nconn' = nlefttoread' - nlefttoconn' /\ nconn' <= MAXNCONN
  BY <1>6, ClientsAssumption DEF Counters
<1> QED BY <1>4, <1>5, <1>7 DEF Counters

\* Steps of the main thread that start and end nothing.
LEMMA WebKeeps ==
  ASSUME WebInv, UNCHANGED <<web, f_flags, nconn, nlefttoconn, nlefttoread, tpc, webrset, webwset>>,
         wpc' \in WebPlaces, wpc' = "ready" => web = "nonblock", i' \in Nat \ {0}
  PROVE  WebInv'
<1>1. Web!Unstarted' = Web!Unstarted /\ Left' = Left
  BY DEF Web!Unstarted, Left
<1>2. ASSUME web # "web02" PROVE WebTyped' /\ ThreadsRight' /\ Counters' /\ Web!SetsOpen'
  BY <1>1, <1>2 DEF WebInv, WebTyped, ThreadsRight, Counters, Web!SetsOpen, Web!Open
<1> QED BY <1>2 DEF WebInv

\* The thread of a file, once it has one, goes on.
LEMMA ThreadGoesOn ==
  ASSUME WebInv, web # "web02", web # "nonblock", UNCHANGED <<web, nconn, nlefttoconn, nlefttoread>>,
         NEW f \in Web!Files, tpc[f] \notin {"none", "joined"},
         NEW p \in ThreadPlaces \ {"none", "joined"}, tpc' = [tpc EXCEPT ![f] = p],
         NEW n \in WebFlags \ {0}, f_flags' = [f_flags EXCEPT ![f] = n] \/ f_flags' = f_flags,
         wpc' \in WebPlaces \ {"ready"}, i' \in Nat \ {0}
  PROVE  WebInv'
<1>0. WebTyped /\ ThreadsRight /\ Counters
  BY DEF WebInv
<1>1. f_flags' \in [Web!Files -> WebFlags] /\ tpc' \in [Web!Files -> ThreadPlaces]
  BY <1>0 DEF WebTyped
<1>2. f_flags[f] # 0 /\ f_flags'[f] # 0
  BY <1>0 DEF ThreadsRight, WebTyped
<1>3. ASSUME NEW g \in Web!Files
      PROVE  /\ f_flags'[g] = 0 <=> f_flags[g] = 0
             /\ tpc'[g] = "none" <=> tpc[g] = "none"
             /\ tpc'[g] = "joined" <=> tpc[g] = "joined"
  BY <1>0, <1>2 DEF WebTyped
<1>4. Web!Unstarted' = Web!Unstarted
  BY <1>3 DEF Web!Unstarted
<1>5. Left' = Left
  BY <1>3 DEF Left
<1>6. ThreadsRight'
  BY <1>0, <1>3 DEF ThreadsRight
<1>7. Counters'
  BY <1>0, <1>4, <1>5 DEF Counters
<1> QED BY <1>1, <1>6, <1>7 DEF WebInv, WebTyped, Web!SetsOpen

\* A file whose thread has been waited for.
LEMMA ThreadJoined ==
  ASSUME WebInv, web # "web02", web # "nonblock", UNCHANGED <<web, nlefttoconn>>,
         NEW f \in Web!Files, tpc[f] = "gone", tpc' = [tpc EXCEPT ![f] = "joined"],
         nconn' = nconn - 1, nlefttoread' = nlefttoread - 1,
         NEW n \in WebFlags \ {0}, f_flags' = [f_flags EXCEPT ![f] = n] \/ f_flags' = f_flags,
         wpc' \in WebPlaces \ {"ready"}, i' \in Nat \ {0}
  PROVE  WebInv'
<1>0. WebTyped /\ ThreadsRight /\ Counters
  BY DEF WebInv
<1>1. f_flags' \in [Web!Files -> WebFlags] /\ tpc' \in [Web!Files -> ThreadPlaces]
  BY <1>0 DEF WebTyped, ThreadPlaces
<1>2. f_flags[f] # 0 /\ f_flags'[f] # 0
  BY <1>0 DEF ThreadsRight, WebTyped
<1>3. ASSUME NEW g \in Web!Files
      PROVE  /\ f_flags'[g] = 0 <=> f_flags[g] = 0
             /\ tpc'[g] = "none" <=> tpc[g] = "none"
             /\ tpc'[g] = "joined" <=> tpc[g] = "joined" \/ g = f
  BY <1>0, <1>2 DEF WebTyped
<1>4. Web!Unstarted' = Web!Unstarted
  BY <1>3 DEF Web!Unstarted
<1>5. Left' = Left \ {f} /\ f \in Left
  BY <1>3 DEF Left
<1>6. ThreadsRight'
  BY <1>0, <1>3 DEF ThreadsRight
<1>7. Counters'
  BY <1>0, <1>4, <1>5, EndCounts
<1> QED BY <1>1, <1>6, <1>7 DEF WebInv, WebTyped, Web!SetsOpen

LEMMA StartMarked ==
  ASSUME WebInv, web # "web02", web # "nonblock", wpc = "loop", Web!MayStart, Web!CreateMarked
  PROVE  WebInv'
<1>0. WebTyped /\ ThreadsRight /\ Counters
  BY DEF WebInv
<1>1. PICK f : f = Web!Find
  OBVIOUS
<1>2. f \in Web!Unstarted /\ f \in Web!Files /\ f_flags[f] = 0
  BY <1>0, <1>1, FileFound DEF Web!Unstarted
<1>3. /\ f_flags' = [f_flags EXCEPT ![f] = 1] /\ tpc' = [tpc EXCEPT ![f] = "connect"]
      /\ Web!Counted /\ wpc' = "loop" /\ UNCHANGED <<web, i, nlefttoread>>
  BY <1>1 DEF Web!CreateMarked
<1>4. f_flags' \in [Web!Files -> WebFlags] /\ tpc' \in [Web!Files -> ThreadPlaces]
  BY <1>0, <1>3 DEF WebTyped, WebFlags, ThreadPlaces
<1>5. tpc[f] = "none"
  BY <1>0, <1>2 DEF ThreadsRight
<1>6. ASSUME NEW g \in Web!Files
      PROVE  /\ f_flags'[g] = 0 <=> f_flags[g] = 0 /\ g # f
             /\ tpc'[g] = "none" <=> tpc[g] = "none" /\ g # f
             /\ tpc'[g] = "joined" <=> tpc[g] = "joined"
  BY <1>0, <1>3, <1>5 DEF WebTyped
<1>7. Web!Unstarted' = Web!Unstarted \ {f}
  BY <1>6 DEF Web!Unstarted
<1>8. Left' = Left
  BY <1>3, <1>6 DEF Left
<1>9. ThreadsRight'
  BY <1>0, <1>3, <1>6 DEF ThreadsRight
<1>10. Counters'
  BY <1>0, <1>1, <1>3, <1>7, <1>8, StartCounts
<1>11. WebTyped'
  BY <1>0, <1>3, <1>4 DEF WebTyped, WebPlaces
<1> QED BY <1>3, <1>9, <1>10, <1>11 DEF WebInv, Web!SetsOpen

LEMMA StartNonblock ==
  ASSUME WebInv, web = "nonblock", wpc = "loop", Web!MayStart, Web!StartConnect
  PROVE  WebInv'
<1>0. WebTyped /\ ThreadsRight /\ Counters /\ Web!SetsOpen
  BY DEF WebInv
<1>1. PICK f : f = Web!Find
  OBVIOUS
<1>2. f \in Web!Unstarted /\ f \in Web!Files /\ f_flags[f] = 0
  BY <1>0, <1>1, FileFound DEF Web!Unstarted
<1>3. PICK n \in {1, 2} : f_flags' = [f_flags EXCEPT ![f] = n]
                          /\ webwset' = IF n = 2 THEN webwset ELSE webwset \cup {f}
  <2>1. PICK atOnce \in BOOLEAN : /\ f_flags' = [f_flags EXCEPT ![f] = IF atOnce THEN 2 ELSE 1]
                                  /\ webwset' = IF atOnce THEN webwset ELSE webwset \cup {f}
    BY <1>1, Zenon DEF Web!StartConnect
  <2>2. CASE atOnce
    BY <2>1, <2>2
  <2>3. CASE ~atOnce
    BY <2>1, <2>3
  <2> QED BY <2>2, <2>3
<1>4. /\ webrset' = webrset \cup {f} /\ UNCHANGED tpc
      /\ Web!Counted /\ wpc' = "loop" /\ UNCHANGED <<web, i, nlefttoread>>
  BY <1>1 DEF Web!StartConnect
<1>5. f_flags' \in [Web!Files -> WebFlags]
  BY <1>0, <1>3 DEF WebTyped, WebFlags
<1>6. ASSUME NEW g \in Web!Files
      PROVE  /\ f_flags'[g] = IF g = f THEN n ELSE f_flags[g]
  BY <1>0, <1>3 DEF WebTyped
<1>7. Web!Unstarted' = Web!Unstarted \ {f}
  BY <1>3, <1>6 DEF Web!Unstarted
<1>8. Left' = Left
  BY <1>2, <1>3, <1>4, <1>6 DEF Left
<1>9. ThreadsRight'
  BY <1>0, <1>4 DEF ThreadsRight
<1>10. Counters'
  BY <1>0, <1>1, <1>4, <1>7, <1>8, StartCounts
<1>11. WebTyped'
  BY <1>0, <1>4, <1>5 DEF WebTyped, WebPlaces
<1>12. Web!SetsOpen'
  BY <1>0, <1>2, <1>3, <1>4, <1>6 DEF Web!SetsOpen, Web!Open
<1> QED BY <1>9, <1>10, <1>11, <1>12 DEF WebInv

\* One file of the loop after select().
LEMMA ReadyKeeps == ASSUME WebInv, web # "web02", Web!Ready PROVE WebInv'
<1>0. WebTyped /\ ThreadsRight /\ Counters /\ Web!SetsOpen /\ wpc = "ready" /\ web = "nonblock"
  BY DEF WebInv, WebTyped, Web!Ready
<1>1. i \in Web!Files /\ i + 1 \in Nat \ {0}
  BY <1>0, ClientsAssumption DEF WebTyped, Web!Ready, Web!Files
<1>2. PICK f : f = i
  OBVIOUS
<1>3. CASE Web!Fail
  BY <1>0, <1>3, WebKeeps DEF Web!Fail, Web!countVars, Web!selVars, WebPlaces, WebTyped
<1>4. CASE /\ f_flags[f] = 1 /\ webwset' = webwset \ {f} /\ webrset' = webrset \cup {f}
           /\ f_flags' = [f_flags EXCEPT ![f] = 2] /\ i' = i + 1
           /\ UNCHANGED <<web, wpc, nconn, nlefttoconn, nlefttoread, tpc>>
  <2>1. f_flags' \in [Web!Files -> WebFlags]
    BY <1>0, <1>4 DEF WebTyped, WebFlags
  <2>2. ASSUME NEW g \in Web!Files
        PROVE  /\ f_flags'[g] = IF g = f THEN 2 ELSE f_flags[g]
    BY <1>0, <1>4 DEF WebTyped
  <2>3. Web!Unstarted' = Web!Unstarted
    BY <1>4, <2>2 DEF Web!Unstarted
  <2>4. Left' = Left
    BY <1>0, <1>4, <2>2 DEF Left
  <2>5. WebTyped'
    BY <1>0, <1>1, <1>4, <2>1 DEF WebTyped
  <2>6. Web!SetsOpen'
    BY <1>0, <1>1, <1>2, <1>4, <2>2 DEF Web!SetsOpen, Web!Open
  <2> QED BY <1>0, <1>4, <2>3, <2>4, <2>5, <2>6 DEF WebInv, ThreadsRight, Counters
<1>5. CASE /\ f_flags[f] = 2 /\ f_flags' = [f_flags EXCEPT ![f] = 4] /\ webrset' = webrset \ {f}
           /\ i' = i + 1 /\ nconn' = nconn - 1 /\ nlefttoread' = nlefttoread - 1
           /\ UNCHANGED <<web, wpc, nlefttoconn, tpc, webwset>>
  <2>1. f_flags' \in [Web!Files -> WebFlags]
    BY <1>0, <1>5 DEF WebTyped, WebFlags
  <2>2. ASSUME NEW g \in Web!Files
        PROVE  /\ f_flags'[g] = IF g = f THEN 4 ELSE f_flags[g]
    BY <1>0, <1>5 DEF WebTyped
  <2>3. Web!Unstarted' = Web!Unstarted
    BY <1>5, <2>2 DEF Web!Unstarted
  <2>4. Left' = Left \ {f} /\ f \in Left
    BY <1>0, <1>1, <1>2, <1>5, <2>2 DEF Left
  <2>5. WebTyped'
    BY <1>0, <1>1, <1>5, <2>1 DEF WebTyped
  <2>6. Web!SetsOpen'
    BY <1>0, <1>1, <1>2, <1>5, <2>2 DEF Web!SetsOpen, Web!Open
  <2>7. Counters'
    BY <1>0, <1>5, <2>3, <2>4, EndCounts
  <2> QED BY <1>0, <1>5, <2>5, <2>6, <2>7 DEF WebInv, ThreadsRight
<1>6. CASE /\ i' = i + 1
           /\ UNCHANGED <<web, f_flags, wpc, nconn, nlefttoconn, nlefttoread, tpc, webrset, webwset>>
  BY <1>0, <1>1, <1>6, WebKeeps DEF WebTyped
<1> QED
  BY <1>2, <1>3, <1>4, <1>5, <1>6 DEF Web!Ready, Web!Cleared, Web!countVars, Web!selVars

LEMMA ThreadKeeps ==
  ASSUME WebInv, web # "web02", NEW f \in Web!Files, Web!ThreadStep(f)
  PROVE  WebInv'
<1>0. WebTyped /\ ThreadsRight
  BY DEF WebInv
<1>1. tpc[f] \notin {"none", "joined"} /\ web # "nonblock"
  BY <1>0 DEF ThreadsRight, Web!ThreadStep, Web!ThreadConnect, Web!ThreadRead, Web!ThreadLock,
              Web!ThreadUnlock
<1>2. wpc \in WebPlaces \ {"ready"}
  BY <1>0, <1>1 DEF WebTyped
<1>3. CASE Web!Fail
  BY <1>0, <1>3, WebKeeps DEF Web!Fail, Web!countVars, Web!selVars, WebPlaces, WebTyped
<1>4. ASSUME NEW p \in {"read", "lock", "gone", "unlock"}, tpc' = [tpc EXCEPT ![f] = p],
             NEW n \in {2, 4}, f_flags' = [f_flags EXCEPT ![f] = n] \/ f_flags' = f_flags,
             UNCHANGED <<web, i, nconn, nlefttoconn, nlefttoread>>,
             wpc' \in {wpc, "relock"}
      PROVE  WebInv'
  <2>1. p \in ThreadPlaces \ {"none", "joined"} /\ n \in WebFlags \ {0}
    BY <1>4 DEF ThreadPlaces, WebFlags
  <2>2. wpc' \in WebPlaces \ {"ready"} /\ i' \in Nat \ {0}
    BY <1>0, <1>2, <1>4 DEF WebPlaces, WebTyped
  <2> QED BY <1>1, <1>4, <2>1, <2>2, ThreadGoesOn
<1>5. CASE Web!ThreadConnect(f)
  BY <1>3, <1>4, <1>5 DEF Web!ThreadConnect, Web!threadFrame, Web!countVars
<1>6. CASE Web!ThreadRead(f)
  <2>1. PICK p \in {"gone", "lock"} : tpc' = [tpc EXCEPT ![f] = p]
    BY <1>6 DEF Web!ThreadRead
  <2> QED BY <1>4, <1>6, <2>1 DEF Web!ThreadRead, Web!threadFrame, Web!countVars
<1>7. CASE Web!ThreadLock(f)
  BY <1>4, <1>7 DEF Web!ThreadLock, Web!threadFrame, Web!countVars
<1>8. CASE Web!ThreadUnlock(f)
  BY <1>4, <1>8 DEF Web!ThreadUnlock, Web!threadFrame, Web!countVars
<1> QED BY <1>5, <1>6, <1>7, <1>8 DEF Web!ThreadStep

LEMMA WebNext == WebInv /\ (Web!Next \/ UNCHANGED webVars) => WebInv'
<1> SUFFICES ASSUME WebInv, Web!Next \/ UNCHANGED webVars
             PROVE  WebInv'
  OBVIOUS
<1>0. CASE web = "web02"
  <2>1. UNCHANGED web
    BY DEF Web!Next, Web!MainStep, Web!HomePage, Web!Start, Web!CreateMarked, Web!CreateUnmarked,
           Web!StartConnect, Web!Mark, Web!Finish, Web!JoinAny, Web!MainLock, Web!Scan, Web!MainUnlock,
           Web!Select, Web!Ready, Web!AllReady, Web!ThreadStep, Web!ThreadConnect, Web!ThreadRead,
           Web!ThreadLock, Web!ThreadUnlock, Web!Fail, Web!threadFrame, webVars
  <2> QED BY <1>0, <2>1 DEF WebInv
<1>a. ASSUME web # "web02" PROVE WebInv'
  <2>0. WebTyped /\ ThreadsRight /\ Counters /\ Web!SetsOpen
    BY <1>a DEF WebInv
  <2>1. CASE \/ Web!HomePage \/ Web!Finish \/ Web!MainLock \/ Web!MainUnlock \/ Web!Select \/ Web!AllReady
             \/ Web!Fail \/ UNCHANGED webVars
    <3>1. /\ UNCHANGED <<web, f_flags, nconn, nlefttoconn, nlefttoread, tpc, webrset, webwset>>
          /\ wpc' \in WebPlaces /\ (wpc' = "ready" => web = "nonblock") /\ i' \in Nat \ {0}
      BY <2>0, <2>1 DEF Web!HomePage, Web!Finish, Web!MainLock, Web!MainUnlock, Web!Select, Web!AllReady,
            Web!Fail, webVars, Web!countVars, Web!selVars, WebTyped, WebPlaces
    <3> QED BY <3>1, WebKeeps
  <2>2. CASE Web!Start
    <3>1. CASE Web!CreateMarked /\ web \in {"web01", "web03"}
      BY <1>a, <2>2, <3>1, StartMarked DEF Web!Start
    <3>2. CASE Web!StartConnect /\ web = "nonblock"
      BY <1>a, <2>2, <3>2, StartNonblock DEF Web!Start
    <3> QED BY <1>a, <2>1, <2>2, <3>1, <3>2 DEF Web!Start
  <2>3. CASE Web!Mark
    BY <2>0, <2>3 DEF Web!Mark, WebTyped, WebPlaces
  <2>4. CASE Web!JoinAny
    <3>1. PICK f \in Web!Files : tpc[f] = "gone" /\ Web!Joined(f)
      BY <2>4 DEF Web!JoinAny
    <3>2. /\ web = "web01" /\ wpc = "loop" /\ UNCHANGED <<web, wpc, i, f_flags, nlefttoconn>>
      BY <2>4 DEF Web!JoinAny, Web!Idle
    <3>3. wpc' \in WebPlaces \ {"ready"} /\ i' \in Nat \ {0} /\ 1 \in WebFlags \ {0}
      BY <2>0, <3>2 DEF WebTyped, WebPlaces, WebFlags
    <3>4. PICK n \in WebFlags \ {0} : n = 1
      BY <3>3
    <3> QED BY <1>a, <3>1, <3>2, <3>3, <3>4, ThreadJoined DEF Web!Joined
  <2>5. CASE Web!Scan
    <3>1. CASE f_flags[i] # 4 /\ UNCHANGED <<f_flags, nconn, nlefttoconn, nlefttoread, tpc>>
      BY <2>0, <2>5, <3>1, WebKeeps DEF Web!Scan, WebTyped, WebPlaces, Web!selVars
    <3>2. CASE /\ f_flags[i] = 4 /\ tpc[i] = "gone" /\ f_flags' = [f_flags EXCEPT ![i] = 8]
               /\ Web!Joined(i) /\ UNCHANGED nlefttoconn
      <4>1. PICK f : f = i
        OBVIOUS
      <4>2. PICK n \in WebFlags \ {0} : n = 8
        BY DEF WebFlags
      <4>3. f \in Web!Files /\ i + 1 \in Nat \ {0}
        BY <2>0, <2>5, <4>1, ClientsAssumption DEF Web!Scan, Web!Files, WebTyped
      <4>4. web # "nonblock"
        BY <2>0, <3>2, <4>1, <4>3 DEF ThreadsRight
      <4>5. /\ UNCHANGED <<web, wpc>> /\ wpc = "scan" /\ i' = i + 1
        BY <2>5 DEF Web!Scan
      <4>6. wpc' \in WebPlaces \ {"ready"} /\ i' \in Nat \ {0}
        BY <4>3, <4>5 DEF WebPlaces
      <4>7. /\ tpc[f] = "gone" /\ tpc' = [tpc EXCEPT ![f] = "joined"] /\ nconn' = nconn - 1
            /\ nlefttoread' = nlefttoread - 1 /\ f_flags' = [f_flags EXCEPT ![f] = n]
        BY <3>2, <4>1, <4>2 DEF Web!Joined
      <4> QED BY <1>a, <3>2, <4>3, <4>4, <4>5, <4>6, <4>7, ThreadJoined
    <3> QED BY <2>5, <3>1, <3>2 DEF Web!Scan, Web!countVars
  <2>6. CASE Web!Ready
    BY <1>a, <2>6, ReadyKeeps
  <2>7. CASE \E f \in Web!Files : Web!ThreadStep(f)
    BY <1>a, <2>7, ThreadKeeps
  <2> QED BY <2>1, <2>2, <2>3, <2>4, <2>5, <2>6, <2>7 DEF Web!Next, Web!MainStep
<1> QED BY <1>0, <1>a

-----------------------------------------------------------------------------
(* The heartbeat.                                                          *)

\* The alarm is off before the connection is shut down, and stays off.
BeatInv ==
  /\ hcpc # "killed"
  /\ hcpc = "shutdown" \/ hbshut => ~calarm

LEMMA BeatInit == Beat!Init => BeatInv
BY DEF Beat!Init, BeatInv

LEMMA BeatNext == BeatInv /\ (Beat!Next \/ UNCHANGED beatVars) => BeatInv'
<1> SUFFICES ASSUME BeatInv, Beat!Next \/ UNCHANGED beatVars
             PROVE  BeatInv'
  OBVIOUS
<1>1. CASE Beat!CliAlrm
  BY <1>1 DEF Beat!CliAlrm, BeatInv
<1>2. CASE Beat!StopAlarm
  BY <1>2 DEF Beat!StopAlarm, BeatInv
<1>3. CASE Beat!Shutdown
  BY <1>3 DEF Beat!Shutdown, Beat!beatVars, BeatInv
<1>4. CASE \/ UNCHANGED beatVars \/ Beat!NetFails \/ Beat!ServAlrm \/ Beat!CliUrg \/ Beat!ServUrg
           \/ Beat!Line \/ Beat!Eof \/ Beat!Echo \/ Beat!Fin \/ Beat!ReadEnd
  <2>1. UNCHANGED <<calarm, hbshut>> /\ hcpc' \in {hcpc, "eof", "exit"}
    BY <1>4 DEF Beat!NetFails, Beat!ServAlrm, Beat!CliUrg, Beat!ServUrg, Beat!Line, Beat!Eof,
                Beat!Echo, Beat!Fin, Beat!ReadEnd, Beat!beatVars, beatVars
  <2> QED BY <2>1 DEF BeatInv
<1> QED BY <1>1, <1>2, <1>3, <1>4 DEF Beat!Next

-----------------------------------------------------------------------------
(* The echo clients.                                                       *)

\* The places of each version.
EchoPlaces ==
  IF prog = "str_cli" THEN {"gets", "write", "read"} \cup Ended
  ELSE IF prog \in Twofold THEN {"gets", "write", "setdone", "pause"} \cup Ended
  ELSE IF prog \in Evented THEN {"select", "events", "write"} \cup Ended
  ELSE {"select", "nstdin", "nsock", "nout", "nwrite"} \cup Ended

EchoTyped ==
  /\ prog \in Versions /\ sizes \in Nat \X (Nat \ {0})
  /\ pc \in EchoPlaces
  /\ rpc = "rd" => prog \in Twofold
  /\ isfile => prog = "kqueue" /\ eof

\* A line comes no further than it is.
Stages ==
  /\ typed \in Nat /\ nread \in Nat /\ nsent \in Nat /\ nserved \in Nat
  /\ nback \in Nat /\ nrecv \in Nat /\ nout \in Nat
  /\ nread <= typed /\ nsent <= nread /\ nserved <= nsent /\ nback <= nserved
  /\ nrecv <= nback /\ nout <= nrecv
  /\ ~died => nsent - nserved <= CAP

\* A connection is shut down when all that was typed has been sent, and the
\* server ends when it has answered it.
EndOfInput ==
  /\ pc \in {"gets", "read", "setdone", "pause", "select", "events"} /\ prog # "nonb" => nsent = nread
  /\ pc = "write" => nsent < nread
  /\ shut => nsent = nread /\ nread = typed /\ eof
  /\ shut => prog # "str_cli"
  /\ shut /\ prog \in Evented \cup {"nonb"} => stdineof
  /\ sfin /\ ~died => shut /\ nback = nsent

\* How the versions end.
Endings ==
  /\ pc = "end" /\ prog # "select01" =>
       died \/ (eof /\ nrecv = typed /\ (prog # "nonb" => nout = typed))
  /\ pc = "quit" /\ prog # "thread2" => died

\* str_cli() has one line under way.
OneLine ==
  prog = "str_cli" => /\ pc = "gets" => nrecv = nread /\ nout = nread
                      /\ pc \in {"write", "read"} => nrecv = nread - 1 /\ nout = nread - 1

\* strclinonb: its buffers, and what it may still believe of what select() said.
Nonblocking ==
  prog = "nonb" =>
    /\ toiptr \in Nat /\ friptr \in Nat
    /\ nread - nsent <= toiptr /\ nrecv - nout <= friptr
    /\ stdineof => nread = typed /\ eof
    /\ pc = "nstdin" /\ "stdin" \in rset => ~stdineof
    /\ pc \in {"nstdin", "nsock"} /\ "sock" \in rset => (nback > nrecv \/ sfin) /\ friptr < MAXLINE

EchoInv == EchoTyped /\ Stages /\ EndOfInput /\ Endings /\ OneLine /\ Nonblocking

LEMMA LeastOf ==
  ASSUME NEW a \in Int, NEW b \in Int
  PROVE  Least(a, b) \in {a, b} /\ Least(a, b) <= a /\ Least(a, b) <= b
BY DEF Least

LEMMA MoreRoom ==
  ASSUME NEW a \in Nat, NEW b \in Nat, NEW c \in Nat, NEW d \in Nat, a - b <= d, b <= c
  PROVE  a - c <= d
OBVIOUS

LEMMA EchoInit == Init => EchoInv
<1> SUFFICES ASSUME Init PROVE EchoInv
  OBVIOUS
<1>1. /\ prog \in Versions /\ sizes \in Nat \X (Nat \ {0})
      /\ nread = 0 /\ nsent = 0 /\ nserved = 0 /\ nback = 0 /\ nrecv = 0 /\ nout = 0
      /\ ~shut /\ ~sfin /\ ~died /\ ~stdineof /\ toiptr = 0 /\ friptr = 0 /\ typed \in Nat /\ rset = {}
  BY EchoConstants DEF Init, NLINES
<1>2. /\ pc = (IF prog \in Evented \cup {"nonb"} THEN "select" ELSE "gets")
      /\ rpc = (IF prog \in Twofold THEN "rd" ELSE "none")
      /\ isfile => prog = "kqueue" /\ eof
  BY DEF Init
<1>3. pc \in EchoPlaces
  BY <1>1, <1>2 DEF EchoPlaces, Versions, Evented, Ordered, Twofold, Ended
<1>4. EchoTyped
  BY <1>1, <1>2, <1>3 DEF EchoTyped
<1>5. Stages
  BY <1>1, EchoConstants DEF Stages
<1>6. EndOfInput /\ Endings /\ OneLine
  BY <1>1, <1>2 DEF EndOfInput, Endings, OneLine
<1>7. Nonblocking
  BY <1>1, <1>2 DEF Nonblocking
<1> QED BY <1>4, <1>5, <1>6, <1>7 DEF EchoInv

\* The user and the server.
LEMMA OthersKeep ==
  ASSUME EchoInv, Type \/ CloseInput \/ SrvStep \/ SrvDie \/ UNCHANGED vars
  PROVE  EchoInv'
<1>0. EchoTyped /\ Stages /\ EndOfInput /\ Endings /\ OneLine /\ Nonblocking
  BY DEF EchoInv
<1>1. /\ UNCHANGED <<prog, sizes, nread, nsent, nrecv, nout, shut, pc, rpc, stdineof, rset, isfile,
                     toiptr, friptr>>
  BY DEF Type, CloseInput, SrvStep, SrvRead, SrvWrite, SrvEnd, SrvDie, vars, cliVars, readVars, recvVars,
         selVars, bufVars, srvVars
<1>2. EchoPlaces' = EchoPlaces
  BY <1>1 DEF EchoPlaces
<1>3. CASE Type
  <2>1. typed' = typed + 1 /\ ~eof /\ UNCHANGED <<eof, nserved, nback, sfin, died>>
    BY <1>3 DEF Type, srvVars
  <2>2. EchoTyped'
    BY <1>0, <1>1, <1>2, <2>1 DEF EchoTyped
  <2>3. Stages'
    BY <1>0, <1>1, <2>1 DEF Stages
  <2>4. ~shut
    BY <1>0, <2>1 DEF EndOfInput
  <2>5. EndOfInput' /\ Endings' /\ OneLine'
    BY <1>0, <1>1, <2>1, <2>4 DEF EndOfInput, Endings, OneLine
  <2>6. Nonblocking'
    BY <1>0, <1>1, <2>1 DEF Nonblocking, MAXLINE
  <2> QED BY <2>2, <2>3, <2>5, <2>6 DEF EchoInv
<1>4. CASE CloseInput
  <2>1. eof' /\ UNCHANGED <<typed, nserved, nback, sfin, died>>
    BY <1>4 DEF CloseInput, srvVars
  <2>2. EchoTyped'
    BY <1>0, <1>1, <1>2, <2>1 DEF EchoTyped
  <2>3. Stages' /\ EndOfInput' /\ Endings' /\ OneLine'
    BY <1>0, <1>1, <2>1 DEF Stages, EndOfInput, Endings, OneLine
  <2>6. Nonblocking'
    BY <1>0, <1>1, <2>1 DEF Nonblocking, MAXLINE
  <2> QED BY <2>2, <2>3, <2>6 DEF EchoInv
<1>5. CASE SrvStep \/ SrvDie \/ UNCHANGED vars
  <2>1. UNCHANGED <<typed, eof>>
    BY <1>5 DEF SrvStep, SrvRead, SrvWrite, SrvEnd, SrvDie, vars, cliVars, inVars
  <2>2. EchoTyped'
    BY <1>0, <1>1, <1>2, <2>1 DEF EchoTyped
  <2>3. /\ died => died'
        /\ sfin' /\ ~died' => (sfin \/ SrvEnd) /\ ~died
        /\ sfin => sfin' /\ nback' = nback
        /\ sfin' /\ ~died' => nback' = nback
    BY <1>5 DEF SrvStep, SrvRead, SrvWrite, SrvEnd, SrvDie, vars, srvVars
  <2>4. /\ nserved' \in Nat /\ nback' \in Nat /\ nserved' <= nsent /\ nback' <= nserved'
        /\ nback <= nback' /\ nserved <= nserved'
    <3>1. CASE SrvRead
      <4>1. PICK n \in Int : n = Least(MAXLINE, nsent - nserved) /\ n > 0 /\ n <= nsent - nserved
        <5>1. MAXLINE \in Nat \ {0} /\ nsent - nserved \in Int /\ nsent - nserved > 0
          BY <1>0, <3>1 DEF EchoTyped, Stages, MAXLINE, SrvRead
        <5> QED BY <5>1, LeastOf
      <4>2. nserved' = nserved + n /\ nback' = nback
        BY <3>1, <4>1 DEF SrvRead
      <4> QED BY <1>0, <4>1, <4>2 DEF Stages
    <3>2. CASE SrvWrite \/ SrvEnd \/ SrvDie \/ UNCHANGED vars
      BY <1>0, <3>2 DEF SrvWrite, SrvEnd, SrvDie, vars, srvVars, Stages
    <3> QED BY <1>5, <3>1, <3>2 DEF SrvStep
  <2>a. ~died' => nsent' - nserved' <= CAP
    <3> SUFFICES ASSUME ~died' PROVE nsent' - nserved' <= CAP
      OBVIOUS
    <3>1. nsent - nserved <= CAP /\ nsent \in Nat /\ nserved \in Nat
      BY <1>0, <2>3 DEF Stages
    <3>2. nsent' = nsent /\ nserved' \in Nat /\ nserved <= nserved'
      BY <1>1, <2>4
    <3>3. CAP \in Nat
      BY EchoConstants
    <3> QED BY <3>1, <3>2, <3>3, MoreRoom
  <2>5. Stages'
    BY <1>0, <1>1, <2>1, <2>4, <2>a DEF Stages
  <2>6. sfin' /\ ~died' => shut' /\ nback' = nsent'
    BY <1>0, <1>1, <2>3 DEF EndOfInput, SrvEnd
  <2>7. EndOfInput'
    BY <1>0, <1>1, <2>1, <2>6 DEF EndOfInput
  <2>8. Endings' /\ OneLine'
    BY <1>0, <1>1, <2>1, <2>3 DEF Endings, OneLine
  <2>9. Nonblocking'
    BY <1>0, <1>1, <2>1, <2>3, <2>4 DEF Nonblocking, MAXLINE, Stages
  <2> QED BY <2>2, <2>5, <2>7, <2>8, <2>9 DEF EchoInv
<1> QED BY <1>3, <1>4, <1>5

\* A step of a version that blocks in its calls disturbs nothing of strclinonb's.
LEMMA NotNonblocking == ASSUME prog # "nonb", UNCHANGED prog PROVE Nonblocking'
BY DEF Nonblocking

LEMMA PlacesSplit ==
  ASSUME EchoTyped
  PROVE  /\ pc \in {"gets", "read", "setdone", "pause", "write", "events"} => prog # "nonb"
         /\ pc \in {"gets", "setdone", "pause"} => prog = "str_cli" \/ prog \in Twofold
         /\ pc \in {"setdone", "pause"} => prog \in Twofold
         /\ pc = "read" => prog = "str_cli"
         /\ pc = "events" => prog \in Evented
         /\ pc \in {"nstdin", "nsock", "nout", "nwrite"} => prog = "nonb"
         /\ prog \in Twofold => prog \notin Evented \cup {"nonb", "str_cli"}
         /\ prog \in Evented => prog \notin Twofold \cup {"nonb", "str_cli"}
BY DEF EchoTyped, EchoPlaces, Versions, Evented, Ordered, Twofold, Ended

LEMMA GetsKeeps == ASSUME EchoInv, Gets PROVE EchoInv'
<1>0. EchoTyped /\ Stages /\ EndOfInput /\ Endings /\ OneLine /\ Nonblocking
  BY DEF EchoInv
<1>1. /\ pc = "gets"
      /\ UNCHANGED <<prog, sizes, typed, eof, nserved, nback, sfin, died, nsent, nrecv, nout, rpc, stdineof,
                     rset, isfile, toiptr, friptr>>
  BY DEF Gets, inVars, srvVars, recvVars, selVars, bufVars
<1>2. nsent = nread /\ prog # "nonb" /\ (prog = "str_cli" \/ prog \in Twofold) /\ prog \notin Evented
      /\ prog # "select01"
  BY <1>0, <1>1, PlacesSplit DEF EndOfInput, Evented, Ordered, Twofold
<1>3. EchoPlaces' = EchoPlaces
  BY <1>1 DEF EchoPlaces
<1>4. CASE FgetsLine /\ pc' = "write" /\ UNCHANGED shut
  <2>1. nread' = nread + 1 /\ nread < typed
    BY <1>4 DEF FgetsLine
  <2>2. ~shut
    BY <1>0, <2>1 DEF EndOfInput, Stages
  <2>3. EchoTyped'
    BY <1>0, <1>1, <1>2, <1>3, <1>4 DEF EchoTyped, EchoPlaces
  <2>4. Stages'
    BY <1>0, <1>1, <2>1 DEF Stages
  <2>5. EndOfInput'
    BY <1>0, <1>1, <1>2, <1>4, <2>1, <2>2 DEF EndOfInput, Stages
  <2>6. Endings'
    BY <1>4 DEF Endings
  <2>7. OneLine'
    BY <1>0, <1>1, <1>4, <2>1 DEF OneLine, Stages
  <2> QED BY <1>1, <1>2, <2>3, <2>4, <2>5, <2>6, <2>7, NotNonblocking DEF EchoInv
<1>5. CASE /\ FgetsNull
           /\ shut' = (prog \in Twofold /\ Shutdown)
           /\ pc' = CASE prog = "str_cli" -> "end"
                      [] prog = "thread2" -> "setdone"
                      [] OTHER -> "pause"
  <2>1. nread' = nread /\ nread = typed /\ eof
    BY <1>5 DEF FgetsNull, readVars
  <2>2. /\ prog = "str_cli" => pc' = "end" /\ ~shut'
        /\ prog \in Twofold => pc' \in {"setdone", "pause"} /\ shut'
    BY <1>5 DEF Shutdown, Twofold
  <2>3. EchoTyped'
    BY <1>0, <1>1, <1>2, <1>3, <2>2 DEF EchoTyped, EchoPlaces, Ended, Twofold
  <2>4. Stages'
    BY <1>0, <1>1, <2>1 DEF Stages
  <2>5. sfin' /\ ~died' => shut' /\ nback' = nsent'
    BY <1>0, <1>1, <1>2, <2>2 DEF EndOfInput
  <2>6. EndOfInput'
    BY <1>0, <1>1, <1>2, <2>1, <2>2, <2>5 DEF EndOfInput
  <2>7. Endings'
    BY <1>0, <1>1, <1>2, <2>1, <2>2 DEF Endings, OneLine
  <2>8. OneLine'
    BY <1>1, <1>2, <2>2 DEF OneLine, Twofold
  <2> QED BY <1>1, <1>2, <2>3, <2>4, <2>6, <2>7, <2>8, NotNonblocking DEF EchoInv
<1> QED BY <1>4, <1>5 DEF Gets

LEMMA SetDoneKeeps == ASSUME EchoInv, SetDone PROVE EchoInv'
<1>0. EchoTyped /\ Stages /\ EndOfInput /\ Endings /\ OneLine /\ Nonblocking
  BY DEF EchoInv
<1>1. /\ pc = "setdone" /\ pc' = "pause"
      /\ UNCHANGED <<prog, sizes, typed, eof, nserved, nback, sfin, died, nread, nsent, shut, nrecv, nout, rpc,
                     rset, isfile>>
  BY DEF SetDone, inVars, srvVars, readVars, recvVars, selVars, bufVars
<1>2. prog \in Twofold /\ prog # "nonb" /\ prog \notin Evented /\ prog # "str_cli" /\ nsent = nread
  BY <1>0, <1>1, PlacesSplit DEF EndOfInput
<1>3. EchoPlaces' = EchoPlaces /\ "pause" \in EchoPlaces
  BY <1>1, <1>2 DEF EchoPlaces
<1>4. EchoTyped'
  BY <1>0, <1>1, <1>3 DEF EchoTyped
<1>5. Stages' /\ EndOfInput' /\ Endings' /\ OneLine'
  BY <1>0, <1>1, <1>2 DEF Stages, EndOfInput, Endings, OneLine
<1> QED BY <1>1, <1>2, <1>4, <1>5, NotNonblocking DEF EchoInv

LEMMA WriteKeeps == ASSUME EchoInv, Write PROVE EchoInv'
<1>0. EchoTyped /\ Stages /\ EndOfInput /\ Endings /\ OneLine /\ Nonblocking
  BY DEF EchoInv
<1>1. /\ pc = "write"
      /\ UNCHANGED <<prog, sizes, typed, eof, nserved, nback, sfin, died, nread, nrecv, nout, rpc, rset, isfile>>
  BY DEF Write, inVars, srvVars, readVars, recvVars, selVars, bufVars
<1>2. prog # "nonb" /\ nsent < nread /\ ~shut
  BY <1>0, <1>1, PlacesSplit DEF EndOfInput, Stages
<1>3. EchoPlaces' = EchoPlaces /\ "error" \in EchoPlaces
  BY <1>1 DEF EchoPlaces, Ended
<1>4. CASE WriteError /\ pc' = "error" /\ UNCHANGED <<stdineof, shut>>
  <2>1. UNCHANGED nsent
    BY <1>4 DEF WriteError
  <2>2. EchoTyped'
    BY <1>0, <1>1, <1>3, <1>4 DEF EchoTyped
  <2>3. Stages' /\ EndOfInput' /\ Endings' /\ OneLine'
    BY <1>0, <1>1, <1>2, <1>4, <2>1 DEF Stages, EndOfInput, Endings, OneLine
  <2> QED BY <1>1, <1>2, <2>2, <2>3, NotNonblocking DEF EchoInv
<1>5. CASE /\ WriteOk
           /\ pc' = IF nsent + 1 = nread THEN AfterWrite ELSE "write"
           /\ stdineof' = (stdineof \/ (nsent + 1 = nread /\ isfile /\ nread = typed))
           /\ shut' = (shut \/ (nsent + 1 = nread /\ isfile /\ nread = typed))
  <2>1. nsent' = nsent + 1 /\ (died \/ nsent - nserved < CAP)
    BY <1>5 DEF WriteOk
  <2>2. AfterWrite \in {"read", "gets", "events", "select"} \cap EchoPlaces
        /\ (prog = "str_cli" => AfterWrite = "read")
    BY <1>0, <1>2 DEF AfterWrite, EchoPlaces, EchoTyped, Versions, Evented, Ordered, Twofold
  <2>3. pc' \in EchoPlaces
    BY <1>0, <1>1, <1>5, <2>2 DEF EchoTyped
  <2>4. EchoTyped'
    BY <1>0, <1>1, <1>3, <2>3 DEF EchoTyped
  <2>5. Stages'
    BY <1>0, <1>1, <1>2, <2>1, EchoConstants DEF Stages
  <2>6. sfin' => died'
    BY <1>0, <1>1, <1>2 DEF EndOfInput
  <2>7. shut' => nsent' = nread' /\ nread' = typed' /\ eof' /\ prog' # "str_cli" /\ stdineof'
    BY <1>0, <1>1, <1>2, <1>5, <2>1 DEF EchoTyped
  <2>8. IF nsent + 1 = nread THEN pc' \in {"read", "gets", "events", "select"}
                             ELSE pc' = "write" /\ nsent + 1 < nread
    BY <1>0, <1>2, <1>5, <2>2 DEF Stages
  <2>9. EndOfInput'
    BY <1>1, <2>1, <2>6, <2>7, <2>8 DEF EndOfInput
  <2>10. Endings'
    BY <2>8 DEF Endings
  <2>11. OneLine'
    BY <1>0, <1>1, <1>5, <2>2, <2>8 DEF OneLine
  <2> QED BY <1>1, <1>2, <2>4, <2>5, <2>9, <2>10, <2>11, NotNonblocking DEF EchoInv
<1> QED BY <1>4, <1>5 DEF Write

\* Readline() and read() take what is there and no more.
LEMMA TakesSome ==
  ASSUME EchoTyped, Stages, NEW room \in Nat \ {0}, nback > nrecv
  PROVE  LET taken == nrecv + Least(room, nback - nrecv)
         IN  taken \in Nat /\ nrecv < taken /\ taken <= nback /\ taken <= nrecv + room
<1>1. nback - nrecv \in Int /\ nback - nrecv > 0
  BY DEF Stages
<1>2. PICK n \in Int : n = Least(room, nback - nrecv) /\ n > 0 /\ n <= nback - nrecv /\ n <= room
  BY <1>1, LeastOf
<1> QED BY <1>2 DEF Stages

LEMMA ReadsLine ==
  ASSUME EchoTyped, Stages, ReadlineLine
  PROVE  /\ nrecv' \in Nat /\ nout' \in Nat /\ nrecv <= nrecv' /\ nrecv' <= nback
         /\ nout' = nout + 1 /\ nout' <= nrecv'
<1>1. CASE nrecv > nout
  BY <1>1 DEF ReadlineLine, Stages
<1>2. CASE ~(nrecv > nout)
  <2>1. nrecv = nout /\ nback > nrecv /\ MAXLINE \in Nat \ {0}
    BY <1>2 DEF ReadlineLine, Stages, EchoTyped, MAXLINE
  <2>2. nrecv' = nrecv + Least(MAXLINE, nback - nrecv) /\ nout' = nout + 1
    BY <1>2 DEF ReadlineLine
  <2> QED BY <2>1, <2>2, TakesSome DEF Stages
<1> QED BY <1>1, <1>2

LEMMA ReadKeeps == ASSUME EchoInv, Read PROVE EchoInv'
<1>0. EchoTyped /\ Stages /\ EndOfInput /\ Endings /\ OneLine /\ Nonblocking
  BY DEF EchoInv
<1>1. /\ pc = "read"
      /\ UNCHANGED <<prog, sizes, typed, eof, nserved, nback, sfin, died, nread, nsent, shut, rpc, stdineof,
                     rset, isfile>>
  BY DEF Read, inVars, srvVars, readVars, selVars, bufVars
<1>2. prog = "str_cli" /\ nsent = nread /\ nrecv = nread - 1 /\ nout = nread - 1 /\ ~shut
  BY <1>0, <1>1, PlacesSplit DEF EndOfInput, OneLine
<1>3. EchoPlaces' = EchoPlaces /\ {"gets", "quit", "error"} \subseteq EchoPlaces
  BY <1>1, <1>2 DEF EchoPlaces, Ended
<1>4. CASE ReadlineLine /\ pc' = "gets"
  <2>1. /\ nrecv' \in Nat /\ nout' \in Nat /\ nrecv <= nrecv' /\ nrecv' <= nback
        /\ nout' = nout + 1 /\ nout' <= nrecv'
    BY <1>0, <1>4, ReadsLine
  <2>2. nrecv' = nread /\ nout' = nread
    BY <1>0, <1>2, <2>1 DEF Stages
  <2>3. EchoTyped'
    BY <1>0, <1>1, <1>3, <1>4 DEF EchoTyped
  <2>4. Stages'
    BY <1>0, <1>1, <2>1 DEF Stages
  <2>5. EndOfInput' /\ Endings' /\ OneLine'
    BY <1>0, <1>1, <1>2, <1>4, <2>2 DEF EndOfInput, Endings, OneLine
  <2> QED BY <1>1, <1>2, <2>3, <2>4, <2>5, NotNonblocking DEF EchoInv
<1>5. CASE /\ \/ ReadlineEof /\ pc' = "quit"
              \/ ReadlineError /\ pc' = "error"
           /\ UNCHANGED recvVars
  <2>1. UNCHANGED <<nrecv, nout>> /\ pc' \in {"quit", "error"} /\ (pc' = "quit" => sfin)
    BY <1>5 DEF recvVars, ReadlineEof
  <2>2. pc' = "quit" => died
    BY <1>0, <1>2, <2>1 DEF EndOfInput
  <2>3. EchoTyped'
    BY <1>0, <1>1, <1>3, <2>1 DEF EchoTyped
  <2>4. Stages'
    BY <1>0, <1>1, <2>1 DEF Stages
  <2>5. EndOfInput' /\ Endings' /\ OneLine'
    BY <1>0, <1>1, <1>2, <2>1, <2>2 DEF EndOfInput, Endings, OneLine
  <2> QED BY <1>1, <1>2, <2>3, <2>4, <2>5, NotNonblocking DEF EchoInv
<1> QED BY <1>4, <1>5 DEF Read

\* When the end of the connection is read, every line has come back, unless the server
\* was killed.
LEMMA AllBack ==
  ASSUME Stages, EndOfInput, sfin, nback = nrecv, ~died
  PROVE  shut /\ eof /\ nrecv = typed
BY DEF Stages, EndOfInput

LEMMA ReaderKeeps == ASSUME EchoInv, Reader PROVE EchoInv'
<1>0. EchoTyped /\ Stages /\ EndOfInput /\ Endings /\ OneLine /\ Nonblocking
  BY DEF EchoInv
<1>1. /\ rpc = "rd" /\ (prog = "fork" \/ pc \notin Ended)
      /\ UNCHANGED <<prog, sizes, typed, eof, nserved, nback, sfin, died, nread, nsent, shut, stdineof,
                     rset, isfile>>
  BY DEF Reader, inVars, srvVars, readVars, selVars, bufVars
<1>2. prog \in Twofold /\ prog # "nonb" /\ prog # "str_cli" /\ prog \notin Evented /\ prog # "select01"
  BY <1>0, <1>1, PlacesSplit DEF EchoTyped, Evented, Ordered
<1>3. EchoPlaces' = EchoPlaces /\ Ended \subseteq EchoPlaces
  BY <1>1, <1>2 DEF EchoPlaces
<1>4. CASE ReadlineLine /\ UNCHANGED <<pc, rpc>>
  <2>1. /\ nrecv' \in Nat /\ nout' \in Nat /\ nrecv <= nrecv' /\ nrecv' <= nback
        /\ nout' = nout + 1 /\ nout' <= nrecv'
    BY <1>0, <1>4, ReadsLine
  <2>2. EchoTyped'
    BY <1>0, <1>1, <1>3, <1>4 DEF EchoTyped
  <2>3. Stages'
    BY <1>0, <1>1, <2>1 DEF Stages
  <2>4. EndOfInput' /\ OneLine'
    BY <1>0, <1>1, <1>2, <1>4 DEF EndOfInput, OneLine
  <2>5. pc = "end" /\ ~died => FALSE
    BY <1>0, <1>2, <2>1 DEF Endings, Stages
  <2>6. Endings'
    BY <1>0, <1>1, <1>4, <2>5 DEF Endings
  <2> QED BY <1>1, <1>2, <2>2, <2>3, <2>4, <2>6, NotNonblocking DEF EchoInv
<1>5. ASSUME UNCHANGED <<nrecv, nout>>, rpc' = "gone", pc' \in Ended \cup {pc},
             pc' = "quit" /\ prog # "thread2" => died \/ pc = "quit",
             pc' = "end" /\ ~died => pc = "end" \/ (eof /\ nrecv = typed /\ nout = typed)
      PROVE  EchoInv'
  <2>1. pc' \in EchoPlaces
    BY <1>0, <1>3, <1>5 DEF EchoTyped
  <2>2. EchoTyped'
    BY <1>0, <1>1, <1>3, <1>5, <2>1 DEF EchoTyped
  <2>3. Stages'
    BY <1>0, <1>1, <1>5 DEF Stages
  <2>4. EndOfInput'
    BY <1>0, <1>1, <1>2, <1>5 DEF EndOfInput, Ended
  <2>5. Endings' /\ OneLine'
    BY <1>0, <1>1, <1>2, <1>5 DEF Endings, OneLine
  <2> QED BY <1>1, <1>2, <2>2, <2>3, <2>4, <2>5, NotNonblocking DEF EchoInv
<1>6. CASE /\ ReadlineEof /\ rpc' = "gone" /\ UNCHANGED recvVars
           /\ pc' = CASE pc \in Ended -> pc
                      [] prog = "thread2" /\ ~stdineof -> "quit"
                      [] OTHER -> "end"
  <2>1. sfin /\ nback = nrecv /\ nrecv = nout /\ UNCHANGED <<nrecv, nout>>
    BY <1>6 DEF ReadlineEof, recvVars
  <2>2. ~died => eof /\ nrecv = typed /\ nout = typed
    BY <1>0, <2>1, AllBack
  <2>3. \/ pc \in Ended /\ pc' = pc
        \/ pc \notin Ended /\ prog = "thread2" /\ ~stdineof /\ pc' = "quit"
        \/ pc \notin Ended /\ ~(prog = "thread2" /\ ~stdineof) /\ pc' = "end"
    <3>1. ~(pc \in Ended /\ prog = "thread2")
      BY <1>1
    <3> QED BY <1>6, <3>1
  <2> QED BY <1>5, <1>6, <2>1, <2>2, <2>3 DEF Ended
<1>7. CASE /\ ReadlineError /\ rpc' = "gone" /\ UNCHANGED recvVars
           /\ pc' = IF prog = "fork" THEN pc ELSE "error"
  BY <1>5, <1>7 DEF recvVars, Ended
<1> QED BY <1>4, <1>6, <1>7 DEF Reader

LEMMA SelectKeeps == ASSUME EchoInv, Select PROVE EchoInv'
<1>0. EchoTyped /\ Stages /\ EndOfInput /\ Endings /\ OneLine /\ Nonblocking
  BY DEF EchoInv
<1>1. /\ pc = "select" /\ pc' = "events" /\ prog \in Evented
      /\ UNCHANGED <<prog, sizes, typed, eof, nserved, nback, sfin, died, nread, nsent, shut, nrecv, nout, rpc,
                     stdineof, isfile>>
  BY DEF Select, inVars, srvVars, readVars, recvVars, bufVars
<1>2. prog # "nonb" /\ prog # "str_cli" /\ prog \notin Twofold
  BY <1>0, <1>1, PlacesSplit
<1>3. EchoPlaces' = EchoPlaces /\ "events" \in EchoPlaces
  BY <1>1, <1>2 DEF EchoPlaces
<1>4. EchoTyped'
  BY <1>0, <1>1, <1>3 DEF EchoTyped
<1>5. Stages' /\ EndOfInput' /\ Endings' /\ OneLine'
  BY <1>0, <1>1, <1>2 DEF Stages, EndOfInput, Endings, OneLine
<1> QED BY <1>1, <1>2, <1>4, <1>5, NotNonblocking DEF EchoInv

LEMMA SockEventKeeps == ASSUME EchoInv, SockEvent PROVE EchoInv'
<1>0. EchoTyped /\ Stages /\ EndOfInput /\ Endings /\ OneLine /\ Nonblocking
  BY DEF EchoInv
<1>1. /\ pc = "events"
      /\ UNCHANGED <<prog, sizes, typed, eof, nserved, nback, sfin, died, nread, nsent, shut, rpc, stdineof,
                     isfile>>
  BY DEF SockEvent, inVars, srvVars, readVars, bufVars
<1>2. prog \in Evented /\ prog # "nonb" /\ prog # "str_cli" /\ prog \notin Twofold /\ prog # "thread2"
  BY <1>0, <1>1, PlacesSplit DEF Twofold
<1>3. EchoPlaces' = EchoPlaces /\ {"select", "events"} \cup Ended \subseteq EchoPlaces
  BY <1>1, <1>2 DEF EchoPlaces
<1>4. ASSUME /\ nrecv' \in Nat /\ nout' \in Nat /\ nrecv <= nrecv' /\ nrecv' <= nback
             /\ nout' <= nrecv',
             pc' \in {"select", "events"}
      PROVE  EchoInv'
  <2>1. EchoTyped'
    BY <1>0, <1>1, <1>3, <1>4 DEF EchoTyped
  <2>2. Stages'
    BY <1>0, <1>1, <1>4 DEF Stages
  <2>3. EndOfInput' /\ Endings' /\ OneLine'
    BY <1>0, <1>1, <1>2, <1>4 DEF EndOfInput, Endings, OneLine
  <2> QED BY <1>1, <1>2, <2>1, <2>2, <2>3, NotNonblocking DEF EchoInv
<1>5. ASSUME UNCHANGED <<nrecv, nout>>, pc' \in Ended, pc' = "quit" => died,
             pc' = "end" /\ ~died => eof /\ nrecv = typed /\ nout = typed
      PROVE  EchoInv'
  <2>1. EchoTyped'
    BY <1>0, <1>1, <1>3, <1>5 DEF EchoTyped
  <2>2. Stages'
    BY <1>0, <1>1, <1>5 DEF Stages
  <2>3. EndOfInput'
    BY <1>0, <1>1, <1>2, <1>5 DEF EndOfInput, Ended
  <2>4. Endings' /\ OneLine'
    BY <1>0, <1>1, <1>2, <1>5 DEF Endings, OneLine
  <2> QED BY <1>1, <1>2, <2>1, <2>2, <2>3, <2>4, NotNonblocking DEF EchoInv
<1>6. CASE prog \in Lined /\ ReadlineLine /\ pc' = AfterEvent(rset')
  BY <1>0, <1>4, <1>6, ReadsLine DEF AfterEvent
<1>7. CASE /\ prog \notin Lined /\ nback > nrecv /\ pc' = AfterEvent(rset')
           /\ nrecv' = nrecv + Least(MAXLINE, nback - nrecv) /\ nout' = nrecv'
  <2>1. MAXLINE \in Nat \ {0}
    BY <1>0 DEF EchoTyped, MAXLINE
  <2>2. nrecv' \in Nat /\ nrecv < nrecv' /\ nrecv' <= nback
    BY <1>0, <1>7, <2>1, TakesSome
  <2> QED BY <1>0, <1>4, <1>7, <2>2 DEF AfterEvent, Stages
<1>8. CASE ReadlineEof /\ UNCHANGED recvVars /\ pc' = AtServerEof
  <2>1. sfin /\ nback = nrecv /\ nrecv = nout /\ UNCHANGED <<nrecv, nout>>
    BY <1>8 DEF ReadlineEof, recvVars
  <2>2. ~died => shut /\ eof /\ nrecv = typed /\ nout = typed
    BY <1>0, <2>1, AllBack
  <2>3. ~died => stdineof
    BY <1>0, <1>2, <2>2 DEF EndOfInput
  <2> QED BY <1>5, <1>8, <2>1, <2>2, <2>3 DEF AtServerEof, Ended
<1>9. CASE ReadlineError /\ pc' = "error" /\ UNCHANGED recvVars
  BY <1>5, <1>9 DEF recvVars, Ended
<1> QED BY <1>6, <1>7, <1>8, <1>9 DEF SockEvent

\* read() from standard input.
LEMMA ReadsStdin ==
  ASSUME EchoTyped, Stages, NEW size \in Int, ReadStdin(size)
  PROVE  /\ nread' \in Nat /\ nread < nread' /\ nread' <= typed /\ nread' - nread <= size
<1>1. PICK n \in 1 .. Least(size, typed - nread) : nread' = nread + n
  BY DEF ReadStdin
<1>2. typed - nread \in Int
  BY DEF Stages
<1>3. Least(size, typed - nread) \in Int /\ Least(size, typed - nread) <= size
      /\ Least(size, typed - nread) <= typed - nread
  BY <1>2, LeastOf
<1>4. n \in Int /\ 1 <= n /\ n <= size /\ n <= typed - nread
  BY <1>1, <1>2, <1>3
<1> QED BY <1>1, <1>4 DEF Stages

LEMMA StdinEventKeeps == ASSUME EchoInv, StdinEvent PROVE EchoInv'
<1>0. EchoTyped /\ Stages /\ EndOfInput /\ Endings /\ OneLine /\ Nonblocking
  BY DEF EchoInv
<1>1. /\ pc = "events"
      /\ UNCHANGED <<prog, sizes, typed, eof, nserved, nback, sfin, died, nsent, nrecv, nout, rpc, isfile>>
  BY DEF StdinEvent, inVars, srvVars, recvVars, bufVars
<1>2. /\ prog \in Evented /\ prog # "nonb" /\ prog # "str_cli" /\ prog \notin Twofold /\ prog # "thread2"
      /\ nsent = nread
  BY <1>0, <1>1, PlacesSplit DEF Twofold, EndOfInput
<1>3. EchoPlaces' = EchoPlaces /\ {"select", "events", "write"} \cup Ended \subseteq EchoPlaces
  BY <1>1, <1>2 DEF EchoPlaces
<1>4. CASE /\ IF prog \in Lined THEN FgetsLine ELSE ReadStdin(MAXLINE)
           /\ pc' = "write" /\ UNCHANGED <<stdineof, shut>>
  <2>1. nread' \in Nat /\ nread < nread' /\ nread' <= typed
    <3>1. CASE FgetsLine
      BY <1>0, <3>1 DEF FgetsLine, Stages
    <3>2. CASE ReadStdin(MAXLINE)
      <4>1. MAXLINE \in Int
        BY <1>0 DEF EchoTyped, MAXLINE
      <4> QED BY <1>0, <3>2, <4>1, ReadsStdin
    <3> QED BY <1>4, <3>1, <3>2
  <2>2. ~shut
    BY <1>0, <2>1 DEF EndOfInput, Stages
  <2>3. EchoTyped'
    BY <1>0, <1>1, <1>3, <1>4 DEF EchoTyped
  <2>4. Stages'
    BY <1>0, <1>1, <1>2, <2>1 DEF Stages
  <2>5. EndOfInput'
    BY <1>0, <1>1, <1>2, <1>4, <2>1, <2>2 DEF EndOfInput
  <2>6. Endings' /\ OneLine'
    BY <1>1, <1>2, <1>4 DEF Endings, OneLine
  <2> QED BY <1>1, <1>2, <2>3, <2>4, <2>5, <2>6, NotNonblocking DEF EchoInv
<1>5. CASE FgetsNull /\ prog = "select01" /\ pc' = "end" /\ UNCHANGED <<stdineof, shut>>
  <2>1. UNCHANGED nread
    BY <1>5 DEF FgetsNull, readVars
  <2>3. EchoTyped'
    BY <1>0, <1>1, <1>3, <1>5 DEF EchoTyped, Ended
  <2>4. Stages' /\ EndOfInput' /\ Endings' /\ OneLine'
    BY <1>0, <1>1, <1>2, <1>5, <2>1 DEF Stages, EndOfInput, Endings, OneLine
  <2> QED BY <1>1, <1>2, <2>3, <2>4, NotNonblocking DEF EchoInv
<1>6. CASE /\ FgetsNull /\ prog # "select01"
           /\ stdineof' = TRUE /\ shut' = Shutdown
           /\ pc' = IF shut /\ sfin THEN "error" ELSE AfterEvent(rset')
  <2>1. UNCHANGED nread /\ nread = typed /\ eof /\ shut' /\ stdineof'
    BY <1>6 DEF FgetsNull, readVars, Shutdown
  <2>2. pc' \in {"error", "select", "events"}
    BY <1>6 DEF AfterEvent
  <2>3. EchoTyped'
    BY <1>0, <1>1, <1>3, <2>2 DEF EchoTyped, Ended
  <2>4. Stages'
    BY <1>0, <1>1, <2>1 DEF Stages
  <2>5. EndOfInput'
    BY <1>0, <1>1, <1>2, <2>1, <2>2 DEF EndOfInput
  <2>6. Endings' /\ OneLine'
    BY <1>1, <1>2, <2>2 DEF Endings, OneLine
  <2> QED BY <1>1, <1>2, <2>3, <2>4, <2>5, <2>6, NotNonblocking DEF EchoInv
<1> QED BY <1>4, <1>5, <1>6 DEF StdinEvent

\* The pointers of a buffer: n lines leave it, and it starts anew when it is empty.
LEMMA BufferKept ==
  ASSUME NEW a \in Nat, NEW b \in Nat, NEW c \in Nat, NEW p \in Nat, NEW n \in Nat,
         a - b <= p, c = b + n, c <= a
  PROVE  LET r == IF n > 0 /\ c = a THEN 0 ELSE p IN r \in Nat /\ a - c <= r
<1>1. CASE n > 0 /\ c = a
  BY <1>1
<1>2. CASE ~(n > 0 /\ c = a)
  BY <1>2
<1> QED BY <1>1, <1>2

LEMMA BufferEmpty ==
  ASSUME NEW a \in Nat, NEW b \in Nat, NEW p \in Nat, p - (a - b) = p
  PROVE  a = b
OBVIOUS

\* strclinonb: what is not about its own variables.
LEMMA NonblockingPlaces ==
  ASSUME EchoInv, prog = "nonb", pc \in {"select", "nstdin", "nsock", "nout", "nwrite"},
         UNCHANGED <<prog, sizes, typed, eof, nserved, nback, sfin, died, rpc, isfile>>,
         pc' \in {"select", "nstdin", "nsock", "nout", "nwrite"} \cup Ended,
         pc' = "quit" => died, pc' = "end" /\ ~died => eof /\ nrecv' = typed
  PROVE  EchoTyped' /\ Endings' /\ OneLine'
<1>1. EchoPlaces' = {"select", "nstdin", "nsock", "nout", "nwrite"} \cup Ended
  BY DEF EchoPlaces, Twofold, Evented, Ordered
<1>2. EchoTyped'
  BY <1>1 DEF EchoInv, EchoTyped
<1> QED BY <1>2 DEF Endings, OneLine

LEMMA NbSelectKeeps == ASSUME EchoInv, NbSelect PROVE EchoInv'
<1>0. EchoTyped /\ Stages /\ EndOfInput /\ Endings /\ OneLine /\ Nonblocking
  BY DEF EchoInv
<1>1. /\ pc = "select" /\ pc' = "nstdin" /\ prog = "nonb"
      /\ UNCHANGED <<prog, sizes, typed, eof, nserved, nback, sfin, died, nread, nsent, shut, nrecv, nout, rpc,
                     stdineof, isfile, toiptr, friptr>>
  BY DEF NbSelect, inVars, srvVars, readVars, recvVars, bufVars
<1>2. /\ "stdin" \in rset' => ~stdineof
      /\ "sock" \in rset' => friptr < MAXLINE /\ (nback > nrecv \/ sfin)
  BY DEF NbSelect, SockReady
<1>3. EchoTyped' /\ Endings' /\ OneLine'
  BY <1>1, NonblockingPlaces
<1>4. Stages' /\ EndOfInput'
  BY <1>0, <1>1 DEF Stages, EndOfInput
<1>5. Nonblocking'
  BY <1>0, <1>1, <1>2 DEF Nonblocking, MAXLINE
<1> QED BY <1>3, <1>4, <1>5 DEF EchoInv

LEMMA NbStdinKeeps == ASSUME EchoInv, NbStdin PROVE EchoInv'
<1>0. EchoTyped /\ Stages /\ EndOfInput /\ Endings /\ OneLine /\ Nonblocking
  BY DEF EchoInv
<1>1. /\ pc = "nstdin" /\ pc' = "nsock"
      /\ UNCHANGED <<prog, sizes, typed, eof, nserved, nback, sfin, died, nsent, nrecv, nout, rpc,
                     rset, isfile, friptr>>
  BY DEF NbStdin, inVars, srvVars, recvVars
<1>2. prog = "nonb" /\ MAXLINE' = MAXLINE
  BY <1>0, <1>1, PlacesSplit DEF MAXLINE
<1>3. EchoTyped' /\ Endings' /\ OneLine'
  BY <1>1, <1>2, NonblockingPlaces
<1>4. CASE UNCHANGED <<readVars, stdineof, shut, toiptr>>
  BY <1>0, <1>1, <1>2, <1>3, <1>4 DEF EchoInv, Stages, EndOfInput, Nonblocking, readVars
<1>5. CASE /\ "stdin" \in rset /\ ReadStdin(MAXLINE - toiptr)
           /\ toiptr' = toiptr + (nread' - nread) /\ UNCHANGED <<stdineof, shut>>
  <2>1. MAXLINE - toiptr \in Int
    BY <1>0, <1>2 DEF EchoTyped, MAXLINE, Nonblocking
  <2>2. nread' \in Nat /\ nread < nread' /\ nread' <= typed
    BY <1>0, <1>5, <2>1, ReadsStdin
  <2>3. ~stdineof /\ ~shut
    BY <1>0, <1>1, <1>2, <1>5 DEF Nonblocking, EndOfInput
  <2>4. Stages'
    BY <1>0, <1>1, <2>2 DEF Stages
  <2>5. EndOfInput'
    BY <1>0, <1>1, <1>2, <1>5, <2>3 DEF EndOfInput
  <2>6. toiptr' \in Nat /\ nread' - nsent <= toiptr'
    BY <1>0, <1>2, <1>5, <2>2 DEF Nonblocking, Stages
  <2>7. Nonblocking'
    BY <1>0, <1>1, <1>2, <1>5, <2>3, <2>6 DEF Nonblocking
  <2> QED BY <1>3, <2>4, <2>5, <2>7 DEF EchoInv
<1>6. CASE /\ "stdin" \in rset /\ FgetsNull /\ stdineof' = TRUE
           /\ shut' = (tooptr = toiptr /\ Shutdown) /\ UNCHANGED toiptr
  <2>1. UNCHANGED nread /\ nread = typed /\ eof /\ stdineof'
    BY <1>6 DEF FgetsNull, readVars
  <2>2. ~stdineof /\ ~shut
    BY <1>0, <1>1, <1>2, <1>6 DEF Nonblocking, EndOfInput
  <2>3. shut' => nsent = nread
    <3>1. shut' => toiptr - (nread - nsent) = toiptr
      BY <1>6 DEF tooptr, Shutdown
    <3>2. nread \in Nat /\ nsent \in Nat /\ toiptr \in Nat
      BY <1>0, <1>2 DEF Nonblocking, Stages
    <3> QED BY <3>1, <3>2, BufferEmpty
  <2>4. Stages'
    BY <1>0, <1>1, <2>1 DEF Stages
  <2>5. sfin => died
    BY <1>0, <2>2 DEF EndOfInput
  <2>6. EndOfInput'
    BY <1>0, <1>1, <1>2, <2>1, <2>3, <2>5 DEF EndOfInput
  <2>7. Nonblocking'
    BY <1>0, <1>1, <1>2, <1>6, <2>1 DEF Nonblocking
  <2> QED BY <1>3, <2>4, <2>6, <2>7 DEF EchoInv
<1> QED BY <1>4, <1>5, <1>6 DEF NbStdin

LEMMA NbSockKeeps == ASSUME EchoInv, NbSock PROVE EchoInv'
<1>0. EchoTyped /\ Stages /\ EndOfInput /\ Endings /\ OneLine /\ Nonblocking
  BY DEF EchoInv
<1>1. /\ pc = "nsock"
      /\ UNCHANGED <<prog, sizes, typed, eof, nserved, nback, sfin, died, nread, nsent, shut, nout, rpc,
                     stdineof, rset, isfile, toiptr>>
  BY DEF NbSock, inVars, srvVars, readVars
<1>2. prog = "nonb" /\ MAXLINE \in Nat
  BY <1>0, <1>1, PlacesSplit DEF MAXLINE, EchoTyped
<1>3. ASSUME UNCHANGED <<nrecv, friptr>>, pc' \in {"nout"} \cup Ended,
             pc' = "quit" => died, pc' = "end" /\ ~died => eof /\ nrecv = typed
      PROVE  EchoInv'
  <2>1. EchoTyped' /\ Endings' /\ OneLine'
    BY <1>1, <1>2, <1>3, NonblockingPlaces
  <2>2. Stages'
    BY <1>0, <1>1, <1>3 DEF Stages
  <2>3. EndOfInput' /\ Nonblocking'
    BY <1>0, <1>1, <1>2, <1>3 DEF EndOfInput, Nonblocking, Ended
  <2> QED BY <2>1, <2>2, <2>3 DEF EchoInv
<1>4. CASE "sock" \notin rset /\ pc' = "nout" /\ UNCHANGED <<nrecv, friptr, wset>>
  BY <1>3, <1>4
<1>5. CASE /\ "sock" \in rset /\ nback > nrecv /\ pc' = "nout"
           /\ nrecv' = nrecv + Least(MAXLINE - friptr, nback - nrecv)
           /\ friptr' = friptr + (nrecv' - nrecv) /\ wset' = wset \cup {"stdout"}
  <2>1. PICK room : room = MAXLINE - friptr
    OBVIOUS
  <2>2. room \in Nat \ {0}
    BY <1>0, <1>1, <1>2, <1>5, <2>1 DEF Nonblocking
  <2>3. nrecv' \in Nat /\ nrecv < nrecv' /\ nrecv' <= nback
    BY <1>0, <1>5, <2>1, <2>2, TakesSome
  <2>4. EchoTyped' /\ Endings' /\ OneLine'
    BY <1>1, <1>2, <1>5, NonblockingPlaces
  <2>5. Stages'
    BY <1>0, <1>1, <2>3 DEF Stages
  <2>6. EndOfInput'
    BY <1>0, <1>1, <1>2, <1>5 DEF EndOfInput
  <2>7. friptr' \in Nat /\ nrecv' - nout <= friptr'
    BY <1>0, <1>2, <1>5, <2>3 DEF Nonblocking, Stages
  <2>8. Nonblocking'
    BY <1>0, <1>1, <1>2, <1>5, <2>7 DEF Nonblocking
  <2> QED BY <2>4, <2>5, <2>6, <2>8 DEF EchoInv
<1>6. CASE "sock" \in rset /\ nback = nrecv /\ UNCHANGED <<nrecv, friptr, wset>> /\ pc' = AtServerEof
  <2>1. sfin
    BY <1>0, <1>1, <1>2, <1>6 DEF Nonblocking, Stages
  <2>2. ~died => shut /\ eof /\ nrecv = typed
    BY <1>0, <1>6, <2>1, AllBack
  <2>3. ~died => stdineof
    BY <1>0, <1>2, <2>2 DEF EndOfInput
  <2> QED BY <1>3, <1>6, <2>2, <2>3 DEF AtServerEof, Ended
<1>7. CASE "sock" \in rset /\ rst /\ pc' = "error" /\ UNCHANGED <<nrecv, friptr, wset>>
  BY <1>3, <1>7 DEF Ended
<1> QED BY <1>4, <1>5, <1>6, <1>7 DEF NbSock

LEMMA NbOutKeeps == ASSUME EchoInv, NbOut PROVE EchoInv'
<1>0. EchoTyped /\ Stages /\ EndOfInput /\ Endings /\ OneLine /\ Nonblocking
  BY DEF EchoInv
<1>1. /\ pc = "nout" /\ pc' = "nwrite"
      /\ UNCHANGED <<prog, sizes, typed, eof, nserved, nback, sfin, died, nread, nsent, shut, nrecv, rpc,
                     stdineof, rset, isfile, toiptr>>
  BY DEF NbOut, inVars, srvVars, readVars, selVars
<1>2. prog = "nonb"
  BY <1>0, <1>1, PlacesSplit
<1>3. PICK n \in IF "stdout" \in wset THEN 0 .. nrecv - nout ELSE {0} :
        nout' = nout + n /\ friptr' = BackToStart(friptr, n, nout' = nrecv)
  BY DEF NbOut
<1>4. n \in Nat /\ n <= nrecv - nout /\ nout' = nout + n
  BY <1>0, <1>3 DEF Stages
<1>5. nout' \in Nat /\ nout' <= nrecv
  BY <1>0, <1>4 DEF Stages
<1>6. friptr' = IF n > 0 /\ nout' = nrecv THEN 0 ELSE friptr
  BY <1>3 DEF BackToStart
<1>7. friptr' \in Nat /\ nrecv - nout' <= friptr'
  <2>1. nrecv \in Nat /\ nout \in Nat /\ friptr \in Nat /\ nrecv - nout <= friptr
    BY <1>0, <1>2 DEF Nonblocking, Stages
  <2> QED BY <1>4, <1>5, <1>6, <2>1, BufferKept
<1>8. EchoTyped' /\ Endings' /\ OneLine'
  BY <1>1, <1>2, NonblockingPlaces
<1>9. Stages'
  BY <1>0, <1>1, <1>5 DEF Stages
<1>10. EndOfInput' /\ Nonblocking'
  BY <1>0, <1>1, <1>2, <1>7 DEF EndOfInput, Nonblocking
<1> QED BY <1>8, <1>9, <1>10 DEF EchoInv

LEMMA NbWriteKeeps == ASSUME EchoInv, NbWrite PROVE EchoInv'
<1>0. EchoTyped /\ Stages /\ EndOfInput /\ Endings /\ OneLine /\ Nonblocking
  BY DEF EchoInv
<1>1. /\ pc = "nwrite"
      /\ UNCHANGED <<prog, sizes, typed, eof, nserved, nback, sfin, died, nread, nrecv, nout, rpc,
                     stdineof, rset, isfile, friptr>>
  BY DEF NbWrite, inVars, srvVars, readVars, recvVars, selVars
<1>2. prog = "nonb"
  BY <1>0, <1>1, PlacesSplit
<1>3. CASE WriteError /\ pc' = "error" /\ UNCHANGED <<toiptr, shut>>
  <2>1. UNCHANGED nsent
    BY <1>3 DEF WriteError
  <2>2. EchoTyped' /\ Endings' /\ OneLine'
    BY <1>1, <1>2, <1>3, NonblockingPlaces DEF Ended
  <2>3. Stages'
    BY <1>0, <1>1, <2>1 DEF Stages
  <2>4. EndOfInput' /\ Nonblocking'
    BY <1>0, <1>1, <1>2, <1>3, <2>1 DEF EndOfInput, Nonblocking
  <2> QED BY <2>2, <2>3, <2>4 DEF EchoInv
<1>4. ASSUME pc' = "select",
             NEW n \in (IF "sock" \notin wset THEN {0}
                        ELSE IF died THEN {nread - nsent}
                        ELSE {Least(nread - nsent, CAP - (nsent - nserved))}),
             nsent' = nsent + n, toiptr' = BackToStart(toiptr, n, nsent' = nread),
             shut' = (shut \/ (n > 0 /\ nsent' = nread /\ stdineof /\ Shutdown))
      PROVE  EchoInv'
  <2>1. nread - nsent \in Nat /\ (~died => CAP - (nsent - nserved) \in Nat)
    BY <1>0, EchoConstants DEF Stages
  <2>2. n \in Nat /\ n <= nread - nsent /\ (~died => n <= CAP - (nsent - nserved))
    <3>1. CASE "sock" \notin wset \/ died
      BY <1>4, <2>1, <3>1
    <3>2. CASE ~("sock" \notin wset) /\ ~died
      <4>1. n = Least(nread - nsent, CAP - (nsent - nserved))
        BY <1>4, <3>2
      <4> QED BY <2>1, <3>2, <4>1, LeastOf
    <3> QED BY <3>1, <3>2
  <2>3. nsent' \in Nat /\ nsent <= nsent' /\ nsent' <= nread
    BY <1>0, <1>4, <2>2 DEF Stages
  <2>4. ~died => nsent' - nserved <= CAP
    BY <1>0, <1>4, <2>2, EchoConstants DEF Stages
  <2>5. Stages'
    BY <1>0, <1>1, <2>3, <2>4 DEF Stages
  <2>6. toiptr' = IF n > 0 /\ nsent' = nread THEN 0 ELSE toiptr
    BY <1>4 DEF BackToStart
  <2>7. toiptr' \in Nat /\ nread - nsent' <= toiptr'
    <3>1. nread \in Nat /\ nsent \in Nat /\ toiptr \in Nat /\ nread - nsent <= toiptr
      BY <1>0, <1>2 DEF Nonblocking, Stages
    <3> QED BY <1>4, <2>2, <2>3, <2>6, <3>1, BufferKept
  <2>8. shut' => nsent' = nread /\ nread = typed /\ eof /\ stdineof
    <3>1. CASE shut
      <4>1. nsent = nread /\ nread = typed /\ eof /\ stdineof
        BY <1>0, <1>2, <3>1 DEF EndOfInput
      <4>2. nsent \in Nat /\ nread \in Nat
        BY <1>0 DEF Stages
      <4>3. nsent' = nread
        BY <2>3, <4>1, <4>2
      <4> QED BY <4>1, <4>3
    <3>2. CASE ~shut
      <4>1. shut' => nsent' = nread /\ stdineof
        BY <1>4, <3>2
      <4> QED BY <1>0, <1>2, <4>1 DEF Nonblocking
    <3> QED BY <3>1, <3>2
  <2>9. sfin /\ ~died => shut' /\ nback = nsent'
    <3> SUFFICES ASSUME sfin, ~died PROVE shut' /\ nback = nsent'
      OBVIOUS
    <3>1. shut /\ nback = nsent /\ nsent = nread
      BY <1>0 DEF EndOfInput
    <3>2. shut'
      BY <1>4, <3>1
    <3>3. nsent \in Nat /\ nread \in Nat
      BY <1>0 DEF Stages
    <3>4. nsent' = nsent
      BY <2>3, <3>1, <3>3
    <3> QED BY <3>1, <3>2, <3>4
  <2>10. EndOfInput'
    BY <1>0, <1>1, <1>2, <1>4, <2>8, <2>9 DEF EndOfInput
  <2>11. Nonblocking'
    BY <1>0, <1>1, <1>2, <1>4, <2>7 DEF Nonblocking
  <2>12. EchoTyped' /\ Endings' /\ OneLine'
    BY <1>1, <1>2, <1>4, NonblockingPlaces
  <2> QED BY <2>5, <2>10, <2>11, <2>12 DEF EchoInv
<1> QED BY <1>3, <1>4, Zenon DEF NbWrite

LEMMA EchoNext == EchoInv /\ (Next \/ UNCHANGED vars) => EchoInv'
BY OthersKeep, GetsKeeps, SetDoneKeeps, WriteKeeps, ReadKeeps, ReaderKeeps, SelectKeeps, SockEventKeeps,
   StdinEventKeeps, NbSelectKeeps, NbStdinKeeps, NbSockKeeps, NbOutKeeps, NbWriteKeeps
   DEF Next, WriterStep

LEMMA EchoRight == EchoInv => NothingLost /\ PrintedAll /\ AlarmsAreTrue /\ PointersRight
<1> SUFFICES ASSUME EchoInv PROVE NothingLost /\ PrintedAll /\ AlarmsAreTrue /\ PointersRight
  OBVIOUS
<1>1. NothingLost /\ PrintedAll /\ AlarmsAreTrue
  BY DEF EchoInv, Endings, NothingLost, PrintedAll, AlarmsAreTrue
<1>2. PointersRight
  BY DEF EchoInv, Stages, Nonblocking, PointersRight, tooptr
<1> QED BY <1>1, <1>2

-----------------------------------------------------------------------------
(* Out-of-band data, from a sender that gives the receiver time.           *)

\* What is left to send, after none, one, ... of the sends of tcpsend01.
Sends5 == <<1, -4, 5, -7, 8>>
Sends4 == <<-4, 5, -7, 8>>
Sends3 == <<5, -7, 8>>
Sends2 == <<-7, 8>>
Sends1 == <<8>>

\* No mark: what has been read out of band is r.
Quiet(r) ==
  /\ mark = -1 /\ ~urg /\ oobread = r /\ ~justreadoob
  /\ oobpc \in {"top", "in"} /\ (oobpc = "in" => (xset <=> rcv.wait = "select"))

\* The byte b is announced and has come: the receiver will be told of it.
Told(r, b) ==
  /\ mark = 0 /\ byte = b /\ ~had /\ oobread = r /\ ~justreadoob /\ oobpc = "in"
  /\ (urg <=> rcv.wait = "sigurg") /\ (xset <=> rcv.wait = "select")

\* The byte has been read, the mark is still there.
HasRead(r) ==
  /\ mark = 0 /\ had /\ ~urg /\ ~xset /\ oobread = r
  /\ oobpc = "in" \/ (rcv.wait = "select" /\ oobpc = IF q = <<>> THEN "top" ELSE "read")
  /\ justreadoob <=> rcv.wait = "select"

\* From the one to the other.
Between(r, s, b) == Told(r, b) \/ HasRead(s)

OobCase ==
  \/ /\ snd = Sends5 /\ q = <<>> /\ Quiet(<<>>) /\ ~oobeof
  \/ /\ snd = Sends4 /\ q \in {<<>>, <<1>>} /\ Quiet(<<>>) /\ ~oobeof
  \/ /\ snd = Sends3 /\ q = <<>> /\ Between(<<>>, <<-4>>, -4) /\ ~oobeof
  \/ /\ snd = Sends2 /\ ~oobeof
     /\ \/ q = <<5>> /\ Between(<<>>, <<-4>>, -4)
        \/ q = <<>> /\ Quiet(<<-4>>)
  \/ /\ snd = Sends1 /\ q = <<>> /\ Between(<<-4>>, <<-4, -7>>, -7) /\ ~oobeof
  \/ /\ snd = <<>> /\ q = <<8>> /\ Between(<<-4>>, <<-4, -7>>, -7) /\ ~oobeof
  \/ /\ snd = <<>> /\ q = <<>>
     /\ \/ Quiet(<<-4, -7>>)
        \/ oobpc = "exit" /\ oobread = <<-4, -7>> /\ ~urg

\* The receivers that read every byte.
Careful == slow /\ (rcv.wait = "sigurg" \/ rcv.just) /\ rcv.reads

OobInv ==
  Careful => /\ rcv.wait \in {"sigurg", "select"} /\ (rcv.wait = "select" => rcv.just) /\ ~rcv.inline
             /\ wire = <<>> /\ OobCase

LEMMA SendsLeft ==
  /\ Head(Sends5) = 1 /\ Tail(Sends5) = Sends4 /\ Head(Sends4) = -4 /\ Tail(Sends4) = Sends3
  /\ Head(Sends3) = 5 /\ Tail(Sends3) = Sends2 /\ Head(Sends2) = -7 /\ Tail(Sends2) = Sends1
  /\ Head(Sends1) = 8 /\ Tail(Sends1) = <<>>
BY DEF Sends5, Sends4, Sends3, Sends2, Sends1

LEMMA SendsDiffer ==
  /\ Sends5 # <<>> /\ Sends4 # <<>> /\ Sends3 # <<>> /\ Sends2 # <<>> /\ Sends1 # <<>>
BY DEF Sends5, Sends4, Sends3, Sends2, Sends1

LEMMA AppendOf ==
  ASSUME NEW S, NEW s \in Seq(S), NEW b \in S
  PROVE  /\ Append(s, b) \in Seq(S) /\ Len(Append(s, b)) = Len(s) + 1 /\ Append(s, b)[Len(s) + 1] = b
         /\ \A k \in 1 .. Len(s) : Append(s, b)[k] = s[k]
OBVIOUS

LEMMA BytesRead ==
  ASSUME NEW a, NEW b
  PROVE  Append(<<>>, a) = <<a>> /\ Append(<<a>>, b) = <<a, b>>
<1>1. Append(<<>>, a) = <<a>>
  OBVIOUS
<1>2. <<a>> \in Seq({a, b}) /\ Len(<<a>>) = 1 /\ <<a>>[1] = a
  OBVIOUS
<1>3. PICK t \in Seq({a, b}) : t = Append(<<a>>, b)
  BY <1>2, AppendOf
<1>4. Len(t) = 2 /\ t[1] = a /\ t[2] = b
  BY <1>2, <1>3, AppendOf
<1>5. t = <<a, b>>
  BY <1>4
<1> QED BY <1>1, <1>3, <1>5

LEMMA OobInit == Oob!Init => OobInv
<1> SUFFICES ASSUME Oob!Init, Careful PROVE OobInv
  BY DEF OobInv
<1>1. /\ rcv \in Oob!Programs /\ wire = <<>> /\ q = <<>> /\ mark = -1 /\ ~urg /\ ~oobeof
      /\ oobpc = "top" /\ ~justreadoob /\ oobread = <<>>
  BY DEF Oob!Init
<1>2. PICK s \in Oob!Senders : snd = s.sends /\ slow = s.slow
  BY DEF Oob!Init
<1>3. s.slow
  BY <1>2 DEF Careful
<1>4. snd = Sends5
  BY <1>2, <1>3 DEF Oob!Senders, Oob!tcpsend01, Oob!tcpsend04, Oob!tcpsend05, Oob!tcpsend06, Sends5
<1>5. rcv.wait \in {"sigurg", "select"} /\ (rcv.wait = "select" => rcv.just) /\ ~rcv.inline
  BY <1>1 DEF Careful, Oob!Programs, Oob!tcprecv01, Oob!tcprecv02, Oob!tcprecv03, Oob!tcprecv04,
              Oob!tcprecv05
<1>6. Quiet(<<>>)
  BY <1>1 DEF Quiet
<1> QED BY <1>1, <1>4, <1>5, <1>6 DEF OobInv, OobCase

\* The receiver, up to a read.
LEMMA ReceiverMoves ==
  ASSUME Careful, OobInv, Oob!SigUrg \/ Oob!Top \/ Oob!ReadOob
  PROVE  OobInv'
<1>0. /\ rcv.wait \in {"sigurg", "select"} /\ (rcv.wait = "select" => rcv.just) /\ ~rcv.inline
      /\ wire = <<>> /\ OobCase
  BY DEF OobInv
<1>1. UNCHANGED <<rcv, snd, slow, wire, q, mark, byte, oobeof>>
  BY DEF Oob!SigUrg, Oob!Top, Oob!ReadOob, Oob!kernVars
<1>2. ASSUME NEW r, Quiet(r)
      PROVE  Quiet(r)'
  <2>1. CASE Oob!SigUrg
    BY <1>2, <2>1 DEF Quiet, Oob!SigUrg
  <2>2. CASE Oob!Top
    BY <1>0, <1>1, <1>2, <2>2 DEF Quiet, Oob!Top, Oob!kernVars
  <2>3. CASE Oob!ReadOob
    BY <1>2, <2>3 DEF Quiet, Oob!ReadOob, Oob!Exceptional
  <2> QED BY <2>1, <2>2, <2>3
<1>3. ASSUME NEW r, NEW s, NEW b, b # 0, s = Append(r, b), Between(r, s, b), ~oobeof
      PROVE  Between(r, s, b)'
  <2>1. CASE Oob!SigUrg
    <3>1. Told(r, b)
      BY <1>3, <2>1 DEF Between, HasRead, Oob!SigUrg
    <3>2. had' /\ oobread' = s /\ oobpc' = "in" /\ ~urg' /\ UNCHANGED <<justreadoob, xset>> /\ urg
      BY <1>3, <2>1, <3>1 DEF Told, Oob!SigUrg, Oob!RecvOob
    <3>3. HasRead(s)'
      BY <1>0, <1>1, <3>1, <3>2 DEF Told, HasRead
    <3> QED BY <3>3 DEF Between
  <2>2. CASE Oob!Top
    <3>1. HasRead(s)
      BY <1>3, <2>2 DEF Between, Told, Oob!Top
    <3>2. oobpc = "top" /\ oobpc' = "in" /\ UNCHANGED <<had, urg, justreadoob, oobread>>
          /\ xset' = (rcv.wait = "select" /\ (rcv.just => ~justreadoob))
      BY <2>2 DEF Oob!Top, Oob!kernVars
    <3>3. HasRead(s)'
      BY <1>0, <1>1, <3>1, <3>2 DEF HasRead
    <3> QED BY <3>3 DEF Between
  <2>3. CASE Oob!ReadOob
    <3>1. Told(r, b) /\ rcv.wait = "select"
      BY <1>0, <1>3, <2>3 DEF Between, HasRead, Told, Oob!ReadOob, Oob!Exceptional
    <3>2. had' /\ oobread' = s /\ justreadoob' /\ ~xset' /\ UNCHANGED urg
          /\ oobpc' = IF Oob!Readable THEN "read" ELSE "top"
      BY <1>3, <2>3, <3>1 DEF Told, Oob!ReadOob, Oob!RecvOob
    <3>3. Oob!Readable <=> q # <<>>
      BY <1>3 DEF Oob!Readable
    <3>4. HasRead(s)'
      BY <1>0, <1>1, <3>1, <3>2, <3>3 DEF Told, HasRead
    <3> QED BY <3>4 DEF Between
  <2> QED BY <2>1, <2>2, <2>3
<1>4. oobpc # "exit"
  BY DEF Oob!SigUrg, Oob!Top, Oob!ReadOob
<1>5. OobCase'
  <2>1. CASE snd = Sends5 /\ q = <<>> /\ Quiet(<<>>) /\ ~oobeof
    BY <1>1, <1>2, <2>1 DEF OobCase
  <2>2. CASE snd = Sends4 /\ q \in {<<>>, <<1>>} /\ Quiet(<<>>) /\ ~oobeof
    BY <1>1, <1>2, <2>2 DEF OobCase
  <2>3. CASE Between(<<>>, <<-4>>, -4) /\ ~oobeof
             /\ ((snd = Sends3 /\ q = <<>>) \/ (snd = Sends2 /\ q = <<5>>))
    <3>1. Between(<<>>, <<-4>>, -4)'
      <4>1. PICK a \in Int : a = -4
        OBVIOUS
      <4>2. a # 0 /\ <<a>> = Append(<<>>, a)
        BY <4>1, BytesRead
      <4>3. Between(<<>>, <<a>>, a)'
        BY <1>3, <2>3, <4>1, <4>2
      <4> QED BY <4>1, <4>3
    <3> QED BY <1>1, <2>3, <3>1 DEF OobCase
  <2>4. CASE snd = Sends2 /\ q = <<>> /\ Quiet(<<-4>>) /\ ~oobeof
    BY <1>1, <1>2, <2>4 DEF OobCase
  <2>5. CASE Between(<<-4>>, <<-4, -7>>, -7) /\ ~oobeof
             /\ ((snd = Sends1 /\ q = <<>>) \/ (snd = <<>> /\ q = <<8>>))
    <3>1. Between(<<-4>>, <<-4, -7>>, -7)'
      <4>1. PICK a \in Int : a = -4
        OBVIOUS
      <4>2. PICK b \in Int : b = -7
        OBVIOUS
      <4>3. b # 0 /\ <<a, b>> = Append(<<a>>, b)
        BY <4>2, BytesRead
      <4>4. Between(<<a>>, <<a, b>>, b)'
        BY <1>3, <2>5, <4>1, <4>2, <4>3
      <4> QED BY <4>1, <4>2, <4>4
    <3> QED BY <1>1, <2>5, <3>1 DEF OobCase
  <2>6. CASE snd = <<>> /\ q = <<>> /\ Quiet(<<-4, -7>>)
    BY <1>1, <1>2, <2>6 DEF OobCase
  <2> QED BY <1>0, <1>4, <2>1, <2>2, <2>3, <2>4, <2>5, <2>6 DEF OobCase
<1> QED BY <1>0, <1>1, <1>5 DEF OobInv

\* Data are read: up to the end of what has come, and the mark goes with it.
LEMMA ReceiverReads == ASSUME Careful, OobInv, Oob!Read PROVE OobInv'
<1>0. /\ rcv.wait \in {"sigurg", "select"} /\ (rcv.wait = "select" => rcv.just) /\ ~rcv.inline
      /\ wire = <<>> /\ OobCase
  BY DEF OobInv
<1>1. /\ UNCHANGED <<rcv, snd, slow, wire, byte, had, urg, oobeof, xset, oobread>> /\ ~urg
      /\ oobpc = "read" \/ (oobpc = "in" /\ ~Oob!Exceptional /\ Oob!Readable)
  BY DEF Oob!Read
<1>2. CASE q = <<>> /\ oobpc' = "exit" /\ UNCHANGED <<q, mark, justreadoob>>
  <2>1. ASSUME NEW r, NEW s, NEW b, Between(r, s, b), ~oobeof PROVE FALSE
    <3>1. oobpc # "read" /\ ~Oob!Readable
      BY <1>2, <2>1 DEF Between, Told, HasRead, Oob!Readable
    <3> QED BY <1>1, <3>1
  <2>2. ASSUME NEW r, Quiet(r), ~oobeof PROVE FALSE
    BY <1>1, <1>2, <2>2 DEF Quiet, Oob!Readable
  <2>3. snd = <<>> /\ (Quiet(<<-4, -7>>) \/ oobpc = "exit")
    <3>1. q # <<8>>
      BY <1>2
    <3> QED BY <1>0, <2>1, <2>2, <3>1 DEF OobCase
  <2>4. oobread = <<-4, -7>>
    BY <1>1, <2>3 DEF Quiet
  <2>5. OobCase'
    BY <1>1, <1>2, <2>3, <2>4 DEF OobCase
  <2> QED BY <1>0, <1>1, <2>5 DEF OobInv
<1>3. CASE LET n == IF mark > 0 /\ mark < Len(q) THEN mark ELSE Len(q)
           IN  /\ q # <<>> /\ oobpc' = "top" /\ justreadoob' = FALSE
               /\ q' = SubSeq(q, n + 1, Len(q))
               /\ mark' = IF mark <= 0 THEN -1 ELSE mark - n
  <2>1. ASSUME NEW r, Quiet(r)
        PROVE  Quiet(r)' /\ mark <= 0
    BY <1>1, <1>3, <2>1 DEF Quiet
  <2>2. ASSUME NEW r, NEW s, NEW b, Between(r, s, b)
        PROVE  Quiet(s)' /\ mark <= 0
    <3>1. ~Told(r, b)
      BY <1>0, <1>1 DEF Told, Oob!Exceptional
    <3>2. HasRead(s)
      BY <2>2, <3>1 DEF Between
    <3> QED BY <1>1, <1>3, <3>2 DEF HasRead, Quiet
  <2>3. ASSUME NEW x, q = <<x>>, mark <= 0, mark \in Int
        PROVE  q' = <<>>
    <3>1. Len(q) = 1
      BY <2>3
    <3>2. q' = SubSeq(q, 2, 1)
      BY <1>3, <2>3, <3>1
    <3> QED BY <2>3, <3>2
  <2>4. mark \in Int
    BY <1>0, <1>1 DEF OobCase, Quiet, Between, Told, HasRead
  <2>5. OobCase'
    <3>1. CASE snd = Sends4 /\ q = <<1>> /\ Quiet(<<>>) /\ ~oobeof
      <4>1. q' = <<>>
        BY <2>1, <2>3, <2>4, <3>1
      <4> QED BY <1>1, <2>1, <3>1, <4>1 DEF OobCase
    <3>2. CASE snd = Sends2 /\ q = <<5>> /\ Between(<<>>, <<-4>>, -4) /\ ~oobeof
      <4>1. q' = <<>>
        BY <2>2, <2>3, <2>4, <3>2
      <4>2. Quiet(<<-4>>)'
        BY <2>2, <3>2
      <4> QED BY <1>1, <3>2, <4>1, <4>2 DEF OobCase
    <3>3. CASE snd = <<>> /\ q = <<8>> /\ Between(<<-4>>, <<-4, -7>>, -7) /\ ~oobeof
      <4>1. q' = <<>>
        BY <2>2, <2>3, <2>4, <3>3
      <4>2. Quiet(<<-4, -7>>)'
        BY <2>2, <3>3
      <4> QED BY <1>1, <3>3, <4>1, <4>2 DEF OobCase
    <3> QED BY <1>0, <1>3, <3>1, <3>2, <3>3 DEF OobCase
  <2> QED BY <1>0, <1>1, <2>5 DEF OobInv
<1> QED BY <1>2, <1>3 DEF Oob!Read

LEMMA SameCardinality ==
  ASSUME NEW S PROVE Oob!Cardinality(S) = Cardinality(S) /\ Web!Cardinality(S) = Cardinality(S)
BY DEF Cardinality, Oob!Cardinality, Web!Cardinality

LEMMA NothingPending == Oob!Pending(<<>>) = 0
<1>1. {n \in DOMAIN <<>> : Oob!Inline(<<>>[n])} = {}
  OBVIOUS
<1> QED BY <1>1, FS_EmptySet, SameCardinality DEF Oob!Pending

\* The sender, when the receiver is at rest.
LEMMA SenderSends == ASSUME Careful, OobInv, Oob!Send PROVE OobInv'
<1>0. /\ rcv.wait \in {"sigurg", "select"} /\ (rcv.wait = "select" => rcv.just) /\ ~rcv.inline
      /\ wire = <<>> /\ OobCase
  BY DEF OobInv
<1>1. /\ UNCHANGED <<rcv, slow, oobeof, oobpc, justreadoob, xset, oobread>>
      /\ snd # <<>> /\ q = <<>> /\ ~urg /\ oobpc = "in" /\ snd' = Tail(snd)
  BY DEF Oob!Send, Oob!Resting, Careful
<1>2. Len(q) < NWIN
  BY <1>1, ClientsAssumption
<1>3. PICK b : b = Head(snd)
  OBVIOUS
<1>4. /\ wire' = <<>> /\ q' = (IF b > 0 THEN Append(q, b) ELSE q)
      /\ \/ b > 0 /\ UNCHANGED <<mark, byte, had, urg>>
         \/ /\ b < 0 /\ mark' = Oob!Pending(wire) + Len(q) /\ ~had'
            /\ byte' = b /\ (urg' <=> rcv.wait = "sigurg")
  BY <1>0, <1>2, <1>3 DEF Oob!Send, Oob!Inline
<1>5. Oob!Pending(wire) + Len(q) = 0
  BY <1>0, <1>1, NothingPending
<1>6. ASSUME b > 0, b \in Int PROVE q' = <<b>> /\ UNCHANGED <<mark, byte, had, urg>>
  <2>1. q' = Append(<<>>, b) /\ UNCHANGED <<mark, byte, had, urg>>
    BY <1>1, <1>4, <1>6
  <2> QED BY <2>1, BytesRead
<1>7. ASSUME b < 0, b \in Int, NEW r, Quiet(r) PROVE q' = <<>> /\ Told(r, b)'
  <2>1. q' = <<>> /\ mark' = 0 /\ ~had' /\ byte' = b /\ (urg' <=> rcv.wait = "sigurg")
    BY <1>1, <1>4, <1>5, <1>7
  <2> QED BY <1>1, <1>7, <2>1 DEF Quiet, Told
<1>8. ASSUME b > 0, b \in Int, NEW r, Quiet(r) PROVE Quiet(r)'
  BY <1>1, <1>6, <1>8 DEF Quiet
<1>9. ASSUME b > 0, b \in Int, NEW r, NEW s, NEW d, Between(r, s, d) PROVE Between(r, s, d)'
  BY <1>1, <1>6, <1>9 DEF Between, Told, HasRead
<1>10. OobCase'
  <2>1. CASE snd = Sends5 /\ q = <<>> /\ Quiet(<<>>) /\ ~oobeof
    <3>1. b = 1 /\ snd' = Sends4
      BY <1>1, <1>3, <2>1, SendsLeft
    <3>2. Quiet(<<>>)' /\ q' = <<1>>
      BY <1>6, <1>8, <2>1, <3>1
    <3> QED BY <1>1, <2>1, <3>1, <3>2 DEF OobCase
  <2>2. CASE snd = Sends4 /\ Quiet(<<>>) /\ ~oobeof
    <3>1. b = -4 /\ snd' = Sends3
      BY <1>1, <1>3, <2>2, SendsLeft
    <3>2. q' = <<>> /\ Told(<<>>, b)'
      BY <1>7, <2>2, <3>1
    <3>3. Between(<<>>, <<-4>>, -4)'
      BY <3>1, <3>2 DEF Between
    <3> QED BY <1>1, <2>2, <3>1, <3>2, <3>3 DEF OobCase
  <2>3. CASE snd = Sends3 /\ Between(<<>>, <<-4>>, -4) /\ ~oobeof
    <3>1. b = 5 /\ snd' = Sends2
      BY <1>1, <1>3, <2>3, SendsLeft
    <3>2. Between(<<>>, <<-4>>, -4)' /\ q' = <<5>>
      BY <1>6, <1>9, <2>3, <3>1
    <3> QED BY <1>1, <2>3, <3>1, <3>2 DEF OobCase
  <2>4. CASE snd = Sends2 /\ Quiet(<<-4>>) /\ ~oobeof
    <3>1. b = -7 /\ snd' = Sends1
      BY <1>1, <1>3, <2>4, SendsLeft
    <3>2. q' = <<>> /\ Told(<<-4>>, b)'
      BY <1>7, <2>4, <3>1
    <3>3. Between(<<-4>>, <<-4, -7>>, -7)'
      BY <3>1, <3>2 DEF Between
    <3> QED BY <1>1, <2>4, <3>1, <3>2, <3>3 DEF OobCase
  <2>5. CASE snd = Sends1 /\ Between(<<-4>>, <<-4, -7>>, -7) /\ ~oobeof
    <3>1. b = 8 /\ snd' = <<>>
      BY <1>1, <1>3, <2>5, SendsLeft
    <3>2. Between(<<-4>>, <<-4, -7>>, -7)' /\ q' = <<8>>
      BY <1>6, <1>9, <2>5, <3>1
    <3> QED BY <1>1, <2>5, <3>1, <3>2 DEF OobCase
  <2>6. q # <<5>>
    BY <1>1
  <2> QED BY <1>0, <1>1, <2>1, <2>2, <2>3, <2>4, <2>5, <2>6 DEF OobCase
<1> QED BY <1>0, <1>1, <1>4, <1>10 DEF OobInv

LEMMA OobNext == OobInv /\ (Oob!Next \/ UNCHANGED oobVars) => OobInv'
<1> SUFFICES ASSUME OobInv, Oob!Next \/ UNCHANGED oobVars
             PROVE  OobInv'
  OBVIOUS
<1>0. UNCHANGED <<rcv, slow>> /\ (Careful' <=> Careful)
  <2>1. UNCHANGED <<rcv, slow>>
    BY DEF Oob!Next, Oob!Send, Oob!SendEnds, Oob!Arrive, Oob!Receiver, Oob!SigUrg, Oob!Top, Oob!ReadOob,
           Oob!Read, oobVars
  <2> QED BY <2>1 DEF Careful
<1>1. ASSUME Careful PROVE OobInv'
  <2>0. OobCase /\ wire = <<>>
    BY <1>1 DEF OobInv
  <2>1. CASE Oob!SendEnds
    <3>1. /\ snd = <<>> /\ q = <<>> /\ oobpc = "in"
          /\ UNCHANGED <<snd, wire, q, mark, byte, had, urg, oobpc, justreadoob, xset, oobread>>
      BY <1>1, <2>1 DEF Oob!SendEnds, Oob!Resting, Careful
    <3>2. q # <<8>>
      BY <3>1
    <3>3. Quiet(<<-4, -7>>)
      BY <2>0, <3>1, <3>2, SendsDiffer DEF OobCase
    <3>4. Quiet(<<-4, -7>>)'
      BY <1>0, <3>1, <3>3 DEF Quiet
    <3>5. OobCase'
      BY <3>1, <3>4 DEF OobCase
    <3> QED BY <1>0, <1>1, <3>1, <3>5 DEF OobInv
  <2>2. CASE Oob!Arrive
    BY <2>0, <2>2 DEF Oob!Arrive
  <2>3. CASE UNCHANGED oobVars
    <3>1. OobCase'
      BY <2>0, <2>3 DEF OobCase, Quiet, Between, Told, HasRead, oobVars
    <3> QED BY <1>0, <1>1, <2>3, <3>1 DEF OobInv, oobVars
  <2> QED
    BY <1>1, <2>1, <2>2, <2>3, ReceiverMoves, ReceiverReads, SenderSends DEF Oob!Next, Oob!Receiver
<1> QED BY <1>0, <1>1 DEF OobInv

LEMMA OobRight == OobInv => Oob!ReadsEveryByte
<1> SUFFICES ASSUME OobInv, Careful
             PROVE  oobpc # "error" /\ (oobpc = "exit" => oobread = <<-4, -7>>)
  BY DEF Oob!ReadsEveryByte, Careful
<1> QED BY DEF OobInv, OobCase, Quiet, Between, Told, HasRead

-----------------------------------------------------------------------------
(* The SCTP programs.                                                      *)

Messages == Sctp!Streams \X Nat

SctpTyped ==
  /\ sv \in Sctp!Servers /\ cl \in Sctp!Clients
  /\ upto \in [Sctp!Streams -> Seq(Messages)] /\ down \in [Sctp!Streams -> Seq(Messages)]
  /\ smsg \in Nat /\ ngot \in Nat /\ last \in [Sctp!Streams -> Nat]
  /\ spc = "recv" /\ scpc \in {"gets", "send", "recv", "end"}

\* The places of the messages that are on their way in one direction.
Slots(f) == {p \in Sctp!Streams \X Nat : p[2] \in 1 .. Len(f[p[1]])}

\* Every message of the line that was sent and not answered is on its way.
Underway ==
  /\ IsFiniteSet(Slots(upto)) /\ IsFiniteSet(Slots(down))
  /\ Cardinality(Slots(upto)) + Cardinality(Slots(down)) = smsg - ngot
  /\ scpc \in {"gets", "end"} => smsg = ngot
  /\ scpc = "send" => ngot = 0 /\ smsg < Sctp!Expected
  /\ scpc = "recv" => smsg = Sctp!Expected /\ ngot < Sctp!Expected

\* The stream on which the answers to a stream's messages come.
Back(s) == IF sv.incr THEN Sctp!NextStream(s) ELSE s

\* How many messages of this line went out on a stream.
SentRight(s, n) ==
  IF cl.copies = 0 THEN n \in 0 .. 1 /\ (scpc = "send" => n = 0)
  ELSE IF cl.copies = 1 THEN n = IF smsg > s THEN 1 ELSE 0
  ELSE n = IF smsg > 2 * s + 1 THEN 2 ELSE IF smsg = 2 * s + 1 THEN 1 ELSE 0

\* The answers d and the messages u of a stream follow the last one printed, one by one.
Follows(s, l, d, u) ==
  /\ \A k \in 1 .. Len(d) : d[k] = <<s, l + k>>
  /\ \A k \in 1 .. Len(u) : u[k] = <<s, l + Len(d) + k>>

StreamRight(s) ==
  /\ Follows(s, last[s], down[Back(s)], upto[s])
  /\ SentRight(s, last[s] + Len(down[Back(s)]) + Len(upto[s]))

InOrder == ~sv.fork => ~peeled /\ \A s \in Sctp!Streams : StreamRight(s)

SctpInv == SctpTyped /\ Underway /\ InOrder

LEMMA ServerKinds ==
  ASSUME sv \in Sctp!Servers, cl \in Sctp!Clients
  PROVE  /\ sv.incr \in BOOLEAN /\ sv.fork \in BOOLEAN /\ cl.copies \in {0, 1, 2}
         /\ Sctp!Expected \in Nat \ {0}
         /\ Sctp!Expected = IF cl.copies = 0 THEN 1 ELSE IF cl.copies = 1 THEN NSTRM ELSE NSTRM * 2
<1>1. sv.incr \in BOOLEAN /\ sv.fork \in BOOLEAN
  <2>1. ASSUME NEW a \in BOOLEAN, NEW b \in BOOLEAN, NEW c \in BOOLEAN, NEW d \in BOOLEAN,
               NEW e \in BOOLEAN, sv = Sctp!Server(a, b, c, d, e)
        PROVE  sv.incr \in BOOLEAN /\ sv.fork \in BOOLEAN
    BY <2>1 DEF Sctp!Server
  <2> QED BY <2>1 DEF Sctp!Servers, Sctp!sctpserv01, Sctp!sctpserv03, Sctp!sctpserv05,
                      Sctp!sctpserv06, Sctp!sctpserv07, Sctp!sctpserv_fork
<1>2. cl.copies \in {0, 1, 2}
  BY DEF Sctp!Clients, Sctp!sctp_strcli, Sctp!sctp_strcli1, Sctp!sctp_strcliecho, Sctp!sctp_strcliecho2
<1>3. Sctp!Expected = IF cl.copies = 0 THEN 1 ELSE IF cl.copies = 1 THEN NSTRM ELSE NSTRM * 2
  BY <1>2, ClientsAssumption DEF Sctp!Expected
<1> QED BY <1>1, <1>2, <1>3, ClientsAssumption

\* Each stream is answered on a stream of its own.
LEMMA BackRight ==
  /\ \A s \in Sctp!Streams : Back(s) \in Sctp!Streams
  /\ \A s, t \in Sctp!Streams : Back(s) = Back(t) => s = t
  /\ \A t \in Sctp!Streams : \E s \in Sctp!Streams : Back(s) = t
<1>1. CASE ~sv.incr
  BY <1>1 DEF Back
<1>2. CASE sv.incr
  <2>1. \A s \in Sctp!Streams : Back(s) = IF s + 1 >= NSTRM THEN 0 ELSE s + 1
    BY <1>2 DEF Back, Sctp!NextStream
  <2>2. \A s \in Sctp!Streams : Back(s) \in Sctp!Streams
    BY <2>1, ClientsAssumption DEF Sctp!Streams
  <2>3. \A s, t \in Sctp!Streams : Back(s) = Back(t) => s = t
    BY <2>1, ClientsAssumption DEF Sctp!Streams
  <2>4. ASSUME NEW t \in Sctp!Streams PROVE \E s \in Sctp!Streams : Back(s) = t
    <3>1. CASE t = 0
      <4>1. NSTRM - 1 \in Sctp!Streams /\ NSTRM - 1 + 1 >= NSTRM
        BY ClientsAssumption DEF Sctp!Streams
      <4> QED BY <2>1, <3>1, <4>1
    <3>2. CASE t # 0
      <4>1. t - 1 \in Sctp!Streams /\ ~(t - 1 + 1 >= NSTRM) /\ t - 1 + 1 = t
        BY <3>2, ClientsAssumption DEF Sctp!Streams
      <4> QED BY <2>1, <4>1
    <3> QED BY <3>1, <3>2
  <2> QED BY <2>2, <2>3, <2>4
<1> QED BY <1>1, <1>2

LEMMA AnswerStream ==
  ASSUME NEW s \in Sctp!Streams
  PROVE  Sctp!AnswerOn(s) \in Sctp!Streams /\ (~peeled => Sctp!AnswerOn(s) = Back(s))
<1>1. 0 \in Sctp!Streams
  BY ClientsAssumption DEF Sctp!Streams
<1> QED BY <1>1, BackRight DEF Sctp!AnswerOn, Back

\* A message is put into a stream, and the first one is taken out.
LEMMA SlotsMore ==
  ASSUME NEW f \in [Sctp!Streams -> Seq(Messages)], NEW s \in Sctp!Streams, IsFiniteSet(Slots(f)),
         NEW g \in [Sctp!Streams -> Seq(Messages)], Len(g[s]) = Len(f[s]) + 1,
         \A r \in Sctp!Streams : r # s => g[r] = f[r]
  PROVE  /\ IsFiniteSet(Slots(g)) /\ Cardinality(Slots(f)) \in Nat
         /\ Cardinality(Slots(g)) = Cardinality(Slots(f)) + 1
<1>1. PICK n \in Nat : n = Len(f[s])
  OBVIOUS
<1>2. PICK x : x = <<s, n + 1>>
  OBVIOUS
<1>3. Slots(g) = Slots(f) \cup {x} /\ x \notin Slots(f)
  <2>1. ASSUME NEW p \in Sctp!Streams \X Nat
        PROVE  p[2] \in 1 .. Len(g[p[1]]) <=> p[2] \in 1 .. Len(f[p[1]]) \/ p = x
    <3>1. CASE p[1] = s
      BY <1>1, <1>2, <3>1
    <3>2. CASE p[1] # s
      BY <1>2, <3>2
    <3> QED BY <3>1, <3>2
  <2>2. x \in Sctp!Streams \X Nat /\ x \notin Slots(f)
    BY <1>1, <1>2 DEF Slots
  <2> QED BY <2>1, <2>2 DEF Slots
<1>4. IsFiniteSet(Slots(f) \cup {x}) /\ Cardinality(Slots(f) \cup {x}) = Cardinality(Slots(f)) + 1
  BY <1>3, FS_AddElement
<1> QED BY <1>3, <1>4, FS_CardinalityType

LEMMA SlotsLess ==
  ASSUME NEW f \in [Sctp!Streams -> Seq(Messages)], NEW s \in Sctp!Streams, IsFiniteSet(Slots(f)),
         NEW g \in [Sctp!Streams -> Seq(Messages)], Len(g[s]) = Len(f[s]) - 1,
         \A r \in Sctp!Streams : r # s => g[r] = f[r]
  PROVE  /\ IsFiniteSet(Slots(g)) /\ Cardinality(Slots(f)) \in Nat
         /\ Cardinality(Slots(g)) = Cardinality(Slots(f)) - 1
<1>1. PICK n \in Nat \ {0} : n = Len(f[s])
  <2>1. Len(f[s]) \in Nat /\ Len(g[s]) \in Nat
    OBVIOUS
  <2> QED BY <2>1
<1>2. PICK x : x = <<s, n>>
  OBVIOUS
<1>3. Slots(g) = Slots(f) \ {x} /\ x \in Slots(f)
  <2>1. ASSUME NEW p \in Sctp!Streams \X Nat
        PROVE  p[2] \in 1 .. Len(g[p[1]]) <=> p[2] \in 1 .. Len(f[p[1]]) /\ p # x
    <3>1. CASE p[1] = s
      BY <1>1, <1>2, <3>1
    <3>2. CASE p[1] # s
      BY <1>2, <3>2
    <3> QED BY <3>1, <3>2
  <2>2. x \in Sctp!Streams \X Nat /\ x \in Slots(f)
    BY <1>1, <1>2 DEF Slots
  <2> QED BY <2>1, <2>2 DEF Slots
<1>4. IsFiniteSet(Slots(f) \ {x}) /\ Cardinality(Slots(f) \ {x}) = Cardinality(Slots(f)) - 1
  BY <1>3, FS_RemoveElement
<1> QED BY <1>3, <1>4, FS_CardinalityType

LEMMA TailOf ==
  ASSUME NEW S, NEW s \in Seq(S), s # <<>>
  PROVE  /\ Tail(s) \in Seq(S) /\ Len(Tail(s)) = Len(s) - 1 /\ Head(s) = s[1] /\ Head(s) \in S
         /\ 1 \in 1 .. Len(s)
         /\ \A k \in 1 .. Len(Tail(s)) : k + 1 \in 1 .. Len(s) /\ Tail(s)[k] = s[k + 1]
OBVIOUS

LEMMA FollowsSend ==
  ASSUME NEW s \in Sctp!Streams, NEW l \in Nat, NEW d \in Seq(Messages), NEW u \in Seq(Messages),
         Follows(s, l, d, u)
  PROVE  Follows(s, l, d, Append(u, <<s, l + Len(d) + Len(u) + 1>>))
<1>0. PICK n \in Nat : n = l + Len(d) + Len(u) + 1
  OBVIOUS
<1>1. PICK m \in Messages : m = <<s, l + Len(d) + Len(u) + 1>>
  BY <1>0 DEF Messages
<1>2. PICK a \in Seq(Messages) : a = Append(u, m)
  BY AppendOf
<1>3. Len(a) = Len(u) + 1 /\ a[Len(u) + 1] = m /\ \A k \in 1 .. Len(u) : a[k] = u[k]
  BY <1>2, AppendOf
<1>4. ASSUME NEW k \in 1 .. Len(a) PROVE a[k] = <<s, l + Len(d) + k>>
  <2>1. Len(u) \in Nat /\ Len(d) \in Nat
    OBVIOUS
  <2>2. CASE k = Len(u) + 1
    <3>1. l + Len(d) + Len(u) + 1 = l + Len(d) + k
      BY <2>1, <2>2
    <3> QED BY <1>1, <1>3, <2>2, <3>1
  <2>3. CASE k # Len(u) + 1
    <3>1. k \in 1 .. Len(u)
      BY <1>3, <1>4, <2>1, <2>3
    <3> QED BY <1>3, <3>1 DEF Follows
  <2> QED BY <2>2, <2>3
<1> QED BY <1>1, <1>2, <1>4 DEF Follows

LEMMA FollowsAnswer ==
  ASSUME NEW s \in Sctp!Streams, NEW l \in Nat, NEW d \in Seq(Messages), NEW u \in Seq(Messages),
         Follows(s, l, d, u), u # <<>>
  PROVE  Follows(s, l, Append(d, Head(u)), Tail(u))
<1>1. PICK m \in Messages : m = Head(u)
  BY TailOf
<1>2. PICK a \in Seq(Messages) : a = Append(d, m)
  BY AppendOf
<1>3. PICK t \in Seq(Messages) : t = Tail(u)
  BY TailOf
<1>4. Len(a) = Len(d) + 1 /\ a[Len(d) + 1] = m /\ \A k \in 1 .. Len(d) : a[k] = d[k]
  BY <1>2, AppendOf
<1>5. Len(d) \in Nat /\ Len(u) \in Nat
  OBVIOUS
<1>6. m = <<s, l + Len(d) + 1>>
  <2>1. 1 \in 1 .. Len(u) /\ m = u[1]
    BY <1>1, TailOf
  <2> QED BY <2>1 DEF Follows
<1>7. ASSUME NEW k \in 1 .. Len(a) PROVE a[k] = <<s, l + k>>
  <2>1. CASE k = Len(d) + 1
    <3>1. l + Len(d) + 1 = l + k
      BY <1>5, <2>1
    <3> QED BY <1>4, <1>6, <2>1, <3>1
  <2>2. CASE k # Len(d) + 1
    <3>1. k \in 1 .. Len(d)
      BY <1>4, <1>5, <1>7, <2>2
    <3> QED BY <1>4, <3>1 DEF Follows
  <2> QED BY <2>1, <2>2
<1>8. ASSUME NEW k \in 1 .. Len(t) PROVE t[k] = <<s, l + Len(a) + k>>
  <2>1. k + 1 \in 1 .. Len(u) /\ t[k] = u[k + 1]
    BY <1>3, <1>8, TailOf
  <2>2. u[k + 1] = <<s, l + Len(d) + (k + 1)>>
    BY <2>1 DEF Follows
  <2>3. l + Len(d) + (k + 1) = l + Len(a) + k
    BY <1>4, <1>5, <1>8
  <2> QED BY <2>1, <2>2, <2>3
<1> QED BY <1>1, <1>2, <1>3, <1>7, <1>8 DEF Follows

LEMMA FollowsRecv ==
  ASSUME NEW s \in Sctp!Streams, NEW l \in Nat, NEW d \in Seq(Messages), NEW u \in Seq(Messages),
         Follows(s, l, d, u), d # <<>>
  PROVE  Head(d) = <<s, l + 1>> /\ Follows(s, l + 1, Tail(d), u)
<1>1. PICK t \in Seq(Messages) : t = Tail(d)
  BY TailOf
<1>2. Len(t) = Len(d) - 1 /\ Len(d) \in Nat /\ 1 \in 1 .. Len(d) /\ Head(d) = d[1]
  BY <1>1, TailOf
<1>3. Head(d) = <<s, l + 1>>
  BY <1>2 DEF Follows
<1>4. ASSUME NEW k \in 1 .. Len(t) PROVE t[k] = <<s, l + 1 + k>>
  <2>1. k + 1 \in 1 .. Len(d) /\ t[k] = d[k + 1]
    BY <1>1, <1>4, TailOf
  <2>2. d[k + 1] = <<s, l + (k + 1)>>
    BY <2>1 DEF Follows
  <2>3. l + (k + 1) = l + 1 + k
    BY <1>4
  <2> QED BY <2>1, <2>2, <2>3
<1>5. ASSUME NEW k \in 1 .. Len(u) PROVE u[k] = <<s, l + 1 + Len(t) + k>>
  <2>1. u[k] = <<s, l + Len(d) + k>>
    BY <1>5 DEF Follows
  <2>2. l + Len(d) + k = l + 1 + Len(t) + k
    BY <1>2, <1>5
  <2> QED BY <2>1, <2>2
<1> QED BY <1>1, <1>3, <1>4, <1>5 DEF Follows

\* Nothing is on its way when everything is answered.
LEMMA NoneUnderway ==
  ASSUME SctpTyped, Underway, smsg = ngot
  PROVE  \A s \in Sctp!Streams : down[s] = <<>> /\ upto[s] = <<>>
<1>1. Cardinality(Slots(upto)) \in Nat /\ Cardinality(Slots(down)) \in Nat
  BY FS_CardinalityType DEF Underway
<1>2. Cardinality(Slots(upto)) = 0 /\ Cardinality(Slots(down)) = 0
  BY <1>1 DEF Underway, SctpTyped
<1>3. Slots(upto) = {} /\ Slots(down) = {}
  BY <1>2, FS_EmptySet DEF Underway
<1>4. ASSUME NEW f \in [Sctp!Streams -> Seq(Messages)], Slots(f) = {}, NEW s \in Sctp!Streams
      PROVE  f[s] = <<>>
  <2>1. <<s, 1>> \notin Slots(f)
    BY <1>4
  <2>2. ~(1 \in 1 .. Len(f[s]))
    BY <2>1 DEF Slots
  <2> QED BY <2>2
<1> QED BY <1>3, <1>4 DEF SctpTyped

LEMMA SctpInit == Sctp!Init => SctpInv
<1> SUFFICES ASSUME Sctp!Init PROVE SctpInv
  OBVIOUS
<1>1. /\ sv \in Sctp!Servers /\ cl \in Sctp!Clients /\ ~peeled
      /\ upto = [s \in Sctp!Streams |-> <<>>] /\ down = [s \in Sctp!Streams |-> <<>>]
      /\ spc = "recv" /\ scpc = "gets" /\ smsg = 0 /\ ngot = 0 /\ last = [s \in Sctp!Streams |-> 0]
  BY DEF Sctp!Init, Sctp!Empty
<1>2. SctpTyped
  BY <1>1 DEF SctpTyped
<1>3. Slots(upto) = {} /\ Slots(down) = {}
  BY <1>1 DEF Slots
<1>4. Underway
  BY <1>1, <1>3, FS_EmptySet DEF Underway
<1>5. ASSUME NEW s \in Sctp!Streams PROVE StreamRight(s)
  <2>1. last[s] = 0 /\ down[Back(s)] = <<>> /\ upto[s] = <<>>
    BY <1>1, BackRight
  <2>2. SentRight(s, 0)
    BY <1>1, ServerKinds, ClientsAssumption DEF SentRight, Sctp!Streams
  <2> QED BY <2>1, <2>2 DEF StreamRight, Follows
<1> QED BY <1>1, <1>2, <1>4, <1>5 DEF SctpInv, InOrder

LEMMA SctpGets == ASSUME SctpInv, Sctp!Gets PROVE SctpInv'
<1>0. SctpTyped /\ Underway /\ InOrder
  BY DEF SctpInv
<1>1. /\ scpc = "gets" /\ scpc' \in {"send", "end"} /\ smsg' = 0 /\ ngot' = 0
      /\ last' = [s \in Sctp!Streams |-> 0] /\ UNCHANGED <<sv, cl, upto, down, peeled, spc>>
  BY DEF Sctp!Gets
<1>2. smsg = ngot
  BY <1>0, <1>1 DEF Underway
<1>3. \A s \in Sctp!Streams : down[s] = <<>> /\ upto[s] = <<>>
  BY <1>0, <1>2, NoneUnderway
<1>4. SctpTyped'
  BY <1>0, <1>1 DEF SctpTyped
<1>5. Sctp!Expected' = Sctp!Expected /\ Sctp!Expected > 0
  BY <1>0, <1>1, ServerKinds DEF Sctp!Expected, SctpTyped
<1>6. PICK n, m : n = Cardinality(Slots(upto)) /\ m = Cardinality(Slots(down))
  OBVIOUS
<1>7. n + m = 0
  BY <1>0, <1>2, <1>6 DEF Underway, SctpTyped
<1>8. Slots(upto)' = Slots(upto) /\ Slots(down)' = Slots(down)
  BY <1>1 DEF Slots
<1>9. Underway'
  BY <1>0, <1>1, <1>5, <1>6, <1>7, <1>8 DEF Underway
<1>10. ASSUME NEW s \in Sctp!Streams PROVE StreamRight(s)'
  <2>1. Back(s)' = Back(s)
    BY <1>1 DEF Back
  <2>2. last'[s] = 0 /\ down'[Back(s)'] = <<>> /\ upto'[s] = <<>>
    BY <1>1, <1>3, <2>1, BackRight
  <2>3. SentRight(s, 0)'
    BY <1>1, ClientsAssumption DEF SentRight, Sctp!Streams
  <2> QED BY <2>2, <2>3 DEF StreamRight, Follows
<1>11. InOrder'
  BY <1>0, <1>1, <1>10 DEF InOrder
<1> QED BY <1>4, <1>9, <1>11 DEF SctpInv

\* The next message of a line: its stream and its number.
LEMMA NextMessage ==
  ASSUME SctpTyped, Underway, scpc = "send",
         NEW s \in (IF cl.copies = 0 THEN Sctp!Streams ELSE {smsg \div cl.copies}),
         NEW n, n = IF cl.copies = 0 THEN 1 ELSE (smsg % cl.copies) + 1
  PROVE  /\ s \in Sctp!Streams /\ n \in Nat \ {0}
         /\ \A k \in Nat : SentRight(s, k) => n = k + 1
         /\ cl.copies = 1 => s = smsg /\ n = 1
         /\ cl.copies = 2 => smsg = 2 * s + (n - 1) /\ n \in {1, 2}
<1>1. smsg \in Nat /\ smsg < Sctp!Expected /\ cl.copies \in {0, 1, 2}
      /\ Sctp!Expected = IF cl.copies = 0 THEN 1 ELSE IF cl.copies = 1 THEN NSTRM ELSE NSTRM * 2
  BY ServerKinds DEF SctpTyped, Underway
<1>2. CASE cl.copies = 0
  BY <1>2 DEF SentRight
<1>3. CASE cl.copies = 1
  <2>1. s = smsg \div 1 /\ n = (smsg % 1) + 1
    BY <1>3
  <2>2. s = smsg /\ n = 1 /\ smsg < NSTRM
    BY <1>1, <1>3, <2>1
  <2>3. s \in Sctp!Streams
    BY <1>1, <2>2, ClientsAssumption DEF Sctp!Streams
  <2> QED BY <1>1, <1>3, <2>2, <2>3 DEF SentRight
<1>4. CASE cl.copies = 2
  <2>1. s = smsg \div 2 /\ n = (smsg % 2) + 1
    BY <1>4
  <2>2. s \in Nat /\ n \in {1, 2} /\ smsg = 2 * s + (n - 1) /\ smsg < NSTRM * 2
    BY <1>1, <1>4, <2>1
  <2>3. s \in Sctp!Streams
    BY <2>2, ClientsAssumption DEF Sctp!Streams
  <2>4. ASSUME NEW k \in Nat, SentRight(s, k) PROVE n = k + 1
    <3>1. k = IF smsg > 2 * s + 1 THEN 2 ELSE IF smsg = 2 * s + 1 THEN 1 ELSE 0
      BY <1>4, <2>4 DEF SentRight
    <3> QED BY <2>2, <3>1
  <2>5. cl.copies # 1 /\ n \in Nat \ {0}
    <3>1. cl.copies # 1
      BY <1>4
    <3>2. n = 1 \/ n = 2
      BY <2>2
    <3>3. n \in Nat \ {0}
      BY <3>2
    <3> QED BY <3>1, <3>3
  <2>6. \A k \in Nat : SentRight(s, k) => n = k + 1
    BY <2>4
  <2> QED BY <2>2, <2>3, <2>5, <2>6, Zenon
<1> QED BY <1>1, <1>2, <1>3, <1>4

LEMMA SctpSend == ASSUME SctpInv, Sctp!Send PROVE SctpInv'
<1>0. SctpTyped /\ Underway /\ InOrder
  BY DEF SctpInv
<1>1. PICK s \in (IF cl.copies = 0 THEN Sctp!Streams ELSE {smsg \div cl.copies}) :
        upto' = [upto EXCEPT ![s] = Append(@, <<s, IF cl.copies = 0 THEN 1 ELSE (smsg % cl.copies) + 1>>)]
  BY DEF Sctp!Send
<1>2. PICK n : n = IF cl.copies = 0 THEN 1 ELSE (smsg % cl.copies) + 1
  OBVIOUS
<1>3. /\ scpc = "send" /\ smsg' = smsg + 1 /\ scpc' = (IF smsg + 1 = Sctp!Expected THEN "recv" ELSE "send")
      /\ UNCHANGED <<sv, cl, down, peeled, spc, ngot, last>>
  BY DEF Sctp!Send
<1>4. /\ s \in Sctp!Streams /\ n \in Nat \ {0}
      /\ \A k \in Nat : SentRight(s, k) => n = k + 1
      /\ cl.copies = 1 => s = smsg /\ n = 1
      /\ cl.copies = 2 => smsg = 2 * s + (n - 1) /\ n \in {1, 2}
  BY <1>0, <1>1, <1>2, <1>3, NextMessage
<1>5. PICK m \in Messages : m = <<s, n>>
  BY <1>4 DEF Messages
<1>6. upto' = [upto EXCEPT ![s] = Append(@, m)]
  BY <1>1, <1>2, <1>5
<1>7. PICK f \in [Sctp!Streams -> Seq(Messages)] : f = upto
  BY <1>0 DEF SctpTyped
<1>8. PICK g : g = [f EXCEPT ![s] = Append(@, m)]
  OBVIOUS
<1>9. upto' = g
  BY <1>6, <1>7, <1>8
<1>10. /\ g \in [Sctp!Streams -> Seq(Messages)] /\ IsFiniteSet(Slots(g))
       /\ Cardinality(Slots(g)) = Cardinality(Slots(f)) + 1 /\ Cardinality(Slots(f)) \in Nat
  <2>1. IsFiniteSet(Slots(f))
    BY <1>0, <1>7 DEF Underway
  <2>2. PICK r \in Sctp!Streams : r = s
    BY <1>4
  <2>3. PICK z \in Seq(Messages) : z = Append(f[r], m) /\ Len(z) = Len(f[r]) + 1
    <3>1. PICK w \in Seq(Messages) : w = f[r]
      OBVIOUS
    <3>2. Append(w, m) \in Seq(Messages) /\ Len(Append(w, m)) = Len(w) + 1
      BY AppendOf
    <3> QED BY <3>1, <3>2
  <2>4. g = [f EXCEPT ![r] = z]
    BY <1>8, <2>2, <2>3
  <2>5. g \in [Sctp!Streams -> Seq(Messages)] /\ g[r] = z /\ \A e \in Sctp!Streams : e # r => g[e] = f[e]
    BY <2>4
  <2> QED BY <2>1, <2>3, <2>5, SlotsMore
<1>11. SctpTyped'
  BY <1>0, <1>3, <1>9, <1>10 DEF SctpTyped
<1>12. Underway'
  <2>1. Slots(upto)' = Slots(g) /\ Slots(down)' = Slots(down)
    BY <1>3, <1>9 DEF Slots
  <2>2. PICK a, b, c : a = Cardinality(Slots(f)) /\ b = Cardinality(Slots(g)) /\ c = Cardinality(Slots(down))
    OBVIOUS
  <2>3. a \in Nat /\ b = a + 1 /\ c \in Nat /\ a + c = smsg - ngot
    BY <1>0, <1>7, <1>10, <2>2, FS_CardinalityType DEF Underway
  <2>4. smsg \in Nat /\ ngot = 0 /\ smsg < Sctp!Expected /\ Sctp!Expected \in Nat
        /\ Sctp!Expected' = Sctp!Expected
    BY <1>0, <1>3, ServerKinds DEF Underway, SctpTyped, Sctp!Expected
  <2>5. b + c = smsg' - ngot'
    BY <1>3, <2>3, <2>4
  <2>6. IsFiniteSet(Slots(upto)') /\ IsFiniteSet(Slots(down)')
        /\ Cardinality(Slots(upto)') + Cardinality(Slots(down)') = smsg' - ngot'
    BY <1>0, <1>10, <2>1, <2>2, <2>5 DEF Underway
  <2>7. CASE smsg + 1 = Sctp!Expected
    BY <1>3, <2>4, <2>6, <2>7 DEF Underway
  <2>8. CASE smsg + 1 # Sctp!Expected
    BY <1>3, <2>4, <2>6, <2>8 DEF Underway
  <2> QED BY <2>7, <2>8
<1>13. ASSUME ~sv.fork, NEW t \in Sctp!Streams PROVE StreamRight(t)'
  <2>1. PICK l, d, u, v : l = last[t] /\ d = down[Back(t)] /\ u = upto[t] /\ v = g[t]
    OBVIOUS
  <2>2. l \in Nat /\ d \in Seq(Messages) /\ u \in Seq(Messages)
    BY <1>0, <2>1, BackRight DEF SctpTyped
  <2>3. Follows(t, l, d, u) /\ SentRight(t, l + Len(d) + Len(u))
    BY <1>0, <1>13, <2>1 DEF InOrder, StreamRight
  <2>4. l + Len(d) + Len(u) \in Nat /\ Len(u) \in Nat
    BY <2>2
  <2>5. Back(t)' = Back(t)
    BY <1>3 DEF Back
  <2>6. last'[t] = l /\ down'[Back(t)'] = d /\ upto'[t] = v
    BY <1>3, <1>9, <2>1, <2>5
  <2>7. CASE t = s
    <3>1. n = l + Len(d) + Len(u) + 1
      BY <1>4, <2>3, <2>4, <2>7
    <3>2. v = Append(u, m) /\ Len(v) = Len(u) + 1
      <4>1. v = Append(u, m)
        BY <1>4, <1>7, <1>8, <2>1, <2>7
      <4> QED BY <2>2, <4>1, AppendOf
    <3>3. Follows(t, l, d, v)
      BY <1>5, <2>2, <2>3, <2>7, <3>1, <3>2, FollowsSend
    <3>4. PICK k \in Nat : k = l + Len(d) + Len(u)
      BY <2>4
    <3>5. l + Len(d) + Len(v) = k + 1 /\ n = k + 1 /\ SentRight(t, k)
      BY <2>2, <2>3, <2>4, <3>1, <3>2, <3>4
    <3>6. SentRight(t, k + 1)'
      <4>0. smsg \in Nat /\ t \in Nat /\ cl.copies \in {0, 1, 2}
        BY <1>0, ServerKinds, ClientsAssumption DEF SctpTyped, Sctp!Streams
      <4>1. CASE cl.copies = 0
        <5>1. k = 0 /\ smsg + 1 = Sctp!Expected
          <6>1. Sctp!Expected = 1 /\ smsg < 1
            BY <1>0, <1>3, <4>1 DEF Sctp!Expected, Underway
          <6>2. k = 0
            BY <1>3, <3>5, <4>1 DEF SentRight
          <6> QED BY <4>0, <6>1, <6>2
        <5>2. scpc' = "recv"
          BY <1>3, <5>1
        <5> QED BY <1>3, <4>1, <5>1, <5>2 DEF SentRight
      <4>2. CASE cl.copies = 1
        <5>1. t = smsg /\ k + 1 = 1 /\ smsg' = smsg + 1 /\ smsg' > t
          BY <1>3, <1>4, <2>7, <3>5, <4>0, <4>2
        <5> QED BY <1>3, <4>2, <5>1 DEF SentRight
      <4>3. CASE cl.copies = 2
        <5>1. /\ smsg = 2 * t + k /\ k + 1 \in {1, 2} /\ smsg' = smsg + 1
          BY <1>3, <1>4, <2>7, <3>4, <3>5, <4>0, <4>3
        <5>2. k + 1 = IF smsg' > 2 * t + 1 THEN 2 ELSE IF smsg' = 2 * t + 1 THEN 1 ELSE 0
          BY <3>4, <4>0, <5>1
        <5> QED BY <1>3, <4>3, <5>2 DEF SentRight
      <4> QED BY <4>0, <4>1, <4>2, <4>3
    <3> QED BY <2>6, <3>3, <3>5, <3>6 DEF StreamRight
  <2>8. CASE t # s
    <3>1. v = u
      BY <1>7, <1>8, <2>1, <2>8
    <3>2. SentRight(t, l + Len(d) + Len(u))'
      <4>0. PICK k \in Nat : k = l + Len(d) + Len(u)
        BY <2>4
      <4>1. smsg \in Nat /\ t \in Nat /\ s \in Nat /\ cl.copies \in {0, 1, 2} /\ SentRight(t, k)
        BY <1>0, <1>4, <2>3, <4>0, ServerKinds, ClientsAssumption DEF SctpTyped, Sctp!Streams
      <4>2. CASE cl.copies = 0
        BY <1>3, <4>0, <4>1, <4>2 DEF SentRight
      <4>3. CASE cl.copies = 1
        <5>1. (smsg' > t) <=> (smsg > t)
          BY <1>3, <1>4, <2>8, <4>1, <4>3
        <5> QED BY <1>3, <4>0, <4>1, <4>3, <5>1 DEF SentRight
      <4>4. CASE cl.copies = 2
        <5>1. smsg = 2 * s \/ smsg = 2 * s + 1
          BY <1>4, <4>1, <4>4
        <5>2. ((smsg' > 2 * t + 1) <=> (smsg > 2 * t + 1)) /\ ((smsg' = 2 * t + 1) <=> (smsg = 2 * t + 1))
          BY <1>3, <2>8, <4>1, <5>1
        <5> QED BY <1>3, <4>0, <4>1, <4>4, <5>2 DEF SentRight
      <4> QED BY <4>1, <4>2, <4>3, <4>4
    <3> QED BY <2>3, <2>6, <3>1, <3>2 DEF StreamRight
  <2> QED BY <2>7, <2>8
<1>14. InOrder'
  BY <1>0, <1>3, <1>13 DEF InOrder
<1> QED BY <1>11, <1>12, <1>14 DEF SctpInv

\* An answer is printed: it is the next one of the stream that it names.
LEMMA SctpRecv == ASSUME SctpInv, NEW s \in Sctp!Streams, Sctp!Recv(s) PROVE SctpInv'
<1>0. SctpTyped /\ Underway /\ InOrder
  BY DEF SctpInv
<1>1. /\ scpc = "recv" /\ down[s] # <<>> /\ down' = [down EXCEPT ![s] = Tail(@)] /\ ngot' = ngot + 1
      /\ last' = [last EXCEPT ![Head(down[s])[1]] = IF @ = Head(down[s])[2] - 1 THEN @ + 1 ELSE 99]
      /\ scpc' = (IF ngot + 1 = Sctp!Expected THEN "gets" ELSE "recv")
      /\ UNCHANGED <<sv, cl, upto, peeled, spc, smsg>>
  BY DEF Sctp!Recv
<1>2. PICK f \in [Sctp!Streams -> Seq(Messages)] : f = down
  BY <1>0 DEF SctpTyped
<1>3. PICK h \in [Sctp!Streams -> Nat] : h = last
  BY <1>0 DEF SctpTyped
<1>4. PICK g : g = [f EXCEPT ![s] = Tail(@)]
  OBVIOUS
<1>5. down' = g /\ f[s] # <<>>
  BY <1>1, <1>2, <1>4
<1>6. /\ g \in [Sctp!Streams -> Seq(Messages)] /\ IsFiniteSet(Slots(g))
      /\ Cardinality(Slots(g)) = Cardinality(Slots(f)) - 1 /\ Cardinality(Slots(f)) \in Nat
  <2>1. IsFiniteSet(Slots(f))
    BY <1>0, <1>2 DEF Underway
  <2>2. PICK z \in Seq(Messages) : z = Tail(f[s]) /\ Len(z) = Len(f[s]) - 1
    BY <1>5, TailOf
  <2>3. g = [f EXCEPT ![s] = z]
    BY <1>4, <2>2
  <2>4. g \in [Sctp!Streams -> Seq(Messages)] /\ g[s] = z /\ \A r \in Sctp!Streams : r # s => g[r] = f[r]
    BY <2>3
  <2> QED BY <2>1, <2>2, <2>4, SlotsLess
<1>7. PICK m \in Messages : m = Head(f[s])
  BY <1>5, TailOf
<1>8. m[1] \in Sctp!Streams /\ m[2] \in Nat
  BY DEF Messages
<1>9. PICK v \in Nat : v = IF h[m[1]] = m[2] - 1 THEN h[m[1]] + 1 ELSE 99
  <2>1. PICK y \in Nat : y = h[m[1]]
    BY <1>8
  <2>2. PICK x \in Nat : x = IF y = m[2] - 1 THEN y + 1 ELSE 99
    OBVIOUS
  <2> QED BY <2>1, <2>2
<1>10. last' = [h EXCEPT ![m[1]] = v]
  BY <1>1, <1>2, <1>3, <1>7, <1>9
<1>11. last' \in [Sctp!Streams -> Nat]
  BY <1>8, <1>10
<1>12. SctpTyped'
  <2>1. ngot' \in Nat
    BY <1>0, <1>1 DEF SctpTyped
  <2>2. scpc' \in {"gets", "send", "recv", "end"}
    BY <1>1
  <2> QED BY <1>0, <1>1, <1>5, <1>6, <1>11, <2>1, <2>2 DEF SctpTyped
<1>13. Underway'
  <2>1. Slots(upto)' = Slots(upto) /\ Slots(down)' = Slots(g)
    BY <1>1, <1>5 DEF Slots
  <2>2. PICK a, b, c : a = Cardinality(Slots(f)) /\ b = Cardinality(Slots(g)) /\ c = Cardinality(Slots(upto))
    OBVIOUS
  <2>3. a \in Nat /\ b = a - 1 /\ c \in Nat /\ c + a = smsg - ngot
    BY <1>0, <1>2, <1>6, <2>2, FS_CardinalityType DEF Underway
  <2>4. ngot \in Nat /\ smsg \in Nat /\ ngot < Sctp!Expected /\ smsg = Sctp!Expected
        /\ Sctp!Expected' = Sctp!Expected
    BY <1>0, <1>1 DEF Underway, SctpTyped, Sctp!Expected
  <2>5. c + b = smsg' - ngot'
    <3>1. smsg' = smsg /\ ngot' = ngot + 1
      BY <1>1
    <3> QED BY <2>3, <2>4, <3>1
  <2>6. IsFiniteSet(Slots(upto)') /\ IsFiniteSet(Slots(down)')
        /\ Cardinality(Slots(upto)') + Cardinality(Slots(down)') = smsg' - ngot'
    BY <1>0, <1>6, <2>1, <2>2, <2>5 DEF Underway
  <2>7. CASE ngot + 1 = Sctp!Expected
    BY <1>1, <2>4, <2>6, <2>7 DEF Underway
  <2>8. CASE ngot + 1 # Sctp!Expected
    BY <1>1, <2>4, <2>6, <2>8 DEF Underway
  <2> QED BY <2>7, <2>8
<1>14. ASSUME ~sv.fork, NEW t \in Sctp!Streams PROVE StreamRight(t)'
  <2>0. PICK r \in Sctp!Streams : Back(r) = s
    BY BackRight
  <2>1. PICK l, d, u : l = last[t] /\ d = down[Back(t)] /\ u = upto[t]
    OBVIOUS
  <2>2. l \in Nat /\ d \in Seq(Messages) /\ u \in Seq(Messages) /\ Back(t) \in Sctp!Streams
    BY <1>0, <2>1, BackRight DEF SctpTyped
  <2>3. Follows(t, l, d, u) /\ SentRight(t, l + Len(d) + Len(u))
    BY <1>0, <1>14, <2>1 DEF InOrder, StreamRight
  <2>4. Back(t)' = Back(t)
    BY <1>1 DEF Back
  <2>5. m[1] = r
    <3>1. PICK y, z, w : y = last[r] /\ z = down[Back(r)] /\ w = upto[r]
      OBVIOUS
    <3>2. y \in Nat /\ z \in Seq(Messages) /\ w \in Seq(Messages) /\ Follows(r, y, z, w)
      BY <1>0, <1>14, <3>1, BackRight DEF SctpTyped, InOrder, StreamRight
    <3>3. z = f[s] /\ z # <<>>
      BY <1>2, <1>5, <2>0, <3>1
    <3>4. Head(z) = <<r, y + 1>>
      BY <3>2, <3>3, FollowsRecv
    <3> QED BY <1>7, <3>3, <3>4
  <2>6. PICK k \in Nat : k = l + Len(d) + Len(u)
    BY <2>2
  <2>7. SentRight(t, k)'
    <3>1. SentRight(t, k)
      BY <2>3, <2>6
    <3> QED BY <1>1, <3>1 DEF SentRight
  <2>8. CASE t = r
    <3>1. d = f[s] /\ d # <<>>
      BY <1>2, <1>5, <2>0, <2>1, <2>8
    <3>2. Head(d) = <<t, l + 1>> /\ Follows(t, l + 1, Tail(d), u)
      BY <2>2, <2>3, <3>1, FollowsRecv
    <3>3. m = <<t, l + 1>>
      BY <1>7, <3>1, <3>2
    <3>4. h[m[1]] = l /\ m[2] = l + 1
      BY <1>3, <2>1, <3>3
    <3>5. v = l + 1
      BY <1>9, <2>2, <3>4
    <3>6. last'[t] = l + 1
      BY <1>10, <2>5, <2>8, <3>5
    <3>7. PICK e \in Seq(Messages) : e = Tail(d) /\ Len(e) = Len(d) - 1
      BY <2>2, <3>1, TailOf
    <3>8. down'[Back(t)'] = e /\ upto'[t] = u
      BY <1>1, <1>4, <1>5, <2>0, <2>1, <2>4, <2>8, <3>1, <3>7
    <3>9. l + 1 + Len(e) + Len(u) = k
      BY <2>2, <2>6, <3>7
    <3> QED BY <2>7, <3>2, <3>6, <3>7, <3>8, <3>9 DEF StreamRight
  <2>9. CASE t # r
    <3>1. Back(t) # s
      BY <2>0, <2>9, BackRight
    <3>2. last'[t] = l /\ down'[Back(t)'] = d /\ upto'[t] = u
      BY <1>1, <1>2, <1>3, <1>4, <1>5, <1>10, <2>1, <2>2, <2>4, <2>5, <2>9, <3>1
    <3> QED BY <2>3, <2>6, <2>7, <3>2 DEF StreamRight
  <2> QED BY <2>8, <2>9
<1>15. InOrder'
  BY <1>0, <1>1, <1>14 DEF InOrder
<1> QED BY <1>12, <1>13, <1>15 DEF SctpInv

\* The server answers a message on the stream that goes with the one it came on.
LEMMA SctpAnswer == ASSUME SctpInv, NEW s \in Sctp!Streams, Sctp!Answer(s) PROVE SctpInv'
<1>0. SctpTyped /\ Underway /\ InOrder
  BY DEF SctpInv
<1>1. PICK o \in Sctp!Streams : o = Sctp!AnswerOn(s) /\ (~peeled => o = Back(s))
  BY AnswerStream
<1>2. /\ upto[s] # <<>> /\ upto' = [upto EXCEPT ![s] = Tail(@)]
      /\ down' = [down EXCEPT ![o] = Append(@, Head(upto[s]))]
      /\ peeled' = (peeled \/ sv.fork) /\ UNCHANGED <<sv, cl, spc, scpc, smsg, ngot, last>>
  BY <1>1 DEF Sctp!Answer
<1>3. PICK f \in [Sctp!Streams -> Seq(Messages)] : f = down
  BY <1>0 DEF SctpTyped
<1>4. PICK e \in [Sctp!Streams -> Seq(Messages)] : e = upto
  BY <1>0 DEF SctpTyped
<1>5. e[s] # <<>>
  BY <1>2, <1>4
<1>6. PICK m \in Messages : m = Head(e[s])
  BY <1>5, TailOf
<1>7. PICK g : g = [f EXCEPT ![o] = Append(@, m)]
  OBVIOUS
<1>8. PICK h : h = [e EXCEPT ![s] = Tail(@)]
  OBVIOUS
<1>9. down' = g /\ upto' = h
  BY <1>2, <1>3, <1>4, <1>6, <1>7, <1>8
<1>10. /\ g \in [Sctp!Streams -> Seq(Messages)] /\ IsFiniteSet(Slots(g))
       /\ Cardinality(Slots(g)) = Cardinality(Slots(f)) + 1 /\ Cardinality(Slots(f)) \in Nat
  <2>1. IsFiniteSet(Slots(f))
    BY <1>0, <1>3 DEF Underway
  <2>2. PICK z \in Seq(Messages) : z = Append(f[o], m) /\ Len(z) = Len(f[o]) + 1
    <3>1. PICK w \in Seq(Messages) : w = f[o]
      OBVIOUS
    <3>2. Append(w, m) \in Seq(Messages) /\ Len(Append(w, m)) = Len(w) + 1
      BY AppendOf
    <3> QED BY <3>1, <3>2
  <2>3. g = [f EXCEPT ![o] = z]
    BY <1>7, <2>2
  <2>4. g \in [Sctp!Streams -> Seq(Messages)] /\ g[o] = z /\ \A r \in Sctp!Streams : r # o => g[r] = f[r]
    BY <2>3
  <2> QED BY <2>1, <2>2, <2>4, SlotsMore
<1>11. /\ h \in [Sctp!Streams -> Seq(Messages)] /\ IsFiniteSet(Slots(h))
       /\ Cardinality(Slots(h)) = Cardinality(Slots(e)) - 1 /\ Cardinality(Slots(e)) \in Nat
  <2>1. IsFiniteSet(Slots(e))
    BY <1>0, <1>4 DEF Underway
  <2>2. PICK z \in Seq(Messages) : z = Tail(e[s]) /\ Len(z) = Len(e[s]) - 1
    BY <1>5, TailOf
  <2>3. h = [e EXCEPT ![s] = z]
    BY <1>8, <2>2
  <2>4. h \in [Sctp!Streams -> Seq(Messages)] /\ h[s] = z /\ \A r \in Sctp!Streams : r # s => h[r] = e[r]
    BY <2>3
  <2> QED BY <2>1, <2>2, <2>4, SlotsLess
<1>12. SctpTyped'
  BY <1>0, <1>2, <1>9, <1>10, <1>11 DEF SctpTyped
<1>13. Underway'
  <2>1. Slots(upto)' = Slots(h) /\ Slots(down)' = Slots(g)
    BY <1>9 DEF Slots
  <2>2. PICK a, b, c, d : /\ a = Cardinality(Slots(f)) /\ b = Cardinality(Slots(g))
                          /\ c = Cardinality(Slots(e)) /\ d = Cardinality(Slots(h))
    OBVIOUS
  <2>3. a \in Nat /\ c \in Nat /\ b = a + 1 /\ d = c - 1
    BY <1>10, <1>11, <2>2
  <2>4. d + b = c + a
    BY <2>3
  <2>5. c + a = smsg - ngot
    BY <1>0, <1>3, <1>4, <2>2 DEF Underway
  <2>6. Sctp!Expected' = Sctp!Expected
    BY <1>2 DEF Sctp!Expected
  <2>7. IsFiniteSet(Slots(upto)') /\ IsFiniteSet(Slots(down)')
        /\ Cardinality(Slots(upto)') + Cardinality(Slots(down)') = smsg' - ngot'
    BY <1>2, <1>10, <1>11, <2>1, <2>2, <2>4, <2>5
  <2> QED BY <1>0, <1>2, <2>6, <2>7 DEF Underway
<1>14. ASSUME ~sv.fork, NEW t \in Sctp!Streams PROVE StreamRight(t)'
  <2>0. o = Back(s)
    BY <1>0, <1>1, <1>14 DEF InOrder
  <2>1. PICK l, d, u : l = last[t] /\ d = down[Back(t)] /\ u = upto[t]
    OBVIOUS
  <2>2. l \in Nat /\ d \in Seq(Messages) /\ u \in Seq(Messages) /\ Back(t) \in Sctp!Streams
    BY <1>0, <2>1, BackRight DEF SctpTyped
  <2>3. Follows(t, l, d, u) /\ SentRight(t, l + Len(d) + Len(u))
    BY <1>0, <1>14, <2>1 DEF InOrder, StreamRight
  <2>4. Back(t)' = Back(t) /\ last'[t] = l
    BY <1>2, <2>1 DEF Back
  <2>5. PICK k \in Nat : k = l + Len(d) + Len(u)
    BY <2>2
  <2>6. SentRight(t, k)'
    <3>1. SentRight(t, k)
      BY <2>3, <2>5
    <3> QED BY <1>2, <3>1 DEF SentRight
  <2>7. CASE t = s
    <3>1. u = e[s] /\ u # <<>> /\ m = Head(u) /\ Back(t) = o
      BY <1>4, <1>5, <1>6, <2>0, <2>1, <2>7
    <3>2. Follows(t, l, Append(d, m), Tail(u))
      BY <2>2, <2>3, <3>1, FollowsAnswer
    <3>3. PICK x \in Seq(Messages) : x = Append(d, m) /\ Len(x) = Len(d) + 1
      BY <2>2, AppendOf
    <3>4. PICK y \in Seq(Messages) : y = Tail(u) /\ Len(y) = Len(u) - 1
      BY <2>2, <3>1, TailOf
    <3>5. g[o] = x
      BY <1>3, <1>7, <2>1, <3>1, <3>3
    <3>6. h[t] = y
      BY <1>4, <1>8, <2>7, <3>1, <3>4
    <3>7. down'[Back(t)'] = x /\ upto'[t] = y
      BY <1>9, <2>4, <3>1, <3>5, <3>6
    <3>8. l + Len(x) + Len(y) = k
      BY <2>2, <2>5, <3>3, <3>4
    <3> QED BY <2>4, <2>6, <3>2, <3>3, <3>4, <3>7, <3>8 DEF StreamRight
  <2>8. CASE t # s
    <3>1. Back(t) # o
      BY <2>0, <2>8, BackRight
    <3>2. down'[Back(t)'] = d /\ upto'[t] = u
      BY <1>3, <1>4, <1>7, <1>8, <1>9, <2>1, <2>2, <2>4, <2>8, <3>1
    <3> QED BY <2>3, <2>4, <2>5, <2>6, <3>2 DEF StreamRight
  <2> QED BY <2>7, <2>8
<1>15. InOrder'
  BY <1>0, <1>2, <1>14 DEF InOrder
<1> QED BY <1>12, <1>13, <1>15 DEF SctpInv

\* A notification, or a part of a message, leaves all of this alone.
LEMMA SctpNext == SctpInv /\ (Sctp!Next \/ UNCHANGED sctpVars) => SctpInv'
<1> SUFFICES ASSUME SctpInv, Sctp!Next \/ UNCHANGED sctpVars PROVE SctpInv'
  OBVIOUS
<1>1. CASE UNCHANGED <<sv, cl, upto, down, peeled, spc, scpc, smsg, ngot, last>>
  <2>1. SctpTyped'
    BY <1>1 DEF SctpInv, SctpTyped
  <2>2. Slots(upto)' = Slots(upto) /\ Slots(down)' = Slots(down) /\ Sctp!Expected' = Sctp!Expected
    BY <1>1 DEF Slots, Sctp!Expected
  <2>3. Underway'
    BY <1>1, <2>2 DEF SctpInv, Underway
  <2>4. ASSUME NEW s \in Sctp!Streams, StreamRight(s) PROVE StreamRight(s)'
    <3>1. Back(s)' = Back(s)
      BY <1>1 DEF Back
    <3>2. last'[s] = last[s] /\ down'[Back(s)'] = down[Back(s)] /\ upto'[s] = upto[s]
      BY <1>1, <3>1
    <3>3. PICK k : k = last[s] + Len(down[Back(s)]) + Len(upto[s])
      OBVIOUS
    <3>4. SentRight(s, k)'
      <4>1. SentRight(s, k)
        BY <2>4, <3>3 DEF StreamRight
      <4> QED BY <1>1, <4>1 DEF SentRight
    <3> QED BY <2>4, <3>2, <3>3, <3>4 DEF StreamRight
  <2>5. InOrder'
    BY <1>1, <2>4 DEF SctpInv, InOrder
  <2> QED BY <2>1, <2>3, <2>5 DEF SctpInv
<1>2. CASE Sctp!RecvNote
  <2>1. scpc = "recv" /\ ngot' = ngot /\ ngot < Sctp!Expected /\ Sctp!Expected' = Sctp!Expected
        /\ scpc' = IF ngot' = Sctp!Expected THEN "gets" ELSE "recv"
    BY <1>2 DEF Sctp!RecvNote, SctpInv, Underway, Sctp!Expected
  <2>2. ngot \in Nat /\ Sctp!Expected \in Nat
    BY ServerKinds DEF SctpInv, SctpTyped
  <2>3. scpc' = scpc
    BY <2>1, <2>2
  <2> QED BY <1>1, <1>2, <2>1, <2>3 DEF Sctp!RecvNote
<1>3. CASE Sctp!ServNote \/ (\E s \in Sctp!Streams : Sctp!ServPart(s)) \/ UNCHANGED sctpVars
  BY <1>1, <1>3 DEF Sctp!ServNote, Sctp!ServPart, sctpVars
<1> QED BY <1>2, <1>3, SctpGets, SctpSend, SctpRecv, SctpAnswer DEF Sctp!Next

LEMMA SctpRight == SctpInv => Sctp!EchoInOrder /\ Sctp!NothingLeft
<1> SUFFICES ASSUME SctpInv PROVE Sctp!EchoInOrder /\ Sctp!NothingLeft
  OBVIOUS
<1>1. ASSUME ~sv.fork, NEW s \in Sctp!Streams PROVE last[s] # 99
  <2>1. PICK l, d, u : l = last[s] /\ d = down[Back(s)] /\ u = upto[s]
    OBVIOUS
  <2>2. l \in Nat /\ d \in Seq(Messages) /\ u \in Seq(Messages) /\ SentRight(s, l + Len(d) + Len(u))
    BY <1>1, <2>1, BackRight DEF SctpInv, SctpTyped, InOrder, StreamRight
  <2>3. PICK k \in Nat : k = l + Len(d) + Len(u)
    BY <2>2
  <2>4. SentRight(s, k)
    BY <2>2, <2>3
  <2>5. k \in {0, 1, 2}
    BY <2>4 DEF SentRight
  <2>6. l <= k
    BY <2>2, <2>3
  <2> QED BY <2>1, <2>2, <2>5, <2>6
<1>2. Sctp!EchoInOrder
  BY <1>1 DEF Sctp!EchoInOrder
<1>3. ASSUME scpc = "gets" PROVE \A s \in Sctp!Streams : down[s] = <<>> /\ upto[s] = <<>>
  <2>1. smsg = ngot
    BY <1>3 DEF SctpInv, Underway
  <2> QED BY <2>1, NoneUnderway DEF SctpInv
<1> QED BY <1>2, <1>3 DEF Sctp!NothingLeft

-----------------------------------------------------------------------------
(* One of the programs runs.                                               *)

ClientsInv ==
  SetupInv /\ SockInv /\ WebInv /\ BeatInv /\ EchoInv /\ OobInv /\ SctpInv

LEMMA ClientsInit == MCInit => ClientsInv
BY SetupInit, SockInit, WebInit, BeatInit, EchoInit, OobInit, SctpInit DEF MCInit, ClientsInv

LEMMA ClientsNext == ClientsInv /\ [MCNext]_MCvars => ClientsInv'
<1> SUFFICES ASSUME ClientsInv, [MCNext]_MCvars PROVE ClientsInv'
  OBVIOUS
<1>1. Setup!Next \/ UNCHANGED setupVars
  BY DEF MCNext, MCvars, Echoes, Fetches, Socks, Beats, Oobs, Sctps, Setups
<1>2. Sock!Next \/ UNCHANGED sockVars
  BY DEF MCNext, MCvars, Echoes, Fetches, Socks, Beats, Oobs, Sctps, Setups
<1>3. Web!Next \/ UNCHANGED webVars
  BY DEF MCNext, MCvars, Echoes, Fetches, Socks, Beats, Oobs, Sctps, Setups
<1>4. Beat!Next \/ UNCHANGED beatVars
  BY DEF MCNext, MCvars, Echoes, Fetches, Socks, Beats, Oobs, Sctps, Setups
<1>5. Next \/ UNCHANGED vars
  BY DEF MCNext, MCvars, Echoes, Fetches, Socks, Beats, Oobs, Sctps, Setups
<1>6. Oob!Next \/ UNCHANGED oobVars
  BY DEF MCNext, MCvars, Echoes, Fetches, Socks, Beats, Oobs, Sctps, Setups
<1>7. Sctp!Next \/ UNCHANGED sctpVars
  BY DEF MCNext, MCvars, Echoes, Fetches, Socks, Beats, Oobs, Sctps, Setups
<1> QED BY <1>1, <1>2, <1>3, <1>4, <1>5, <1>6, <1>7, SetupNext, SockNext, WebNext, BeatNext,
           EchoNext, OobNext, SctpNext DEF ClientsInv

\* Every state keeps what the programs keep.
LEMMA ClientsKeep == MCSpec => []ClientsInv
<1>1. MCInit => ClientsInv
  BY ClientsInit
<1>2. ClientsInv /\ [MCNext]_MCvars => ClientsInv'
  BY ClientsNext
<1> QED BY <1>1, <1>2, PTL DEF MCSpec

\* When data begin to move the program has one socket, whichever addresses failed on
\* the way to it, and sock has set on it what its options ask for: for every number of
\* addresses and every set of options.
THEOREM SocketStaysReady == MCSpec => []SocketReady
<1>1. ClientsInv => SocketReady
  BY SetupRight DEF ClientsInv, SockInv, SocketReady
<1> QED BY <1>1, ClientsKeep, PTL

LEMMA WebRight == WebInv => CountsRight
<1> SUFFICES ASSUME WebInv PROVE CountsRight
  OBVIOUS
<1>1. CASE web = "web02"
  BY <1>1 DEF CountsRight, Web!CountsRight, Web!SetsOpen
<1>2. CASE web # "web02"
  <2>1. Counters /\ Web!SetsOpen
    BY <1>2 DEF WebInv
  <2>2. Web!Cardinality(Web!Unstarted) = Cardinality(Web!Unstarted)
        /\ Web!Cardinality(Left) = Cardinality(Left)
    BY SameCardinality
  <2>3. Web!CountsRight
    BY <2>1, <2>2 DEF Counters, Web!CountsRight, Left
  <2> QED BY <2>1, <2>3 DEF CountsRight
<1> QED BY <1>1, <1>2

\* The counters by which the web clients (web01, web03, nonblock/web) know when they
\* are done count what they are meant to count, and nonblock/web selects on what is
\* open and only on that: for every number of files and of connections at once.
THEOREM CountsStayRight == MCSpec => []CountsRight
<1>1. ClientsInv => CountsRight
  BY WebRight DEF ClientsInv
<1> QED BY <1>1, ClientsKeep, PTL

\* What was sent comes out at the other end, once and in order, in the versions of
\* str_cli(), the out-of-band programs, the heartbeat and the SCTP programs, as far as
\* DataComesThrough says it of each: for every number of lines and streams, every size
\* of a buffer and every interleaving.
THEOREM NothingGoesAstray == MCSpec => []DataComesThrough
<1>1. BeatInv => Beat!NoBeatAfterShutdown
  BY DEF BeatInv, Beat!NoBeatAfterShutdown
<1>2. ClientsInv => DataComesThrough
  BY <1>1, EchoRight, OobRight, SctpRight DEF ClientsInv, DataComesThrough
<1> QED BY <1>2, ClientsKeep, PTL
=============================================================================
