---------------------------- MODULE SocketSetup -----------------------------
(***************************************************************************)
(* How the programs come to the socket they work with: the calls of their  *)
(* main(), through the functions of lib/ that try the addresses of a host  *)
(* one after the other, and the wrapper functions, which end the program   *)
(* when a call fails.  The daytime servers then serve their clients in     *)
(* turn; a client may abort its connection before or after accept().       *)
(***************************************************************************)
EXTENDS Integers, Sequences

CONSTANTS
  NADDR,       \* addresses of a host
  NWAIT        \* bound: connections to a server

VARIABLES
  prog,        \* the program
  mpc,         \* its place: "walk", "use", "accept", "serve", "quit", "end"
  call, addr,  \* the next of its calls, and the address they are made with
  fd,          \* what sockfd is: "none", "new", "bound", "listening", "connected"
  lost,        \* sockets that are open and that no variable holds
  queue,       \* connections completed and not accepted: "up" or "aborted"
  reset,       \* the client of the connection being served has reset it
  served, came

setvars == <<prog, mpc, call, addr, fd, lost, queue, reset, served, came>>
srvVars == <<queue, reset, served, came>>

\* all: every address is tried; calls: made for each; last: made at the end;
\* serves: connections are accepted and served.
Program(all, calls, last, serves) == [all |-> all, calls |-> calls, last |-> last, serves |-> serves]

\* lib/: the functions that walk the list of addresses.
tcp_connect == Program(TRUE, <<"socket", "connect">>, <<>>, FALSE)
udp_connect == tcp_connect
udp_client == Program(TRUE, <<"socket">>, <<>>, FALSE)
tcp_listen == Program(TRUE, <<"socket", "bind">>, <<"listen">>, TRUE)
udp_server == Program(TRUE, <<"socket", "bind">>, <<>>, FALSE)
udp_server_reuseaddr == udp_server

\* Clients with one address, given as a number.
tcpcli01 == Program(FALSE, <<"socket", "connect">>, <<>>, FALSE)
advio_tcpcli02 == tcpcli01
advio_tcpcli03 == tcpcli01
advio_tcpcli04 == tcpcli01
nonblock_tcpcli01 == tcpcli01
nonblock_tcpcli02 == tcpcli01
nonblock_tcpcli03 == tcpcli01
nonblock_tcpcli04 == tcpcli01
oob_tcpcli02 == tcpcli01
select_tcpcli01 == tcpcli01
select_tcpcli02 == tcpcli01
select_tcpcli03 == tcpcli01
tcpcli05 == tcpcli01
tcpcli06 == tcpcli01
tcpcli07 == tcpcli01
tcpcli08 == tcpcli01
tcpcli09 == tcpcli01
tcpcli10 == tcpcli01
tcpcli11 == tcpcli01
ipopts_tcpcli01 == tcpcli01
unixstrcli01 == tcpcli01
intro_daytimetcpcli == tcpcli01
intro_daytimetcpcli1 == tcpcli01
intro_daytimetcpcli2 == tcpcli01
intro_daytimetcpcli3 == tcpcli01
intro_daytimetcpcliv6 == tcpcli01
advio_tcpcli01 == Program(FALSE, <<"socket", "connect_timeo">>, <<>>, FALSE)
nonblock_daytimetcpcli == Program(FALSE, <<"socket", "connect_nonb">>, <<>>, FALSE)

\* Clients of a host with several addresses.
threads_tcpcli01 == tcp_connect
threads_tcpcli02 == tcp_connect
advio_daytimetcpcli == tcp_connect
names_daytimetcpcli == tcp_connect
unixdomain_daytimetcpcli == tcp_connect
names_daytimetcpcli1 == tcp_connect
names_daytimetcpcli2 == tcp_connect
names_daytimetcpcli3 == tcp_connect

\* Datagram clients.
udpcli01 == Program(FALSE, <<"socket">>, <<>>, FALSE)
advio_udpcli01 == udpcli01
advio_udpcli02 == udpcli01
advio_udpcli03 == udpcli01
bcast_udpcli01 == udpcli01
bcast_udpcli02 == udpcli01
bcast_udpcli03 == udpcli01
bcast_udpcli04 == udpcli01
bcast_udpcli05 == udpcli01
bcast_udpcli06 == udpcli01
ipopts_udpcli01 == udpcli01
mcast_udpcli01 == udpcli01
mcast_udpcli05 == udpcli01
rtt_udpcli01 == udpcli01
sigio_udpcli01 == udpcli01
udpcli02 == udpcli01
udpcli03 == udpcli01
udpcli04 == udpcli01
udpcli06 == udpcli01
udpcli08 == udpcli01
udpcli09 == tcpcli01
icmpd_udpcli01 == udp_client
udpcli10 == udp_client
names_daytimeudpcli1 == udp_client
advio_daytimeudpcli3 == udp_client
names_daytimeudpcli2 == udp_connect
advio_daytimeudpcli4 == udp_connect
mcast_udpcli06 == Program(TRUE, <<"socket">>, <<"bind">>, FALSE)
ssntp_main == mcast_udpcli06

\* Servers.
intro_daytimetcpsrv == Program(FALSE, <<"socket", "bind">>, <<"listen">>, TRUE)
intro_daytimetcpsrv1 == intro_daytimetcpsrv
intro_daytimetcpsrv2 == intro_daytimetcpsrv
intro_daytimetcpsrv3 == intro_daytimetcpsrv
intro_daytimetcpsrvv6 == intro_daytimetcpsrv
names_daytimetcpsrv1 == tcp_listen
names_daytimetcpsrv2 == tcp_listen
names_daytimetcpsrv3 == tcp_listen
names_daytimetcpsrv4 == tcp_listen
inetd_daytimetcpsrv2 == tcp_listen
unixdomain_daytimetcpsrv2 == tcp_listen
udpserv01 == Program(FALSE, <<"socket", "bind">>, <<>>, FALSE)
advio_udpserv01 == udpserv01
ipopts_udpserv01 == udpserv01
mcast_udpserv01 == udpserv01
sigio_udpserv01 == udpserv01
udpserv06 == udpserv01
udpserv07 == udpserv01
unixdgserv01 == udpserv01
unixdgcli01 == udpserv01
udpcli05 == udpserv01
names_daytimeudpsrv2 == udp_server
names_daytimeudpsrv3 == udp_server

Programs == {tcp_connect, udp_client, tcp_listen, udp_server, tcpcli01, advio_tcpcli01,
             nonblock_daytimetcpcli, udpcli01, mcast_udpcli06, intro_daytimetcpsrv, udpserv01}

Init ==
  /\ prog \in Programs /\ mpc = "walk" /\ call = 1 /\ addr = 1 /\ fd = "none" /\ lost = 0
  /\ queue = <<>> /\ reset = FALSE /\ served = 0 /\ came = 0

-----------------------------------------------------------------------------
\* What a call makes of the socket.
After(c) ==
  CASE c = "socket" -> "new" [] c = "bind" -> "bound" [] c = "listen" -> "listening"
    [] c \in {"connect", "connect_timeo", "connect_nonb"} -> "connected"
\* What sockfd may be when the call is made.
Before(c) ==
  CASE c = "socket" -> {"none"} [] c = "bind" -> {"new"} [] c = "listen" -> {"bound"}
    [] c \in {"connect", "connect_timeo", "connect_nonb"} -> {"new"}

\* A socket that is overwritten while it is open is lost.
Keep(c) == lost' = IF c = "socket" /\ fd # "none" THEN lost + 1 ELSE lost

CallOK(c) ==
  /\ fd' = After(c) /\ Keep(c) /\ call' = call + 1
  /\ UNCHANGED <<prog, mpc, addr, srvVars>>

Walk ==
  /\ mpc = "walk" /\ call <= Len(prog.calls) /\ CallOK(prog.calls[call])

\* Mutant: the socket of an address that failed is not closed.
LeftOpen == fd

\* Close(sockfd), "ignore this one".
Closed == "none"

\* A call fails.  A list goes on with the next address; otherwise, or with no
\* address left, err_sys() ends the program.
NextAddress ==
  /\ mpc = "walk" /\ call <= Len(prog.calls) /\ prog.all
  /\ lost' = lost + (IF prog.calls[call] = "socket" /\ fd # "none" THEN 1 ELSE 0)
  /\ fd' = (IF prog.calls[call] = "socket" THEN "none" ELSE Closed)
  /\ call' = 1 /\ addr' = addr + 1
  /\ mpc' = IF addr = NADDR THEN "quit" ELSE "walk"
  /\ UNCHANGED <<prog, srvVars>>

\* connect_timeo() closes the socket when the connect fails or the alarm ends
\* it; connect_nonb() does, but for an error at once.
connect_timeo_fails == {"none"}
connect_nonb_fails == {"none", "new"}

\* The wrappers end the program, and so do intro/daytimetcpcli's own tests.
CallFails ==
  /\ mpc = "walk" /\ call <= Len(prog.calls) /\ ~prog.all /\ mpc' = "quit"
  /\ LET c == prog.calls[call] IN
       fd' \in CASE c = "connect_timeo" -> connect_timeo_fails [] c = "connect_nonb" -> connect_nonb_fails
                 [] c \notin {"connect_timeo", "connect_nonb"} -> {fd}
  /\ UNCHANGED <<prog, call, addr, lost, srvVars>>

\* Listen() after the list has been walked, Bind() in mcast/udpcli06 and ssntp.
Last ==
  /\ mpc = "walk" /\ call > Len(prog.calls)
  /\ \/ /\ call <= Len(prog.calls) + Len(prog.last) /\ CallOK(prog.last[1])
     \/ /\ call = Len(prog.calls) + Len(prog.last) + 1
        /\ mpc' = (IF prog.serves THEN "accept" ELSE "use")
        /\ UNCHANGED <<prog, call, addr, fd, lost, srvVars>>

\* str_cli(), dg_cli(), the loop that reads the time: to the end.
Use ==
  /\ mpc = "use" /\ mpc' = "end"
  /\ UNCHANGED <<prog, call, addr, fd, lost, srvVars>>

-----------------------------------------------------------------------------
(* The daytime servers.                                                    *)

Come ==
  /\ fd = "listening" /\ came < NWAIT /\ mpc # "quit"
  /\ came' = came + 1 /\ queue' = Append(queue, "up")
  /\ UNCHANGED <<prog, mpc, call, addr, fd, lost, reset, served>>
Abort(i) ==
  /\ i \in DOMAIN queue /\ queue[i] = "up" /\ queue' = [queue EXCEPT ![i] = "aborted"]
  /\ UNCHANGED <<prog, mpc, call, addr, fd, lost, reset, served, came>>
Reset ==
  /\ mpc = "serve" /\ ~reset /\ reset' = TRUE
  /\ UNCHANGED <<prog, mpc, call, addr, fd, lost, queue, served, came>>

\* Accept() tries again after ECONNABORTED or EPROTO.
Again == "accept"

Accept ==
  /\ mpc = "accept" /\ queue # <<>> /\ queue' = Tail(queue)
  /\ mpc' = IF Head(queue) = "up" THEN "serve" ELSE Again
  /\ UNCHANGED <<prog, call, addr, fd, lost, reset, served, came>>

\* Write() to a connection that was reset ends the server; then Close(connfd).
Serve ==
  /\ mpc = "serve" /\ reset' = FALSE
  /\ \/ reset /\ mpc' = "quit" /\ UNCHANGED served
     \/ ~reset /\ mpc' = "accept" /\ served' = served + 1
  /\ UNCHANGED <<prog, call, addr, fd, lost, queue, came>>

Main == Walk \/ NextAddress \/ CallFails \/ Last \/ Use \/ Accept \/ Serve
Next == Main \/ Come \/ Reset \/ \E i \in DOMAIN queue : Abort(i)

Fairness == WF_setvars(Main)
Spec == Init /\ [][Next]_setvars /\ Fairness

-----------------------------------------------------------------------------
\* lib/tcp_connect.c and the others: whichever calls fail for whichever
\* addresses, no socket is left open, and the program goes on with one that
\* every call it makes for an address has succeeded on.
OneSocket ==
  /\ lost = 0
  /\ mpc = "walk" /\ call <= Len(prog.calls) => fd \in Before(prog.calls[call])
  /\ mpc \in {"use", "accept", "serve"} =>
       fd = After(IF prog.last # <<>> THEN prog.last[1] ELSE prog.calls[Len(prog.calls)])

\* lib/wrapsock.c Accept(), intro/daytimetcpsrv.c: connections that abort
\* before they are accepted do not keep the others from being served; a client
\* that resets its connection while it is served does end these servers.
QueueServed == ([](~reset)) => [](queue # <<>> => <>(queue = <<>>))
=============================================================================
