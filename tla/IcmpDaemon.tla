----------------------------- MODULE IcmpDaemon -----------------------------
(***************************************************************************)
(* icmpd: programs pass the daemon their UDP socket over a Unix domain     *)
(* connection, and it forwards the ICMP errors for that socket's port.     *)
(* The clients are icmpd/dgcli01.c; they may be killed at any time, and a  *)
(* port may be bound again once its owner is gone.                         *)
(***************************************************************************)
EXTENDS Integers, Sequences, FiniteSets

CONSTANTS
  ClientIds,   \* processes that use the daemon, numbered as they start
  NSLOT,       \* FD_SETSIZE, the size of client[]
  Ports,       \* local ports, not 0
  NERR         \* bound: ICMP errors raised

VARIABLES
  cli,             \* each client: its place, its socket's family and port, and
                   \* whether the descriptor it sent is still to be read
  backlog,         \* connections not yet accepted
  client, maxi,    \* the daemon's table
  icmp, nerr,      \* ports of the errors queued on fd4 and fd6
  ipc, rdy, pos,   \* the daemon's place, what select() said, the loop's index
  nready,
  stream, shown    \* what was written to each client; errors it has printed

procVars == <<cli, backlog, stream, shown>>
daemonVars == <<client, maxi, ipc, rdy, nready, pos>>
icvars == <<procVars, daemonVars, icmp, nerr>>

AF_INET == 4
AF_INET6 == 6
Families == {AF_INET, AF_INET6}
Slots == 0 .. NSLOT - 1
Up == {"connect", "sent", "ok"}        \* places of a client that is running
OK == <<0, 1>>                         \* the byte '1'; an error is <<family, port>>
ERR == <<0, 0>>                        \* the byte '0'
Place(f) == IF f = AF_INET THEN "v4" ELSE "v6"

Init ==
  /\ cli = [c \in ClientIds |-> [pc |-> "off", family |-> 0, port |-> 0, fd |-> FALSE]]
  /\ backlog = <<>>
  /\ client = [i \in Slots |-> [connfd |-> -1, family |-> 0, lport |-> 0]] /\ maxi = -1
  /\ icmp = [f \in Families |-> <<>>] /\ nerr = 0
  /\ ipc = "select" /\ rdy = [listen |-> FALSE, raw |-> {}, conn |-> {}] /\ nready = 0 /\ pos = 0
  /\ stream = [c \in ClientIds |-> <<>>] /\ shown = [c \in ClientIds |-> {}]

-----------------------------------------------------------------------------
(* dgcli01.                                                                *)

\* Sock_bind_wild() and Connect(); the port is one that nobody has bound.
Start(c) ==
  /\ cli[c].pc = "off" /\ ipc # "dead" /\ \A d \in ClientIds : d < c => cli[d].pc # "off"
  /\ \E f \in Families, p \in Ports :
       /\ \A d \in ClientIds : cli[d].pc \in Up => <<cli[d].family, cli[d].port>> # <<f, p>>
       /\ cli' = [cli EXCEPT ![c] = [pc |-> "connect", family |-> f, port |-> p, fd |-> FALSE]]
  /\ backlog' = Append(backlog, c)
  /\ UNCHANGED <<daemonVars, icmp, nerr, stream, shown>>

WriteFd(c) ==
  /\ cli[c].pc = "connect" /\ cli' = [cli EXCEPT ![c].pc = "sent", ![c].fd = TRUE]
  /\ UNCHANGED <<backlog, daemonVars, icmp, nerr, stream, shown>>

\* One byte is read; anything but '1', a forwarded error too, ends the program.
ReadByte(c) ==
  /\ cli[c].pc = "sent" /\ stream[c] # <<>>
  /\ cli' = [cli EXCEPT ![c].pc = IF Head(stream[c]) = OK THEN "ok" ELSE "quit"]
  /\ stream' = [stream EXCEPT ![c] = Tail(@)]
  /\ UNCHANGED <<backlog, daemonVars, icmp, nerr, shown>>

\* Sendto(), answered by an ICMP error; the host's raw sockets get it.
Sendto(c) ==
  /\ cli[c].pc = "ok" /\ nerr < NERR /\ nerr' = nerr + 1
  /\ icmp' = [icmp EXCEPT ![cli[c].family] = Append(@, cli[c].port)]
  /\ UNCHANGED <<procVars, daemonVars>>

ReadError(c) ==
  /\ cli[c].pc = "ok" /\ stream[c] # <<>>
  /\ shown' = [shown EXCEPT ![c] = @ \cup {Head(stream[c])}]
  /\ stream' = [stream EXCEPT ![c] = Tail(@)]
  /\ UNCHANGED <<cli, backlog, daemonVars, icmp, nerr>>

\* The end of the input, a signal, or the daemon's end.
Leave(c) ==
  /\ cli[c].pc \in Up /\ cli' = [cli EXCEPT ![c].pc = "quit"]
  /\ UNCHANGED <<backlog, daemonVars, icmp, nerr, stream, shown>>

-----------------------------------------------------------------------------
(* The daemon.                                                             *)

\* return(--nready): with nothing left, select() is called again.
Done(then) == nready' = nready - 1 /\ ipc' = IF nready <= 1 THEN "select" ELSE then

InTable == {client[i].connfd : i \in Slots} \ {-1}

\* A connection can be read when the descriptor has come, or it was closed.
Select ==
  LET new == [listen |-> backlog # <<>>,
              raw |-> {f \in Families : icmp[f] # <<>>},
              conn |-> {c \in InTable : cli[c].fd \/ cli[c].pc = "quit"}]
      n == Cardinality(new.raw) + Cardinality(new.conn) + (IF new.listen THEN 1 ELSE 0)
  IN  /\ ipc = "select" /\ n > 0
      /\ rdy' = new /\ nready' = n /\ ipc' = "listen" /\ pos' = 0
      /\ UNCHANGED <<procVars, client, maxi, icmp, nerr>>

NewMaxi(i) == IF i > maxi THEN i ELSE maxi

\* The entry keeps the family and the port of the client that had it before.
readable_listen ==
  LET free == {i \in Slots : client[i].connfd = -1}
      i == CHOOSE x \in free : \A y \in free : x <= y
  IN  /\ ipc = "listen" /\ rdy.listen
      /\ backlog' = Tail(backlog)
      /\ \/ /\ free = {} /\ cli' = [cli EXCEPT ![Head(backlog)].pc = "quit"]
            /\ UNCHANGED <<client, maxi>>
         \/ /\ free # {} /\ client' = [client EXCEPT ![i].connfd = Head(backlog)]
            /\ maxi' = NewMaxi(i) /\ UNCHANGED cli
      /\ Done("v4")
      /\ UNCHANGED <<icmp, nerr, rdy, pos, stream, shown>>

\* Mutant: the family of the socket is not looked at.
AnyFamily(f, port) == {client[i].connfd : i \in
  {j \in 0 .. maxi : client[j].connfd # -1 /\ client[j].lport = port}}

\* The clients in the table that an error for this port is written to.
Owners(f, port) == {client[i].connfd : i \in
  {j \in 0 .. maxi : client[j].connfd # -1 /\ client[j].family = f /\ client[j].lport = port}}

\* Writing to a client that is gone raises SIGPIPE, which nothing catches.
ReadableRaw(f, then) ==
  LET port == Head(icmp[f])
      to == Owners(f, port)
  IN  /\ ipc = Place(f) /\ f \in rdy.raw
      /\ icmp' = [icmp EXCEPT ![f] = Tail(@)]
      /\ \/ /\ \E c \in to : cli[c].pc = "quit"
            /\ ipc' = "dead" /\ UNCHANGED <<nready, stream>>
         \/ /\ \A c \in to : cli[c].pc # "quit"
            /\ stream' = [c \in ClientIds |->
                            IF c \in to THEN Append(stream[c], <<f, port>>) ELSE stream[c]]
            /\ Done(then)
      /\ UNCHANGED <<cli, backlog, client, maxi, nerr, rdy, pos, shown>>
readable_v4 == ReadableRaw(AF_INET, "v6")
readable_v6 == ReadableRaw(AF_INET6, "conn")

\* Not in the set: the next test.
Skip ==
  /\ \/ ipc = "listen" /\ ~rdy.listen /\ ipc' = "v4"
     \/ ipc = "v4" /\ AF_INET \notin rdy.raw /\ ipc' = "v6"
     \/ ipc = "v6" /\ AF_INET6 \notin rdy.raw /\ ipc' = "conn"
  /\ UNCHANGED <<procVars, client, maxi, icmp, nerr, rdy, nready, pos>>

\* The for loop over the clients: the entries from p on that select() named.
Named(p) == {i \in p .. maxi : client[i].connfd \in rdy.conn}

\* A client that was killed after it sent its descriptor is written to as well.
readable_conn ==
  LET i == CHOOSE x \in Named(pos) : \A y \in Named(pos) : x <= y
      c == client[i].connfd
      gone == cli[c].pc = "quit"
  IN  /\ ipc = "conn" /\ Named(pos) # {}
      /\ pos' = i + 1
      /\ cli' = [cli EXCEPT ![c].fd = FALSE]
      /\ \/ /\ ~cli[c].fd /\ Done("conn")                         \* clientdone
            /\ client' = [client EXCEPT ![i].connfd = -1] /\ UNCHANGED stream
         \/ /\ cli[c].fd /\ gone /\ ipc' = "dead" /\ UNCHANGED <<client, nready, stream>>
         \/ /\ cli[c].fd /\ ~gone /\ Done("conn")
            /\ \/ /\ stream' = [stream EXCEPT ![c] = Append(@, OK)]
                  /\ client' = [client EXCEPT ![i].family = cli[c].family,
                                              ![i].lport = cli[c].port]
               \/ /\ stream' = [stream EXCEPT ![c] = Append(@, ERR)]   \* clienterr
                  /\ client' = [client EXCEPT ![i].connfd = -1]
      /\ UNCHANGED <<backlog, maxi, icmp, nerr, rdy, shown>>

LoopEnds ==
  /\ ipc = "conn" /\ Named(pos) = {} /\ ipc' = "select"
  /\ UNCHANGED <<procVars, client, maxi, icmp, nerr, rdy, nready, pos>>

Daemon == Select \/ readable_listen \/ readable_v4 \/ readable_v6 \/ Skip \/ readable_conn \/ LoopEnds

Next ==
  \/ Daemon
  \/ \E c \in ClientIds :
       Start(c) \/ WriteFd(c) \/ ReadByte(c) \/ Sendto(c) \/ ReadError(c) \/ Leave(c)

\* The daemon and its clients are scheduled; nobody need send or leave.
Fairness == WF_icvars(Daemon) /\ \A c \in ClientIds : WF_icvars(ReadByte(c))
Spec == Init /\ [][Next]_icvars /\ Fairness

-----------------------------------------------------------------------------
\* The table: no connection has two entries, and every entry that is in use is
\* within the part of client[] that the loops look at.
TableOK ==
  /\ \A i \in Slots : client[i].connfd # -1 => i <= maxi
  /\ \A i, j \in Slots : client[i].connfd # -1 /\ client[i].connfd = client[j].connfd => i = j

\* icmpd.c: a client that the daemon has accepted is told of errors for the
\* port and the family of its own socket only, although entries of the table
\* are used again without being cleared.
OwnErrors == \A c \in ClientIds : shown[c] \subseteq {<<cli[c].family, cli[c].port>>}

\* icmpd.c: a client that has sent its descriptor is answered, unless the
\* daemon has been killed.
Registers == \A c \in ClientIds : (cli[c].pc = "sent") ~> (cli[c].pc # "sent" \/ ipc = "dead")

\* readable_conn.c: a client whose socket is good is not refused ("tell client
\* all OK"); an error for the entry's former owner is refused to it as well.
NeverMistaken == \A c \in ClientIds : cli[c].pc = "sent" /\ stream[c] # <<>> => Head(stream[c])[1] = 0
=============================================================================
