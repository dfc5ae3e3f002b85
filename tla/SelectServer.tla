--------------------------- MODULE SelectServer ----------------------------
(***************************************************************************)
(* The echo servers that serve all their clients in one loop:              *)
(* tcpservselect01 and tcpservpoll01 of src/tcpcliserv/ and                *)
(* tcpservselect03 of src/nonblock/.  Clients send whole lines and read    *)
(* what is sent to them.  The listening socket is descriptor 0 here.       *)
(***************************************************************************)
EXTENDS Integers, FiniteSets, FiniteSetsExt

CONSTANTS
  NCONN,      \* bound: connections that come in
  NCLIENT,    \* the size of client[]
  NLINE       \* bound: lines of one client

VARIABLES
  arrived, pending, done,    \* connections: last one, not accepted, closed
  loop,                      \* the program
  spc, nready, i,            \* its place, what select() has returned, its loop
  client, maxi, maxfd,       \* the table
  allset, rset,              \* descriptors to ask for, found ready
  conn,                      \* the connection of each descriptor
  data, left,                \* lines not read; clients that have closed or reset
  buf                        \* the static buffer of readline(): whose lines, how many

clients == <<arrived, pending, done>>
table == <<client, maxi, maxfd, allset, conn>>
scan == <<nready, i, rset>>
peers == <<data, left>>
selectVars == <<loop, spc, scan, table, peers, buf>>

Loops == {"tcpservselect01", "tcpservpoll01", "tcpservselect03"}
Slots == 0 .. NCLIENT - 1
Conns == 1 .. NCONN
Fds == 1 .. NCLIENT + 1
listenfd == 0

Begin ==
  /\ arrived = 0 /\ pending = {} /\ done = {}
  /\ spc = "select" /\ nready = 0 /\ i = 0
  /\ client = [s \in Slots |-> -1] /\ maxi = -1 /\ maxfd = listenfd
  /\ allset = {listenfd} /\ rset = {} /\ conn = [f \in Fds |-> 0]
  /\ data = [c \in Conns |-> 0] /\ left = [c \in Conns |-> "no"]
  /\ buf = <<0, 0>>
Init == loop \in Loops /\ Begin

Arrive ==
  /\ arrived < NCONN
  /\ arrived' = arrived + 1 /\ pending' = pending \cup {arrived + 1}
  /\ UNCHANGED <<done, selectVars>>

\* A client resets its connection before accept() has returned it.
Abort(c) ==
  /\ c \in pending
  /\ pending' = pending \ {c} /\ done' = done \cup {c}
  /\ UNCHANGED <<arrived, selectVars>>

\* What is sent before accept() counts as sent right after it.  Only
\* tcpservselect03 tells one line from two.
Send(c) ==
  /\ c \in {conn[f] : f \in Fds} \ {0} /\ left[c] = "no"
  /\ data[c] < (IF loop = "tcpservselect03" THEN NLINE ELSE 1)
  /\ data' = [data EXCEPT ![c] = @ + 1]
  /\ UNCHANGED <<clients, loop, spc, scan, table, left, buf>>

\* A client closes its connection, or resets it, which discards its lines.
Leave(c) ==
  /\ c \in {conn[f] : f \in Fds} \ {0} /\ left[c] = "no"
  /\ left' = [left EXCEPT ![c] = "eof"] /\ UNCHANGED data
  /\ UNCHANGED <<clients, loop, spc, scan, table, buf>>
Reset(c) ==
  /\ c \in {conn[f] : f \in Fds} \ {0} /\ left[c] = "no"
  /\ left' = [left EXCEPT ![c] = "rst"] /\ data' = [data EXCEPT ![c] = 0]
  /\ UNCHANGED <<clients, loop, spc, scan, table, buf>>

-----------------------------------------------------------------------------
ReadyNow == {f \in Fds : conn[f] # 0 /\ (data[conn[f]] > 0 \/ left[conn[f]] # "no")}
            \cup (IF pending # {} THEN {listenfd} ELSE {})
Asked == {f \in allset : f <= maxfd}

\* Select() or Poll().
Select ==
  /\ spc = "select"
  /\ rset' = Asked \cap ReadyNow /\ rset' # {}
  /\ nready' = Cardinality(rset') /\ i' = 0
  /\ spc' = IF listenfd \in rset' THEN "accept" ELSE "loop"
  /\ UNCHANGED <<clients, loop, table, peers, buf>>

FreeSlots == {s \in Slots : client[s] < 0}
connfd == Min({f \in Fds : conn[f] = 0})
AfterAccept == IF nready - 1 <= 0 THEN "select" ELSE "loop"

\* Accept() and the first free entry.  The revents of an entry that poll() was
\* never asked about is whatever the stack held.
Accept ==
  /\ spc = "accept" /\ pending # {}
  /\ pending' = pending \ {Min(pending)} /\ conn' = [conn EXCEPT ![connfd] = Min(pending)]
  /\ IF FreeSlots = {}
     THEN spc' = "ended" /\ UNCHANGED <<client, maxi, maxfd, allset, nready, rset>>
     ELSE /\ client' = [client EXCEPT ![Min(FreeSlots)] = connfd]
          /\ allset' = allset \cup {connfd}
          /\ maxfd' = Max({maxfd, connfd}) /\ maxi' = Max({maxi, Min(FreeSlots)})
          /\ nready' = nready - 1 /\ spc' = AfterAccept
          /\ rset' \in {rset} \cup (IF loop = "tcpservpoll01" /\ Min(FreeSlots) > maxi
                                    THEN {rset \cup {connfd}} ELSE {})
  /\ UNCHANGED <<arrived, done, loop, i, peers, buf>>

\* Mutant: the entry is freed, the descriptor stays in the set.
KeepInSet ==
  /\ client' = [client EXCEPT ![i] = -1] /\ UNCHANGED allset
  /\ conn' = [conn EXCEPT ![client[i]] = 0] /\ done' = done \cup {conn[client[i]]}

\* The connection is closed, its entry free again.
Drop ==
  /\ client' = [client EXCEPT ![i] = -1] /\ allset' = allset \ {client[i]}
  /\ conn' = [conn EXCEPT ![client[i]] = 0] /\ done' = done \cup {conn[client[i]]}

\* Readline() of tcpservselect03: a line of the buffer if it holds one, whoever
\* sent it; otherwise all the descriptor has goes into the buffer.
Readline(c) ==
  /\ buf' = IF buf[2] > 0 THEN <<buf[1], buf[2] - 1>> ELSE <<c, data[c] - 1>>
  /\ data' = IF buf[2] > 0 THEN data ELSE [data EXCEPT ![c] = 0]

Echo(c) ==
  \/ /\ loop # "tcpservselect03" /\ data[c] > 0
     /\ data' = [data EXCEPT ![c] = 0] /\ UNCHANGED buf
  \/ loop = "tcpservselect03" /\ (buf[2] > 0 \/ data[c] > 0) /\ Readline(c)

\* --nready; the loop ends when no ready descriptor is left.
NextSlot == i' = i + 1 /\ spc' = IF nready - 1 <= 0 THEN "select" ELSE "loop"

\* One ready client: its lines, its end, or its reset, which only
\* tcpservpoll01 survives.
Serve ==
  /\ spc = "loop" /\ i <= maxi /\ client[i] >= 0 /\ client[i] \in rset
  /\ nready' = nready - 1
  /\ LET c == conn[client[i]] IN
       \/ /\ left[c] # "rst" /\ Echo(c) /\ NextSlot
          /\ UNCHANGED <<done, client, allset, conn>>
       \/ /\ data[c] = 0 /\ left[c] = "eof" /\ (loop = "tcpservselect03" => buf[2] = 0)
          /\ Drop /\ NextSlot /\ UNCHANGED <<data, buf>>
       \/ /\ left[c] = "rst"
          /\ IF loop = "tcpservpoll01"
             THEN Drop /\ NextSlot
             ELSE spc' = "ended" /\ i' = i /\ UNCHANGED <<done, client, allset, conn>>
          /\ UNCHANGED <<data, buf>>
       \/ /\ data[c] = 0 /\ left[c] = "no" /\ buf[2] = 0 /\ spc' = "blocked"
          /\ UNCHANGED <<done, client, allset, conn, data, buf, i>>
  /\ UNCHANGED <<arrived, pending, loop, maxi, maxfd, rset, left>>

Skip ==
  /\ spc = "loop" /\ i <= maxi /\ (client[i] < 0 \/ client[i] \notin rset)
  /\ i' = i + 1
  /\ UNCHANGED <<clients, loop, spc, nready, rset, table, peers, buf>>

EndOfLoop ==
  /\ spc = "loop" /\ i > maxi /\ spc' = "select"
  /\ UNCHANGED <<clients, loop, scan, table, peers, buf>>

ServerStep == Select \/ Accept \/ Serve \/ Skip \/ EndOfLoop
Next ==
  \/ Arrive \/ \E c \in pending : Abort(c)
  \/ \E c \in Conns : Send(c) \/ Leave(c) \/ Reset(c)
  \/ ServerStep

\* The abstract state: see WorkerPool; an entry of client[] is a worker.
Worker(c) == IF \E s \in Slots : client[s] > 0 /\ conn[client[s]] = c
             THEN CHOOSE s \in Slots : client[s] > 0 /\ conn[client[s]] = c ELSE -1

-----------------------------------------------------------------------------
(* Properties.                                                             *)

\* Every open connection has one entry, within what the loop looks at, and
\* select() is asked about exactly the descriptors that are open
\* (tcpcliserv/tcpservselect01.c:48-60, 72-74).
SlotsRight ==
  spc # "ended" =>
    /\ allset = {listenfd} \cup {f \in Fds : conn[f] # 0}
    /\ \A f \in Fds : conn[f] # 0 => /\ f <= maxfd
                                     /\ Cardinality({s \in 0 .. maxi : client[s] = f}) = 1
    /\ \A s \in Slots : client[s] >= 0 => conn[client[s]] # 0

\* The server never waits in read() for one client while others want to be
\* served (tcpcliserv/tcpservpoll01.c:85, where the count of ready descriptors
\* keeps the loop away from an entry whose revents nobody has set).
NeverWaitsInRead == spc # "blocked"

\* The server waits in accept() for a connection that was reset after select()
\* had reported it (nonblock/tcpservselect03.c:38).
Blocked == spc = "accept" /\ pending = {}
=============================================================================
