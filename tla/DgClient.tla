------------------------------ MODULE DgClient -----------------------------
(***************************************************************************)
(* The versions of dg_cli(): for each line a request goes out and an       *)
(* answer, or the answers of several servers, are waited for.  Datagrams   *)
(* are lost, duplicated, delayed and reordered.  SIGALRM may come at any   *)
(* point once the alarm is set; the versions differ in what it finds.      *)
(***************************************************************************)
EXTENDS Integers, Sequences

CONSTANTS
  NREQ,        \* bound: lines typed
  NREPLY,      \* answers that one broadcast request may have
  NQUEUE,      \* room in the socket's receive buffer
  Waits,       \* ways of waiting that run
  RoundTrips   \* round-trip times, in milliseconds

VARIABLES
  dg,                  \* the version, as the features below
  dpc,                 \* its place
  req,                 \* the number of the request (sendhdr.seq)
  net, dup,            \* answers under way; one has been duplicated
  inq, got,            \* answers received, the one read
  al,                  \* the alarm: "off", "set", or "sig": SIGALRM is pending
  jmpbuf, pipe,        \* dgclibcast5, rtt: where to jump; dgclibcast6: bytes
  shown,               \* numbers of the answers printed for this request
  rtt                  \* struct rtt_info

netVars == <<net, dup>>
sigVars == <<al, jmpbuf, pipe>>
dgvars == <<dg, dpc, req, netVars, inq, got, sigVars, shown, rtt>>

\* wait: how the program waits; many: it goes on until the time is up.
Program(wait, many) == [wait |-> wait, many |-> many]
dg_cli == Program("recv", FALSE)
dgclibig == dg_cli
dgcliconnect == dg_cli
dgcliinetaddr == dg_cli
dgclitimeo == Program("select", FALSE)
dgclitimeo1 == dgclitimeo
dgclitimeo2 == dgclitimeo
dgclitimeo3 == Program("alarm", FALSE)
dgclibcast1 == Program("alarm", TRUE)
dgclibcast2 == dgclibcast1
mcast_dgclibcast1 == dgclibcast1
dgclibcast3 == Program("mask", TRUE)
dgclibcast4 == Program("pselect", TRUE)
dgclibcast5 == Program("jump", TRUE)
dgclimcast5 == dgclibcast5
dgclimcast6 == dgclibcast5
dgclibcast6 == Program("pipe", TRUE)
dg_send_recv == Program("rtt", FALSE)

Programs == {p \in {dg_cli, dgclitimeo, dgclitimeo3, dgclibcast1, dgclibcast3, dgclibcast4,
                    dgclibcast5, dgclibcast6, dg_send_recv} : p.wait \in Waits}
Ended == {"end", "quit", "crash"}

-----------------------------------------------------------------------------
(* lib/rtt.c, with times in whole milliseconds.                            *)

RTT_RXTMIN == 2000
RTT_RXTMAX == 60000
RTT_MAXNREXMT == 3

rtt_minmax(rto) == IF rto < RTT_RXTMIN THEN RTT_RXTMIN
                   ELSE IF rto > RTT_RXTMAX THEN RTT_RXTMAX ELSE rto
RTT_RTOCALC(srtt, rttvar) == srtt + 4 * rttvar
rtt_init == [srtt |-> 0, rttvar |-> 750, rto |-> rtt_minmax(RTT_RTOCALC(0, 750)), nrexmt |-> 0]
rtt_newpack(r) == [r EXCEPT !.nrexmt = 0]
rtt_start(r) == (r.rto + 500) \div 1000
rtt_timeout(r) == [r EXCEPT !.rto = 2 * @, !.nrexmt = @ + 1]

\* Mutant: the new timeout is not kept between its bounds.
rtt_stop_unbounded(r, ms) ==
  LET delta == ms - r.srtt
      srtt == r.srtt + delta \div 8
      rttvar == r.rttvar + ((IF delta < 0 THEN -delta ELSE delta) - r.rttvar) \div 4
  IN  [r EXCEPT !.srtt = srtt, !.rttvar = rttvar, !.rto = RTT_RTOCALC(srtt, rttvar)]

rtt_stop(r, ms) ==
  LET delta == ms - r.srtt
      srtt == r.srtt + delta \div 8
      rttvar == r.rttvar + ((IF delta < 0 THEN -delta ELSE delta) - r.rttvar) \div 4
  IN  [r EXCEPT !.srtt = srtt, !.rttvar = rttvar, !.rto = rtt_minmax(RTT_RTOCALC(srtt, rttvar))]

-----------------------------------------------------------------------------
Init ==
  /\ dg \in Programs
  /\ dpc = "gets" /\ req = 0 /\ net = {} /\ dup = FALSE /\ inq = <<>> /\ got = 0
  /\ al = "off" /\ jmpbuf = "unset" /\ pipe = 0 /\ shown = <<>> /\ rtt = rtt_init

\* The network: an answer arrives, is lost, or is there twice.
Arrives(m) ==
  /\ m \in net /\ Len(inq) < NQUEUE
  /\ inq' = Append(inq, m[1])
  /\ net' \in {net \ {m}} \cup (IF dup THEN {} ELSE {net}) /\ dup' = (dup \/ m \in net')
  /\ UNCHANGED <<dg, dpc, req, got, sigVars, shown, rtt>>
Lost(m) ==
  /\ m \in net /\ net' = net \ {m}
  /\ UNCHANGED <<dg, dpc, req, dup, inq, got, sigVars, shown, rtt>>

-----------------------------------------------------------------------------
(* A round: send, set the alarm, wait.                                     *)

\* Fgets(); dg_send_recv() is called for each line.
Gets ==
  /\ dpc = "gets"
  /\ \/ /\ req < NREQ /\ req' = req + 1 /\ dpc' = "send" /\ shown' = <<>>
        /\ rtt' = rtt_newpack(rtt)
        /\ jmpbuf' = IF dg.wait = "rtt" /\ jmpbuf = "set" THEN "stale" ELSE jmpbuf
     \/ dpc' = "end" /\ UNCHANGED <<req, shown, rtt, jmpbuf>>
  /\ UNCHANGED <<dg, netVars, inq, got, al, pipe>>

\* Sendto(): a copy of the request may be answered by one server, or by many.
Send ==
  /\ dpc = "send" /\ dpc' = "alarm"
  /\ net' = net \cup {<<req, k>> : k \in 1 .. (IF dg.many THEN NREPLY ELSE 1)}
  /\ UNCHANGED <<dg, req, dup, inq, got, sigVars, shown, rtt>>

\* alarm(), and sigsetjmp() after it.
SetAlarm ==
  /\ dpc = "alarm"
  /\ dpc' = IF dg.wait \in {"jump", "rtt"} THEN "setjmp" ELSE "wait"
  /\ al' = IF dg.wait \in {"recv", "select"} \/ (dg.wait = "rtt" /\ rtt_start(rtt) = 0)
           THEN "off" ELSE "set"
  /\ UNCHANGED <<dg, req, netVars, inq, got, jmpbuf, pipe, shown, rtt>>

Setjmp ==
  /\ dpc = "setjmp" /\ dpc' = "wait" /\ jmpbuf' = "set"
  /\ UNCHANGED <<dg, req, netVars, inq, got, al, pipe, shown, rtt>>

\* The system call that waits is entered; in dgclibcast3 the signal is blocked
\* up to here.
Enter ==
  /\ dpc = "wait" /\ (dg.wait = "mask" => al # "sig") /\ dpc' = "in"
  /\ UNCHANGED <<dg, req, netVars, inq, got, sigVars, shown, rtt>>

\* Mutant: whatever comes is taken for the answer.
MatchesAny(seq) == TRUE

\* dg_send_recv() goes on reading until an answer to this request comes.
Matches(seq) == dg.wait = "rtt" => seq = req

Receive ==
  /\ dpc = "in" /\ inq # <<>>
  /\ inq' = Tail(inq) /\ got' = Head(inq)
  /\ dpc' = IF Matches(Head(inq)) THEN "got" ELSE "in"
  /\ UNCHANGED <<dg, req, netVars, sigVars, shown, rtt>>

\* Versions that want one answer stop their alarm; the answer is printed.
Answer ==
  /\ dpc = "got"
  /\ shown' = Append(shown, got) /\ al' = IF dg.many THEN al ELSE "off"
  /\ dpc' = IF ~dg.many THEN "gets" ELSE IF dg.wait = "jump" THEN "setjmp" ELSE "wait"
  /\ IF dg.wait = "rtt" THEN \E ms \in RoundTrips : rtt' = rtt_stop(rtt, ms) ELSE UNCHANGED rtt
  /\ UNCHANGED <<dg, req, netVars, inq, got, jmpbuf, pipe>>

\* select() with a timeout, or SO_RCVTIMEO: no answer in time.
Timeout ==
  /\ dpc = "in" /\ dg.wait = "select" /\ inq = <<>> /\ dpc' = "gets"
  /\ UNCHANGED <<dg, req, netVars, inq, got, sigVars, shown, rtt>>

\* dgclibcast6: the byte in the pipe ends the round.
ReadPipe ==
  /\ dpc = "in" /\ pipe > 0 /\ pipe' = pipe - 1 /\ dpc' = "gets"
  /\ UNCHANGED <<dg, req, netVars, inq, got, al, jmpbuf, shown, rtt>>

-----------------------------------------------------------------------------
(* The signal.                                                             *)

Expire ==
  /\ al = "set" /\ al' = "sig"
  /\ UNCHANGED <<dg, dpc, req, netVars, inq, got, jmpbuf, pipe, shown, rtt>>

\* The handler only returns: it interrupts a call that waits, and does nothing
\* anywhere else.  dgclibcast3 blocks it outside the call, not before it.
Interrupt ==
  /\ al = "sig" /\ dg.wait \in {"alarm", "mask"} /\ al' = "off"
  /\ dpc' = IF dpc = "in" /\ inq = <<>> THEN "gets" ELSE dpc
  /\ UNCHANGED <<dg, req, netVars, inq, got, jmpbuf, pipe, shown, rtt>>

\* pselect() lets the signal in and waits in one step.
InterruptPselect ==
  /\ al = "sig" /\ dg.wait = "pselect" /\ dpc = "in" /\ al' = "off" /\ dpc' = "gets"
  /\ UNCHANGED <<dg, req, netVars, inq, got, jmpbuf, pipe, shown, rtt>>

\* siglongjmp(): out of the loop, or into rtt_timeout(); with a buffer that
\* sigsetjmp() has not filled, or filled in a call that has returned, anywhere.
Jump ==
  /\ al = "sig" /\ dg.wait \in {"jump", "rtt"} /\ al' = "off"
  /\ dpc' = IF jmpbuf # "set" THEN "crash"
            ELSE IF dg.wait = "jump" THEN "gets"
            ELSE IF rtt.nrexmt + 1 > RTT_MAXNREXMT THEN "quit" ELSE "send"
  /\ rtt' = IF dg.wait = "rtt" THEN rtt_timeout(rtt) ELSE rtt
  /\ UNCHANGED <<dg, req, netVars, inq, got, jmpbuf, pipe, shown>>

\* Mutant: no byte is written.
NoPipeByte ==
  /\ al = "sig" /\ dg.wait = "pipe" /\ al' = "off" /\ UNCHANGED pipe
  /\ UNCHANGED <<dg, dpc, req, netVars, inq, got, jmpbuf, shown, rtt>>

WritePipe ==
  /\ al = "sig" /\ dg.wait = "pipe" /\ al' = "off" /\ pipe' = pipe + 1
  /\ UNCHANGED <<dg, dpc, req, netVars, inq, got, jmpbuf, shown, rtt>>

-----------------------------------------------------------------------------
ClientStep == Gets \/ Send \/ SetAlarm \/ Setjmp \/ Enter \/ Receive \/ Answer
              \/ Timeout \/ ReadPipe
SignalStep == Expire \/ Interrupt \/ InterruptPselect \/ Jump \/ WritePipe
Next == (\E m \in net : Arrives(m) \/ Lost(m))
        \/ (dpc \notin Ended /\ (ClientStep \/ SignalStep))

\* The program goes on, and time does.
Fairness == WF_dgvars(ClientStep) /\ WF_dgvars(SignalStep)
Spec == Init /\ [][Next]_dgvars /\ Fairness

-----------------------------------------------------------------------------
(* Properties.                                                             *)

\* Whatever is lost, a version with a timeout finishes its round: the signal
\* cannot come at a moment when nobody takes notice of it (bcast/dgclibcast4.c:35,
\* dgclibcast5.c:28, dgclibcast6.c:61, rtt/dg_send_recv.c:68, advio/dgclitimeo.c:13).
\* dg_cli() has no timeout; for the versions that only interrupt recvfrom(), see
\* WaitedLongEnough.
RoundEnds ==
  dg.wait \in {"select", "pselect", "jump", "pipe", "rtt"} =>
    (dpc = "send" ~> (dpc = "gets" \/ dpc \in Ended))

\* dg_send_recv() prints one answer for a request, and it is the answer to that
\* request, whatever was retransmitted, delayed or duplicated
\* (rtt/dg_send_recv.c:86).
OwnAnswer ==
  dg.wait = "rtt" => /\ \A k \in DOMAIN shown : shown[k] = req
                     /\ Len(shown) <= 1 /\ (dpc = "gets" /\ req > 0 => Len(shown) = 1)

\* The retransmission timeout stays between its bounds, doubled once for each
\* retransmission, so that alarm() is never called with 0, which would turn the
\* timer off (lib/rtt.c:12-20, 63-67, 114; rtt/dg_send_recv.c:63).
RtoRight ==
  /\ RTT_RXTMIN <= rtt.rto /\ rtt.rto <= RTT_RXTMAX * 2 ^ rtt.nrexmt
  /\ rtt.rttvar >= 0 /\ rtt_start(rtt) >= 2 /\ rtt.nrexmt <= RTT_MAXNREXMT + 1

\* "waited long enough for replies" (bcast/dgclibcast1.c:30, dgclibcast3.c:36).
WaitedLongEnough ==
  dg.wait # "recv" => (dpc = "send" ~> (dpc = "gets" \/ dpc \in Ended))
=============================================================================
