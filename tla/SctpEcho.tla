------------------------------ MODULE SctpEcho ------------------------------
(***************************************************************************)
(* The SCTP echo programs: a one-to-many server (sctpserv01-07, and        *)
(* sctpserv_fork, which peels the association off for a child) and the     *)
(* versions of sctpstr_cli().  Messages of one stream stay in order; those *)
(* of different streams overtake each other.                               *)
(***************************************************************************)
EXTENDS Integers, Sequences

CONSTANTS
  NSTRM,       \* streams of the association (SERV_MAX_SCTP_STRM)
  NROUND       \* bound: lines typed

VARIABLES
  sv, cl,               \* the server, the client
  upto, down,           \* messages in each stream, either way
  snote, cnote,         \* a notification is to be read
  part,                 \* serv05: the first part of a message has been read
  peeled, shutting,     \* the child has the association; the server has sent MSG_EOF
  spc, scpc, round,     \* places; the line
  nsent, ngot,          \* messages of this line sent and answered
  last                  \* per stream of the client, the newest copy printed

svars == <<sv, cl, upto, down, snote, cnote, part, peeled, shutting, spc, scpc, round, nsent, ngot, last>>
Streams == 0 .. NSTRM - 1

\* incr: the answer goes on the next stream; eof: it ends the association;
\* notes: notifications are asked for; partial: messages come in parts.
Server(incr, eof, notes, partial, fork) ==
  [incr |-> incr, eof |-> eof, notes |-> notes, partial |-> partial, fork |-> fork]
sctpserv01 == Server(TRUE, FALSE, FALSE, FALSE, FALSE)
sctpserv02 == sctpserv01
sctpserv03 == Server(TRUE, TRUE, FALSE, FALSE, FALSE)
sctpserv04 == sctpserv01
sctpserv05 == Server(TRUE, FALSE, FALSE, TRUE, FALSE)
sctpserv06 == Server(TRUE, FALSE, TRUE, FALSE, FALSE)
sctpserv07 == Server(FALSE, FALSE, TRUE, FALSE, FALSE)
sctpserv_fork == Server(FALSE, FALSE, FALSE, FALSE, TRUE)
Servers == {sctpserv01, sctpserv03, sctpserv05, sctpserv06, sctpserv07, sctpserv_fork}

\* copies: messages sent on each stream before an answer is read, 0 for one
\* message on the stream the line names.
sctp_strcli == [copies |-> 0, notes |-> FALSE]
sctp_strcli1 == [copies |-> 0, notes |-> TRUE]
sctp_strcli_un == sctp_strcli
sctp_strcliecho == [copies |-> 1, notes |-> FALSE]
sctp_strcliecho2 == [copies |-> 2, notes |-> FALSE]
Clients == {sctp_strcli, sctp_strcli1, sctp_strcliecho, sctp_strcliecho2}

Empty == [s \in Streams |-> <<>>]

Init ==
  /\ sv \in Servers /\ cl \in Clients /\ (sv.eof => cl.copies = 0)
  /\ upto = Empty /\ down = Empty /\ snote = FALSE /\ cnote = FALSE
  /\ part = FALSE /\ peeled = FALSE /\ shutting = FALSE
  /\ spc = "recv" /\ scpc = "gets" /\ round = 0 /\ nsent = 0 /\ ngot = 0
  /\ last = [s \in Streams |-> 0]

-----------------------------------------------------------------------------
(* The client.                                                             *)

Expected == IF cl.copies = 0 THEN 1 ELSE NSTRM * cl.copies

Gets ==
  /\ scpc = "gets"
  /\ \/ round < NROUND /\ round' = round + 1 /\ scpc' = "send"
     \/ scpc' = "end" /\ UNCHANGED round
  /\ nsent' = 0 /\ ngot' = 0 /\ last' = [s \in Streams |-> 0]
  /\ UNCHANGED <<sv, cl, upto, down, snote, cnote, part, peeled, shutting, spc>>

\* The first message of an association is announced to those who asked for it.
Send ==
  /\ scpc = "send"
  /\ \E s \in (IF cl.copies = 0 THEN Streams ELSE {nsent \div cl.copies}) :
       upto' = [upto EXCEPT ![s] = Append(@, <<s, IF cl.copies = 0 THEN 1 ELSE (nsent % cl.copies) + 1>>)]
  /\ nsent' = nsent + 1 /\ scpc' = (IF nsent + 1 = Expected THEN "recv" ELSE "send")
  /\ LET new == (round = 1 /\ nsent = 0) \/ shutting
     IN  snote' = (snote \/ (new /\ sv.notes)) /\ cnote' = (cnote \/ (new /\ cl.notes))
  /\ shutting' = FALSE
  /\ UNCHANGED <<sv, cl, down, part, peeled, spc, round, ngot, last>>

\* Sctp_recvmsg(): sctp_strcli1 goes on after a notification.
RecvNote ==
  /\ scpc = "recv" /\ cnote /\ cnote' = FALSE /\ ngot' = ngot
  /\ scpc' = IF ngot' = Expected THEN "gets" ELSE "recv"
  /\ UNCHANGED <<sv, cl, upto, down, snote, part, peeled, shutting, spc, round, nsent, last>>
Recv(s) ==
  /\ scpc = "recv" /\ ~cnote /\ down[s] # <<>>
  /\ down' = [down EXCEPT ![s] = Tail(@)] /\ ngot' = ngot + 1
  /\ last' = [last EXCEPT ![Head(down[s])[1]] = IF @ = Head(down[s])[2] - 1 THEN @ + 1 ELSE 99]
  /\ scpc' = IF ngot + 1 = Expected THEN "gets" ELSE "recv"
  /\ UNCHANGED <<sv, cl, upto, snote, cnote, part, peeled, shutting, spc, round, nsent>>

-----------------------------------------------------------------------------
(* The server.                                                             *)

\* sinfo_stream++, and 0 when the peer has no such stream.
NextStream(s) == IF s + 1 >= NSTRM THEN 0 ELSE s + 1

\* The stream of the answer; the child of sctpserv_fork writes to stream 0.
AnswerOn(s) == IF peeled THEN 0 ELSE IF sv.incr THEN NextStream(s) ELSE s

ServNote ==
  /\ spc = "recv" /\ snote /\ snote' = FALSE
  /\ UNCHANGED <<sv, cl, upto, down, cnote, part, peeled, shutting, spc, scpc, round, nsent, ngot, last>>

\* pdapi_recvmsg() reads until MSG_EOR; the parts of one message come together.
ServPart(s) ==
  /\ spc = "recv" /\ sv.partial /\ ~part /\ upto[s] # <<>> /\ part' = TRUE
  /\ UNCHANGED <<sv, cl, upto, down, snote, cnote, peeled, shutting, spc, scpc, round, nsent, ngot, last>>

Answer(s) ==
  /\ spc = "recv" /\ ~snote /\ upto[s] # <<>> /\ (sv.partial => part)
  /\ upto' = [upto EXCEPT ![s] = Tail(@)] /\ part' = FALSE
  /\ \/ AnswerOn(s) \notin Streams /\ spc' = "error" /\ UNCHANGED down
     \/ /\ AnswerOn(s) \in Streams /\ UNCHANGED spc
        /\ down' = [down EXCEPT ![AnswerOn(s)] = Append(@, Head(upto[s]))]
  /\ shutting' = sv.eof /\ peeled' = (peeled \/ sv.fork)
  /\ UNCHANGED <<sv, cl, snote, cnote, scpc, round, nsent, ngot, last>>

Next ==
  \/ Gets \/ Send \/ RecvNote \/ ServNote
  \/ \E s \in Streams : Recv(s) \/ ServPart(s) \/ Answer(s)

\* Both programs and the network go on.
Fairness == /\ WF_svars(Send) /\ WF_svars(RecvNote) /\ WF_svars(ServNote)
            /\ \A s \in Streams : WF_svars(Recv(s)) /\ WF_svars(ServPart(s)) /\ WF_svars(Answer(s))
Spec == Init /\ [][Next]_svars /\ Fairness

-----------------------------------------------------------------------------
\* sctp_strcliecho2.c with the one-to-many servers: of two messages on a
\* stream the echo of the first is printed first.  Not with sctpserv_fork:
\* the parent answers the first one on its stream, the child on stream 0.
EchoInOrder == sv.fork \/ \A s \in Streams : last[s] # 99

\* Every line that is typed gets all its answers.
LineAnswered == (scpc = "recv") ~> (scpc = "gets")

\* When the client goes on to the next line nothing of this one is left.
NothingLeft == scpc = "gets" => \A s \in Streams : down[s] = <<>> /\ upto[s] = <<>>
=============================================================================
