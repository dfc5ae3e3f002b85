------------------------------- MODULE TcpOob -------------------------------
(***************************************************************************)
(* The programs that send and read out-of-band data (oob/tcpsend01-06,     *)
(* tcprecv01-06).  The kernel is the one the programs are written for:     *)
(* urgent data is announced at once, its byte arrives in its place; there  *)
(* is one mark; select() reports an exception until data beyond the mark   *)
(* is read; reading the byte a second time is an error.                    *)
(***************************************************************************)
EXTENDS Integers, Sequences, FiniteSets

CONSTANTS
  Receivers,   \* which of the receivers run
  NWIN         \* the receive window, in bytes

VARIABLES
  rcv, snd,          \* the receiver, the sends that are left
  slow,              \* the sender sleeps between its sends
  wire, q,           \* bytes under way, bytes received: numbers, negative if out of band
  mark, byte, had,   \* bytes before the mark, or -1; its byte, or 0; it has been read
  urg, eof,          \* SIGURG is pending, the sender has ended
  rpc, justreadoob, xset, atmark,
  oobread            \* out-of-band bytes that were printed

kernVars == <<wire, q, mark, byte, had, urg, eof>>
ovars == <<rcv, snd, slow, kernVars, rpc, justreadoob, xset, atmark, oobread>>

\* A number for each write, -n being sent with MSG_OOB; tcpsend05's first write
\* is larger than the window.
tcpsend01 == [sends |-> <<1, -4, 5, -7, 8>>, slow |-> TRUE]
tcpsend02 == tcpsend01
tcpsend03 == tcpsend01
tcpsend04 == [sends |-> <<1, -4, 5>>, slow |-> FALSE]
tcpsend05 == [sends |-> <<1, 2, 3, -4, 5>>, slow |-> FALSE]
tcpsend06 == [sends |-> <<1, -4, 5, -6, 7>>, slow |-> FALSE]
Senders == {tcpsend01, tcpsend04, tcpsend05, tcpsend06}

\* wait: how out-of-band data is noticed; reads: the loop reads normal data.
tcprecv01 == [wait |-> "sigurg", just |-> FALSE, reads |-> TRUE, inline |-> FALSE]
tcprecv02 == [wait |-> "select", just |-> FALSE, reads |-> TRUE, inline |-> FALSE]
tcprecv03 == [wait |-> "select", just |-> TRUE, reads |-> TRUE, inline |-> FALSE]
tcprecv03p == tcprecv03
tcprecv04 == [wait |-> "mark", just |-> FALSE, reads |-> TRUE, inline |-> TRUE]
tcprecv05 == [wait |-> "sigurg", just |-> FALSE, reads |-> FALSE, inline |-> FALSE]
tcprecv06 == tcprecv04
Programs == {r \in {tcprecv01, tcprecv02, tcprecv03, tcprecv04, tcprecv05} : r.wait \in Receivers}

Init ==
  /\ rcv \in Programs /\ \E s \in Senders : snd = s.sends /\ slow = s.slow
  /\ wire = <<>> /\ q = <<>> /\ mark = -1 /\ byte = 0 /\ had = FALSE /\ urg = FALSE /\ eof = FALSE
  /\ rpc = "top" /\ justreadoob = FALSE /\ xset = FALSE /\ atmark = FALSE /\ oobread = <<>>

Inline(b) == b > 0 \/ rcv.inline
Pending(s) == Cardinality({n \in DOMAIN s : Inline(s[n])})
\* sleep(1) lets the receiver come to rest.
Resting == wire = <<>> /\ q = <<>> /\ ~urg /\ rpc = "in"

\* Write(), or Send() with MSG_OOB; with a full window only the announcement
\* arrives.  Then exit().
Send ==
  LET b == Head(snd)
      comes == wire = <<>> /\ Len(q) < NWIN
  IN  /\ snd # <<>> /\ (slow => Resting) /\ snd' = Tail(snd)
      /\ wire' = (IF comes THEN wire ELSE Append(wire, b))
      /\ q' = (IF comes /\ Inline(b) THEN Append(q, b) ELSE q)
      /\ \/ b > 0 /\ UNCHANGED <<mark, byte, had, urg>>
         \/ /\ b < 0 /\ mark' = Pending(wire) + Len(q) /\ had' = FALSE
            /\ byte' = (IF comes THEN b ELSE 0) /\ urg' = (rcv.wait = "sigurg")
      /\ UNCHANGED <<rcv, slow, eof, rpc, justreadoob, xset, atmark, oobread>>
SendEnds ==
  /\ snd = <<>> /\ (slow => Resting) /\ ~eof /\ eof' = TRUE
  /\ UNCHANGED <<rcv, snd, slow, wire, q, mark, byte, had, urg, rpc, justreadoob, xset, atmark, oobread>>

\* A segment arrives, if the window is open; of two bytes the last one counts.
Arrive ==
  /\ wire # <<>> /\ Len(q) < NWIN /\ wire' = Tail(wire)
  /\ q' = (IF Inline(Head(wire)) THEN Append(q, Head(wire)) ELSE q)
  /\ byte' = (IF Head(wire) < 0 /\ \A i \in DOMAIN Tail(wire) : Tail(wire)[i] > 0
              THEN Head(wire) ELSE byte)
  /\ UNCHANGED <<rcv, snd, slow, mark, had, urg, eof, rpc, justreadoob, xset, atmark, oobread>>

-----------------------------------------------------------------------------
(* The receivers.                                                          *)

\* Recv(MSG_OOB): an error if the byte has been read or has not come yet.
RecvOob(next) ==
  \/ /\ byte # 0 /\ ~had /\ had' = TRUE /\ oobread' = Append(oobread, byte) /\ rpc' = next
  \/ /\ (byte = 0 \/ had) /\ rpc' = "error" /\ UNCHANGED <<had, oobread>>

\* sig_urg(); tcprecv05 does nothing else.
SigUrg ==
  /\ urg /\ rpc \in {"top", "in"} /\ urg' = FALSE /\ RecvOob(rpc)
  /\ UNCHANGED <<rcv, snd, slow, wire, q, mark, byte, eof, justreadoob, xset, atmark>>

\* The loop up to the call that waits: which sets it passes to select(),
\* what Sockatmark() said.
Top ==
  /\ rpc = "top" /\ rpc' = "in"
  /\ xset' = (rcv.wait = "select" /\ (rcv.just => ~justreadoob))
  /\ atmark' = (rcv.wait = "mark" /\ mark = 0)
  /\ UNCHANGED <<rcv, snd, slow, kernVars, justreadoob, oobread>>

Readable == q # <<>> \/ (eof /\ wire = <<>>)
Exceptional == xset /\ mark >= 0

\* select() reports an exception, and the byte is read.
ReadOob ==
  /\ rpc = "in" /\ Exceptional
  /\ justreadoob' = TRUE /\ xset' = FALSE
  /\ RecvOob(IF Readable THEN "read" ELSE "top")
  /\ UNCHANGED <<rcv, snd, slow, wire, q, mark, byte, urg, eof, atmark>>

\* Read(): up to the mark, or, at the mark, beyond it.
Read ==
  LET n == IF mark > 0 /\ mark < Len(q) THEN mark ELSE Len(q)
  IN  /\ rcv.reads /\ ~urg
      /\ rpc = "read" \/ (rpc = "in" /\ ~Exceptional /\ Readable)
      /\ \/ /\ q = <<>> /\ rpc' = "exit" /\ UNCHANGED <<q, mark, justreadoob>>
         \/ /\ q # <<>> /\ rpc' = "top" /\ justreadoob' = FALSE
            /\ q' = SubSeq(q, n + 1, Len(q))
            /\ mark' = IF mark <= 0 THEN -1 ELSE mark - n
      /\ UNCHANGED <<rcv, snd, slow, wire, byte, had, urg, eof, xset, atmark, oobread>>

Receiver == SigUrg \/ Top \/ ReadOob \/ Read
Next == Send \/ SendEnds \/ Arrive \/ Receiver

-----------------------------------------------------------------------------
\* tcprecv01.c, tcprecv03.c, tcprecv03p.c: from a sender that gives them time,
\* they read every out-of-band byte once and come to the end of the data.
ReadsEveryByte ==
  slow /\ (rcv.wait = "sigurg" \/ rcv.just) /\ rcv.reads =>
    /\ rpc # "error"
    /\ rpc = "exit" => oobread = <<-4, -7>>
=============================================================================
