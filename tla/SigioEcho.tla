----------------------------- MODULE SigioEcho -----------------------------
(***************************************************************************)
(* The signal-driven UDP echo server of src/sigio/dgecho01.c: a main loop  *)
(* and its SIGIO handler share a ring of QSIZE datagram slots.  The        *)
(* handler (the producer) interrupts the loop (the consumer) wherever      *)
(* SIGIO is not blocked; SIGIO is a flag, not a queue, so several arrivals *)
(* can be announced by one delivery.                                       *)
(***************************************************************************)
EXTENDS Naturals, Sequences

CONSTANTS
  QSIZE,     \* #define QSIZE: slots of the ring dg[]
  MaxDg      \* bound: datagrams the network delivers in one behaviour

ASSUME QSIZEAssumption == QSIZE \in Nat \ {0}
ASSUME MaxDgAssumption == MaxDg \in Nat

VARIABLES
  pc,        \* where dg_echo() is
  blocked,   \* SIGIO is in the process's signal mask
  pending,   \* SIGIO is pending
  inHandler, \* sig_io() is running on top of dg_echo()
  quit,      \* err_quit() or err_sys() has ended the process
  nread,     \* sig_io()'s local: datagrams read by this delivery
  dg,        \* the ring: dg[i] is the datagram in slot i, 0 when unused
  iget, iput, nqueue,
  sockbuf,   \* datagrams waiting in the socket receive buffer
  arrived,   \* how many datagrams have arrived; the n-th one is n
  echoed     \* history: datagrams passed to Sendto, in order

mainVars == <<pc, blocked, iget, echoed>>
handlerVars == <<inHandler, quit, nread, dg, iput>>
netVars == <<sockbuf, arrived>>
vars == <<mainVars, handlerVars, netVars, pending, nqueue>>

Slots == 0 .. QSIZE - 1

\* if (++i >= QSIZE) i = 0;
NextSlot(i) == IF i + 1 >= QSIZE THEN 0 ELSE i + 1

\* dg_echo() runs only while no handler is on top of it.
At(l) == pc = l /\ ~inHandler /\ ~quit

Init ==
  /\ pc = "start" /\ blocked = FALSE /\ pending = FALSE
  /\ inHandler = FALSE /\ nread = 0 /\ quit = FALSE
  /\ dg = [i \in Slots |-> 0]
  /\ iget = 0 /\ iput = 0 /\ nqueue = 0
  /\ sockbuf = <<>> /\ arrived = 0 /\ echoed = <<>>

-----------------------------------------------------------------------------
\* A datagram reaches the socket: the kernel queues it and raises SIGIO.
Arrive ==
  /\ ~quit /\ arrived < MaxDg
  /\ arrived' = arrived + 1
  /\ sockbuf' = Append(sockbuf, arrived + 1)
  /\ pending' = TRUE
  /\ UNCHANGED <<mainVars, handlerVars, nqueue>>

\* The kernel delivers SIGIO; the handler runs with SIGIO blocked.
Deliver ==
  /\ pending /\ ~blocked /\ ~inHandler /\ ~quit
  /\ pending' = FALSE
  /\ inHandler' = TRUE /\ nread' = 0
  /\ UNCHANGED <<mainVars, quit, dg, iput, netVars, nqueue>>

-----------------------------------------------------------------------------
\* The handler reaches the ring's limit: err_quit("receive overflow").
SigIoOverflow ==
  /\ inHandler /\ nqueue >= QSIZE /\ ~quit
  /\ quit' = TRUE
  /\ UNCHANGED <<mainVars, inHandler, nread, dg, iput, netVars, pending, nqueue>>

\* Mutant: iput moves on before the slot is chosen.
SigIoReadNextSlot ==
  /\ inHandler /\ nqueue < QSIZE /\ sockbuf # <<>> /\ ~quit
  /\ dg' = [dg EXCEPT ![NextSlot(iput)] = Head(sockbuf)]
  /\ sockbuf' = Tail(sockbuf)
  /\ nread' = nread + 1 /\ nqueue' = nqueue + 1
  /\ iput' = NextSlot(iput)
  /\ UNCHANGED <<mainVars, inHandler, quit, arrived, pending>>

\* One turn of sig_io()'s loop: the next datagram goes into slot iput.
SigIoRead ==
  /\ inHandler /\ nqueue < QSIZE /\ sockbuf # <<>> /\ ~quit
  /\ dg' = [dg EXCEPT ![iput] = Head(sockbuf)]
  /\ sockbuf' = Tail(sockbuf)
  /\ nread' = nread + 1 /\ nqueue' = nqueue + 1
  /\ iput' = NextSlot(iput)
  /\ UNCHANGED <<mainVars, inHandler, quit, arrived, pending>>

\* Mutant: the handler reads one datagram per signal and returns.
SigIoReturnAfterOne ==
  /\ inHandler /\ nqueue < QSIZE /\ (sockbuf = <<>> \/ nread = 1) /\ ~quit
  /\ inHandler' = FALSE
  /\ IF pc = "suspend" THEN pc' = "check" /\ blocked' = TRUE
                       ELSE UNCHANGED <<pc, blocked>>
  /\ UNCHANGED <<iget, echoed, quit, nread, dg, iput, netVars, pending, nqueue>>

\* recvfrom() says EWOULDBLOCK: the handler returns, which also ends a
\* sigsuspend() and restores the mask that was in force before it.
SigIoReturn ==
  /\ inHandler /\ nqueue < QSIZE /\ sockbuf = <<>> /\ ~quit
  /\ inHandler' = FALSE
  /\ IF pc = "suspend" THEN pc' = "check" /\ blocked' = TRUE
                       ELSE UNCHANGED <<pc, blocked>>
  /\ UNCHANGED <<iget, echoed, quit, nread, dg, iput, netVars, pending, nqueue>>

-----------------------------------------------------------------------------
\* Sigprocmask(SIG_BLOCK) before the loop is entered.
Enter ==
  /\ At("start")
  /\ pc' = "check" /\ blocked' = TRUE
  /\ UNCHANGED <<iget, echoed, handlerVars, netVars, pending, nqueue>>

\* while (nqueue == 0) sigsuspend(&zeromask): test and sleep are one step
\* because SIGIO stays blocked until sigsuspend() itself opens the mask.
Suspend ==
  /\ At("check") /\ nqueue = 0
  /\ pc' = "suspend" /\ blocked' = FALSE
  /\ UNCHANGED <<iget, echoed, handlerVars, netVars, pending, nqueue>>

\* Mutant: nqueue-- moves up before SIGIO is blocked again, as soon as the
\* slot is chosen.
UnblockAndRelease ==
  /\ At("check") /\ nqueue > 0
  /\ pc' = "send" /\ blocked' = FALSE
  /\ nqueue' = nqueue - 1
  /\ UNCHANGED <<iget, echoed, handlerVars, netVars, pending>>

\* Something is queued: SIGIO is unblocked for the time of the Sendto.
Unblock ==
  /\ At("check") /\ nqueue > 0
  /\ pc' = "send" /\ blocked' = FALSE
  /\ UNCHANGED <<iget, echoed, handlerVars, netVars, pending, nqueue>>

Send ==
  /\ At("send")
  /\ echoed' = Append(echoed, dg[iget])
  /\ pc' = "advance"
  /\ UNCHANGED <<blocked, iget, handlerVars, netVars, pending, nqueue>>

Advance ==
  /\ At("advance")
  /\ iget' = NextSlot(iget)
  /\ pc' = "block"
  /\ UNCHANGED <<blocked, echoed, handlerVars, netVars, pending, nqueue>>

Block ==
  /\ At("block")
  /\ blocked' = TRUE /\ pc' = "release"
  /\ UNCHANGED <<iget, echoed, handlerVars, netVars, pending, nqueue>>

\* nqueue--, with SIGIO blocked: the slot just sent may be reused.
Release ==
  /\ At("release")
  /\ nqueue' = nqueue - 1
  /\ pc' = "check"
  /\ UNCHANGED <<blocked, iget, echoed, handlerVars, netVars, pending>>

\* recvfrom() or Sendto() fails for another reason: err_sys() ends the process.
Fail ==
  /\ \/ inHandler /\ nqueue < QSIZE
     \/ At("send")
  /\ ~quit /\ quit' = TRUE
  /\ UNCHANGED <<mainVars, inHandler, nread, dg, iput, netVars, pending, nqueue>>

-----------------------------------------------------------------------------
Main == Enter \/ Suspend \/ Unblock \/ Send \/ Advance \/ Block \/ Release
Handler == Deliver \/ SigIoOverflow \/ SigIoRead \/ SigIoReturn

Next == Arrive \/ Handler \/ Main \/ Fail

\* The process is scheduled as long as it can run; the network owes nothing.
Fairness == WF_vars(Main) /\ WF_vars(Handler)
Spec == Init /\ [][Next]_vars /\ Fairness

-----------------------------------------------------------------------------
TypeOK ==
  /\ pc \in {"start", "check", "suspend", "send", "advance", "block",
             "release"}
  /\ blocked \in BOOLEAN /\ pending \in BOOLEAN /\ inHandler \in BOOLEAN
  /\ quit \in BOOLEAN
  /\ nread \in Nat /\ nqueue \in 0 .. QSIZE
  /\ dg \in [Slots -> Nat]
  /\ iget \in Slots /\ iput \in Slots
  /\ sockbuf \in Seq(Nat) /\ arrived \in Nat /\ echoed \in Seq(Nat)

\* Slots holding a datagram that dg_echo() has not passed to Sendto yet: the
\* slot being retired still counts in nqueue from Send until Release.
Unsent == IF pc \in {"advance", "block", "release"} THEN nqueue - 1 ELSE nqueue
Oldest == IF pc = "advance" THEN NextSlot(iget) ELSE iget

\* Slot k places after slot i.
SlotAfter(i, k) == IF i + k >= QSIZE THEN i + k - QSIZE ELSE i + k

(***************************************************************************)
(* The ring's indices agree although the two sides update them in          *)
(* different signal contexts (dgecho01.c:57-73, 101-107): iput is nqueue   *)
(* slots after iget (one fewer once iget has moved on), the loop never     *)
(* takes from an empty ring, and one delivery never reads more than it     *)
(* leaves queued, so cntread[nread] stays inside cntread[QSIZE+1].         *)
(***************************************************************************)
RingIndices ==
  /\ pc \in {"send", "advance", "block", "release"} => nqueue > 0
  /\ iput = IF pc \in {"block", "release"} THEN SlotAfter(iget, nqueue - 1)
            ELSE IF nqueue = QSIZE THEN iget ELSE SlotAfter(iget, nqueue)
  /\ inHandler => nread <= nqueue

(***************************************************************************)
(* Nothing is lost, repeated, reordered or overwritten between the socket  *)
(* and Sendto: what was echoed, then what the ring still holds, then what  *)
(* waits in the socket, is exactly the sequence of arrivals.               *)
(***************************************************************************)
EchoFIFO ==
  echoed \o [k \in 1 .. Unsent |-> dg[SlotAfter(Oldest, k - 1)]] \o sockbuf
    = [n \in 1 .. arrived |-> n]

(***************************************************************************)
(* No wake-up is lost between the test of nqueue and sigsuspend: every     *)
(* datagram that arrives is echoed, unless the server quits.               *)
(***************************************************************************)
EveryDatagramEchoed ==
  \A n \in 1 .. MaxDg :
    arrived >= n ~> (Len(echoed) >= n \/ quit)
=============================================================================
