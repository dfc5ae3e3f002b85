-------------------------- MODULE DatagramsProofs ---------------------------
(***************************************************************************)
(* TLAPS proofs about SigioEcho (for every ring size the SIGIO handler and *)
(* the main loop keep the ring in order) and about MCDatagrams, in which   *)
(* one of the programs on datagrams and raw sockets runs: answers that are *)
(* taken belong to what was asked, the retransmission timeout keeps its    *)
(* bounds, and the ICMP daemon tells its clients of their own errors, for  *)
(* every number of requests, clients, entries and sequence numbers.        *)
(***************************************************************************)
EXTENDS MCDatagrams, Integers, FiniteSetTheorems, WellFoundedInduction, TLAPS

-----------------------------------------------------------------------------
(* The signal-driven echo server.                                          *)

(***************************************************************************)
(* What has to be added to TypeOK and RingIndices to make them inductive:  *)
(* the signal mask as a function of where dg_echo() is.  The handler can   *)
(* interrupt it nowhere between the block and the unblock, so the handler  *)
(* never sees nqueue between the test and sigsuspend() or at nqueue--.     *)
(***************************************************************************)
Masked ==
  /\ blocked <=> pc \in {"check", "release"}
  /\ inHandler => ~blocked

RingInv == TypeOK /\ RingIndices /\ Masked

(***************************************************************************)
(* NextSlot (the "if (++i >= QSIZE) i = 0" of dg_echo() and sig_io())      *)
(* stays inside the ring and commutes with SlotAfter.                      *)
(***************************************************************************)
LEMMA NextSlotInRing ==
  ASSUME NEW i \in Slots
  PROVE  NextSlot(i) \in Slots
BY QSIZEAssumption DEF NextSlot, Slots

LEMMA NextSlotAfter ==
  ASSUME NEW i \in Slots, NEW k \in 0 .. QSIZE - 1
  PROVE  /\ k + 1 < QSIZE => NextSlot(SlotAfter(i, k)) = SlotAfter(i, k + 1)
         /\ k + 1 = QSIZE => NextSlot(SlotAfter(i, k)) = i
         /\ k > 0 => SlotAfter(NextSlot(i), k - 1) = SlotAfter(i, k)
         /\ SlotAfter(NextSlot(i), QSIZE - 1) = i
         /\ SlotAfter(i, 0) = i
         /\ SlotAfter(i, k) \in Slots
BY QSIZEAssumption DEF NextSlot, SlotAfter, Slots

\* The initial state of dg_echo() satisfies the inductive invariant.
LEMMA RingInit == Init => RingInv
BY QSIZEAssumption
   DEF Init, RingInv, TypeOK, RingIndices, Masked, Slots, SlotAfter

\* Every step of the network, the handler and the main loop preserves it.
LEMMA RingNext == RingInv /\ [Next]_vars => RingInv'
<1> SUFFICES ASSUME RingInv, [Next]_vars
             PROVE  RingInv'
  OBVIOUS
<1> USE QSIZEAssumption DEF RingInv, Masked
<1>1. CASE Arrive
  BY <1>1 DEF Arrive, TypeOK, RingIndices, mainVars, handlerVars, SlotAfter,
              NextSlot
<1>2. CASE Deliver
  <2>1. TypeOK'
    BY <1>2 DEF Deliver, TypeOK, mainVars, netVars
  <2>2. RingIndices'
    BY <1>2 DEF Deliver, TypeOK, RingIndices, mainVars, netVars, SlotAfter
  <2>3. Masked'
    BY <1>2 DEF Deliver, mainVars
  <2> QED
    BY <2>1, <2>2, <2>3
<1>3. CASE SigIoOverflow
  BY <1>3 DEF SigIoOverflow, TypeOK, RingIndices, mainVars, netVars, SlotAfter
<1>4. CASE SigIoRead
  <2>1. TypeOK'
    BY <1>4, NextSlotInRing DEF SigIoRead, TypeOK, mainVars
  <2>2. RingIndices'
    <3>1. CASE pc \in {"block", "release"}
      <4>1. iput = SlotAfter(iget, nqueue - 1) /\ nqueue - 1 \in 0 .. QSIZE - 1
        BY <1>4, <3>1 DEF SigIoRead, TypeOK, RingIndices
      <4>2. iput' = SlotAfter(iget, nqueue)
        BY <1>4, <4>1, NextSlotAfter DEF SigIoRead, TypeOK
      <4> QED
        BY <1>4, <3>1, <4>2 DEF SigIoRead, TypeOK, RingIndices, mainVars
    <3>2. CASE pc \notin {"block", "release"}
      <4>1. iput = SlotAfter(iget, nqueue) /\ nqueue \in 0 .. QSIZE - 1
        BY <1>4, <3>2 DEF SigIoRead, TypeOK, RingIndices
      <4>2. iput' = IF nqueue + 1 = QSIZE THEN iget
                    ELSE SlotAfter(iget, nqueue + 1)
        <5>1. iput' = NextSlot(SlotAfter(iget, nqueue))
          BY <1>4, <4>1 DEF SigIoRead
        <5>2. iget \in Slots /\ (nqueue + 1 < QSIZE \/ nqueue + 1 = QSIZE)
          BY <4>1 DEF TypeOK
        <5> QED
          BY <4>1, <5>1, <5>2, NextSlotAfter
      <4> QED
        BY <1>4, <3>2, <4>2 DEF SigIoRead, TypeOK, RingIndices, mainVars
    <3> QED
      BY <3>1, <3>2
  <2> QED
    BY <2>1, <2>2, <1>4 DEF SigIoRead, mainVars
<1>5. CASE SigIoReturn
  BY <1>5 DEF SigIoReturn, TypeOK, RingIndices, netVars, SlotAfter
<1>6. CASE Enter
  BY <1>6 DEF Enter, At, TypeOK, RingIndices, handlerVars, netVars, SlotAfter
<1>7. CASE Suspend
  BY <1>7 DEF Suspend, At, TypeOK, RingIndices, handlerVars, netVars, SlotAfter
<1>8. CASE Unblock
  BY <1>8 DEF Unblock, At, TypeOK, RingIndices, handlerVars, netVars, SlotAfter
<1>9. CASE Send
  BY <1>9 DEF Send, At, TypeOK, RingIndices, handlerVars, netVars, SlotAfter
<1>10. CASE Advance
  <2>1. TypeOK'
    BY <1>10, NextSlotInRing DEF Advance, At, TypeOK, handlerVars, netVars
  <2>2. RingIndices'
    <3>1. iput = SlotAfter(NextSlot(iget), nqueue - 1)
      BY <1>10, NextSlotAfter DEF Advance, At, TypeOK, RingIndices
    <3> QED
      BY <1>10, <3>1 DEF Advance, At, TypeOK, RingIndices, handlerVars
  <2> QED
    BY <2>1, <2>2, <1>10 DEF Advance, At, handlerVars
<1>11. CASE Block
  BY <1>11 DEF Block, At, TypeOK, RingIndices, handlerVars, netVars, SlotAfter
<1>12. CASE Release
  BY <1>12 DEF Release, At, TypeOK, RingIndices, handlerVars, netVars, SlotAfter
<1>13. CASE Fail
  BY <1>13 DEF Fail, TypeOK, RingIndices, mainVars, netVars, SlotAfter
<1>14. CASE UNCHANGED vars
  BY <1>14 DEF vars, mainVars, handlerVars, netVars, TypeOK, RingIndices
<1> QED
  BY <1>1, <1>2, <1>3, <1>4, <1>5, <1>6, <1>7, <1>8, <1>9, <1>10, <1>11,
     <1>12, <1>13, <1>14
  DEF Next, Main, Handler

(***************************************************************************)
(* dg_echo() and sig_io() never take a slot index or the queue length out  *)
(* of range.                                                               *)
(***************************************************************************)
THEOREM TypeCorrect == Spec => []TypeOK
<1>1. Spec => []RingInv
  BY RingInit, RingNext, PTL DEF Spec
<1> QED
  BY <1>1, PTL DEF RingInv

(***************************************************************************)
(* However the handler and the loop interleave, the indices that they      *)
(* update in different signal contexts describe the same ring.             *)
(***************************************************************************)
THEOREM IndicesAgree == Spec => []RingIndices
<1>1. Spec => []RingInv
  BY RingInit, RingNext, PTL DEF Spec
<1> QED
  BY <1>1, PTL DEF RingInv
-----------------------------------------------------------------------------
(***************************************************************************)
(* EchoFIFO datagram by datagram, which is the form that a step preserves: *)
(* the n-th datagram is the n-th echoed, or it is in the slot, or at the   *)
(* place of the socket buffer, that its number says.                       *)
(***************************************************************************)
InOrder ==
  /\ Len(echoed) + Unsent + Len(sockbuf) = arrived
  /\ \A n \in 1 .. Len(echoed) : echoed[n] = n
  /\ \A k \in 1 .. Unsent : dg[SlotAfter(Oldest, k - 1)] = Len(echoed) + k
  /\ \A k \in 1 .. Len(sockbuf) : sockbuf[k] = Len(echoed) + Unsent + k

\* What RingInv says of the part of the ring that is not sent yet.
LEMMA UnsentInRing ==
  ASSUME RingInv
  PROVE  /\ Unsent \in 0 .. QSIZE /\ Oldest \in Slots
         /\ Len(echoed) \in Nat /\ Len(sockbuf) \in Nat
BY QSIZEAssumption, NextSlotInRing
   DEF RingInv, TypeOK, RingIndices, Unsent, Oldest

\* iput, the slot that sig_io() fills next, is the first one after the unsent.
LEMMA PutAfterUnsent ==
  ASSUME RingInv, nqueue < QSIZE
  PROVE  iput = SlotAfter(Oldest, Unsent) /\ Unsent \in 0 .. QSIZE - 1
<1> USE QSIZEAssumption
<1>1. CASE pc = "advance"
  <2>1. nqueue \in 1 .. QSIZE - 1 /\ iput = SlotAfter(iget, nqueue) /\ iget \in Slots
    BY <1>1 DEF RingInv, TypeOK, RingIndices
  <2>2. SlotAfter(NextSlot(iget), nqueue - 1) = SlotAfter(iget, nqueue)
    BY <2>1, NextSlotAfter
  <2> QED
    BY <1>1, <2>1, <2>2 DEF Unsent, Oldest
<1>2. CASE pc # "advance"
  BY <1>2 DEF RingInv, TypeOK, RingIndices, Unsent, Oldest
<1> QED
  BY <1>1, <1>2

\* Two places of the ring fewer than QSIZE apart are two slots.
LEMMA SlotsDiffer ==
  ASSUME NEW i \in Slots, NEW j \in 0 .. QSIZE - 1, NEW k \in 0 .. QSIZE - 1, j # k
  PROVE  SlotAfter(i, j) # SlotAfter(i, k)
BY QSIZEAssumption DEF SlotAfter, Slots

\* A step that leaves the datagrams and the unsent part alone keeps the order.
LEMMA OrderKept ==
  ASSUME InOrder, UNCHANGED <<echoed, dg, sockbuf, arrived>>,
         Unsent' = Unsent, Oldest' = Oldest
  PROVE  InOrder'
BY DEF InOrder, SlotAfter

\* The step of sig_io() that reads a datagram keeps the order.
LEMMA ReadKeepsOrder == RingInv /\ InOrder /\ SigIoRead => InOrder'
<1> SUFFICES ASSUME RingInv, InOrder, SigIoRead
             PROVE  InOrder'
  OBVIOUS
<1> USE QSIZEAssumption
<1>1. /\ iput = SlotAfter(Oldest, Unsent) /\ Unsent \in 0 .. QSIZE - 1
      /\ Oldest \in Slots /\ iput \in Slots
      /\ Unsent' = Unsent + 1 /\ Oldest' = Oldest
  BY PutAfterUnsent, UnsentInRing
     DEF SigIoRead, mainVars, RingInv, TypeOK, Unsent, Oldest
<1>2. /\ sockbuf \in Seq(Nat) /\ sockbuf # <<>> /\ echoed \in Seq(Nat)
      /\ dg \in [Slots -> Nat] /\ arrived \in Nat
      /\ sockbuf' = Tail(sockbuf) /\ dg' = [dg EXCEPT ![iput] = sockbuf[1]]
      /\ echoed' = echoed /\ arrived' = arrived
  BY DEF SigIoRead, mainVars, RingInv, TypeOK
<1>3. /\ Len(sockbuf') = Len(sockbuf) - 1 /\ Len(sockbuf) \in Nat \ {0}
      /\ Len(echoed) \in Nat
      /\ \A k \in 1 .. Len(sockbuf') : sockbuf'[k] = sockbuf[k + 1]
  BY <1>2
<1>4. \A k \in 1 .. Unsent : dg'[SlotAfter(Oldest, k - 1)] = Len(echoed) + k
  <2> TAKE k \in 1 .. Unsent
  <2>1. SlotAfter(Oldest, k - 1) # iput /\ SlotAfter(Oldest, k - 1) \in Slots
    BY <1>1, SlotsDiffer, NextSlotAfter
  <2> QED
    BY <1>2, <2>1 DEF InOrder
<1>5. dg'[SlotAfter(Oldest, Unsent)] = Len(echoed) + Unsent + 1
  BY <1>1, <1>2, <1>3 DEF InOrder
<1>6. \A k \in 1 .. Unsent' : dg'[SlotAfter(Oldest', k - 1)] = Len(echoed') + k
  <2> TAKE k \in 1 .. Unsent'
  <2>1. CASE k \in 1 .. Unsent
    BY <1>1, <1>2, <1>4, <2>1
  <2>2. CASE k = Unsent + 1
    BY <1>1, <1>2, <1>3, <1>5, <2>2
  <2> QED
    BY <1>1, <2>1, <2>2
<1>7. \A k \in 1 .. Len(sockbuf') : sockbuf'[k] = Len(echoed') + Unsent' + k
  <2> TAKE k \in 1 .. Len(sockbuf')
  <2>1. k + 1 \in 1 .. Len(sockbuf) /\ sockbuf'[k] = sockbuf[k + 1]
    BY <1>3
  <2>2. sockbuf[k + 1] = Len(echoed) + Unsent + (k + 1)
    BY <2>1 DEF InOrder
  <2> QED
    BY <1>1, <1>2, <1>3, <2>1, <2>2
<1>8. Len(echoed') + Unsent' + Len(sockbuf') = arrived'
  BY <1>1, <1>2, <1>3 DEF InOrder
<1> QED
  BY <1>2, <1>6, <1>7, <1>8 DEF InOrder, SlotAfter

\* The Sendto of dg_echo() takes the oldest one.
LEMMA SendKeepsOrder == RingInv /\ InOrder /\ Send => InOrder'
<1> SUFFICES ASSUME RingInv, InOrder, Send
             PROVE  InOrder'
  OBVIOUS
<1> USE QSIZEAssumption
<1>1. /\ Unsent \in 1 .. QSIZE /\ Oldest = iget /\ iget \in Slots
      /\ Unsent' = Unsent - 1 /\ Oldest' = NextSlot(iget)
  BY DEF Send, At, handlerVars, RingInv, TypeOK, RingIndices, Unsent, Oldest, NextSlot
<1>2. /\ sockbuf \in Seq(Nat) /\ echoed \in Seq(Nat) /\ arrived \in Nat
      /\ dg[iget] \in Nat /\ echoed' = Append(echoed, dg[iget])
      /\ UNCHANGED <<sockbuf, dg, arrived>>
  BY DEF Send, handlerVars, netVars, RingInv, TypeOK
<1>3. dg[iget] = Len(echoed) + 1
  <2>1. SlotAfter(iget, 1 - 1) = iget
    BY <1>1, NextSlotAfter
  <2> QED
    BY <1>1, <2>1 DEF InOrder
<1>4. /\ Len(echoed') = Len(echoed) + 1 /\ Len(echoed) \in Nat
      /\ \A n \in 1 .. Len(echoed) : echoed'[n] = echoed[n]
      /\ echoed'[Len(echoed) + 1] = dg[iget]
  BY <1>2
<1>5. \A n \in 1 .. Len(echoed') : echoed'[n] = n
  BY <1>3, <1>4 DEF InOrder
<1>6. \A k \in 1 .. Unsent' : dg'[SlotAfter(Oldest', k - 1)] = Len(echoed') + k
  <2> TAKE k \in 1 .. Unsent'
  <2>1. SlotAfter(Oldest', k - 1) = SlotAfter(Oldest, (k + 1) - 1)
    BY <1>1, NextSlotAfter
  <2>2. dg[SlotAfter(Oldest, (k + 1) - 1)] = Len(echoed) + (k + 1)
    <3>1. k + 1 \in 1 .. Unsent
      BY <1>1
    <3> QED
      BY <3>1 DEF InOrder
  <2> QED
    BY <1>2, <1>4, <2>1, <2>2
<1>7. /\ \A k \in 1 .. Len(sockbuf') : sockbuf'[k] = Len(echoed') + Unsent' + k
      /\ Len(echoed') + Unsent' + Len(sockbuf') = arrived'
  BY <1>1, <1>2, <1>4 DEF InOrder
<1> QED
  BY <1>5, <1>6, <1>7 DEF InOrder, SlotAfter

\* Every step of the network, the handler and the main loop keeps the order.
LEMMA NextInOrder == RingInv /\ InOrder /\ [Next]_vars => InOrder'
<1> SUFFICES ASSUME RingInv, InOrder, [Next]_vars
             PROVE  InOrder'
  OBVIOUS
<1>1. CASE Arrive
  <2>1. /\ sockbuf \in Seq(Nat) /\ arrived \in Nat /\ Len(echoed) \in Nat
        /\ Unsent \in Nat /\ Unsent' = Unsent /\ Oldest' = Oldest
        /\ sockbuf' = Append(sockbuf, arrived + 1) /\ arrived' = arrived + 1
        /\ UNCHANGED <<echoed, dg>>
    BY <1>1, UnsentInRing DEF Arrive, mainVars, handlerVars, RingInv, TypeOK,
                              Unsent, Oldest, NextSlot
  <2>2. /\ Len(sockbuf') = Len(sockbuf) + 1 /\ Len(sockbuf) \in Nat
        /\ \A k \in 1 .. Len(sockbuf) : sockbuf'[k] = sockbuf[k]
        /\ sockbuf'[Len(sockbuf) + 1] = arrived + 1
    BY <2>1
  <2>3. \A k \in 1 .. Len(sockbuf') : sockbuf'[k] = Len(echoed') + Unsent' + k
    <3> TAKE k \in 1 .. Len(sockbuf')
    <3>1. CASE k \in 1 .. Len(sockbuf)
      BY <2>1, <2>2, <3>1 DEF InOrder
    <3>2. CASE k = Len(sockbuf) + 1
      BY <2>1, <2>2, <3>2 DEF InOrder
    <3> QED
      BY <2>2, <3>1, <3>2
  <2>4. Len(echoed') + Unsent' + Len(sockbuf') = arrived'
    BY <2>1, <2>2 DEF InOrder
  <2>5. \A n \in 1 .. Len(echoed') : echoed'[n] = n
    BY <2>1 DEF InOrder
  <2>6. \A k \in 1 .. Unsent' : dg'[SlotAfter(Oldest', k - 1)] = Len(echoed') + k
    BY <2>1 DEF InOrder
  <2> QED
    BY <2>3, <2>4, <2>5, <2>6 DEF InOrder, SlotAfter
<1>2. CASE Deliver \/ SigIoOverflow \/ SigIoReturn \/ Fail
  BY <1>2, OrderKept DEF Deliver, SigIoOverflow, SigIoReturn, Fail, mainVars, netVars,
                         Unsent, Oldest, NextSlot
<1>3. CASE SigIoRead
  BY <1>3, ReadKeepsOrder
<1>4. CASE Send
  BY <1>4, SendKeepsOrder
<1>5. CASE Enter \/ Suspend \/ Unblock
  BY <1>5, OrderKept DEF Enter, Suspend, Unblock, At, handlerVars, netVars,
                         Unsent, Oldest, NextSlot
<1>6. CASE Advance \/ Block \/ Release
  BY <1>6, OrderKept DEF Advance, Block, Release, At, handlerVars, netVars,
                         Unsent, Oldest, NextSlot
<1>7. CASE UNCHANGED vars
  BY <1>7, OrderKept DEF vars, mainVars, handlerVars, netVars, Unsent, Oldest,
                         NextSlot
<1> QED
  BY <1>1, <1>2, <1>3, <1>4, <1>5, <1>6, <1>7 DEF Next, Main, Handler

\* The pointwise form is the one that the run checks.
LEMMA OrderIsFIFO == RingInv /\ InOrder => EchoFIFO
<1> SUFFICES ASSUME RingInv, InOrder
             PROVE  EchoFIFO
  OBVIOUS
<1> DEFINE ring == [k \in 1 .. Unsent |-> dg[SlotAfter(Oldest, k - 1)]]
           all == echoed \o ring \o sockbuf
<1>1. echoed \in Seq(Nat) /\ sockbuf \in Seq(Nat) /\ arrived \in Nat
  BY DEF RingInv, TypeOK
<1>2. Unsent \in Nat
  BY UnsentInRing
<1>3. ring \in Seq(Nat) /\ Len(ring) = Unsent
  <2>1. \A k \in 1 .. Unsent : dg[SlotAfter(Oldest, k - 1)] \in Nat
    BY <1>1, <1>2 DEF InOrder
  <2> QED
    BY <1>2, <2>1
<1>4. all \in Seq(Nat) /\ Len(all) = arrived
  BY <1>1, <1>2, <1>3 DEF InOrder
<1>5. \A n \in 1 .. arrived : all[n] = n
  <2> TAKE n \in 1 .. arrived
  <2>1. CASE n <= Len(echoed)
    BY <1>1, <1>2, <1>3, <2>1 DEF InOrder
  <2>2. CASE n > Len(echoed) /\ n <= Len(echoed) + Unsent
    <3>1. n - Len(echoed) \in 1 .. Unsent
      BY <1>1, <1>2, <2>2
    <3>2. dg[SlotAfter(Oldest, (n - Len(echoed)) - 1)] = Len(echoed) + (n - Len(echoed))
      BY <3>1 DEF InOrder
    <3>3. ring[n - Len(echoed)] = n
      BY <1>1, <3>1, <3>2
    <3> QED
      BY <1>1, <1>2, <1>3, <2>2, <3>3
  <2>3. CASE n > Len(echoed) + Unsent
    <3>1. n - Len(echoed) - Unsent \in 1 .. Len(sockbuf)
      BY <1>1, <1>2, <2>3 DEF InOrder
    <3>2. sockbuf[n - Len(echoed) - Unsent] = n
      BY <1>1, <1>2, <3>1 DEF InOrder
    <3> QED
      BY <1>1, <1>2, <1>3, <2>3, <3>1, <3>2
  <2>4. n \in Nat /\ Len(echoed) \in Nat /\ Unsent \in Nat
    BY <1>1, <1>2
  <2> HIDE DEF all
  <2> QED
    BY <2>1, <2>2, <2>3, <2>4
<1>6. all = [n \in 1 .. arrived |-> n]
  <2> HIDE DEF all
  <2>1. all = [n \in 1 .. Len(all) |-> all[n]]
    BY <1>4
  <2> QED
    BY <1>4, <1>5, <2>1
<1> QED
  BY <1>6 DEF EchoFIFO

(***************************************************************************)
(* For every ring size, and wherever the handler interrupts the loop, no   *)
(* datagram is lost, repeated, reordered or overwritten between the socket *)
(* and Sendto.                                                             *)
(***************************************************************************)
THEOREM EchoedInOrder == Spec => []EchoFIFO
<1>1. Init => RingInv /\ InOrder
  BY RingInit DEF Init, InOrder, Unsent, Oldest
<1>2. RingInv /\ InOrder /\ [Next]_vars => (RingInv /\ InOrder)'
  BY RingNext, NextInOrder
<1>3. Spec => [](RingInv /\ InOrder)
  BY <1>1, <1>2, PTL DEF Spec
<1> QED
  BY <1>3, OrderIsFIFO, PTL

-----------------------------------------------------------------------------
(* traceroute.                                                             *)

Answers == [seq : Nat, says : Int]
TracePlaces == {"probe", "test", "enter", "in", "result", "end"}

TraceTyped ==
  /\ tpc \in TracePlaces /\ seq \in Nat /\ ttl \in Nat /\ code \in Int
  /\ under \subseteq Answers /\ raw \in Seq(Answers)

\* An answer to the probe that is under way, wherever it is.
Truthful(a) == a.seq = seq /\ a.says = -1 => ttl >= HOPS

\* No answer is ahead of the probes, and while recv() waits the answers to the
\* last probe tell the truth; the strays, which have the number 0, answer none.
AnswersRight ==
  /\ \A a \in under : a.seq <= seq
  /\ \A k \in 1 .. Len(raw) : raw[k].seq <= seq
  /\ tpc \in {"test", "enter", "in"} =>
       /\ seq > 0
       /\ \A a \in under : Truthful(a)
       /\ \A k \in 1 .. Len(raw) : Truthful(raw[k])

TraceInv == TraceTyped /\ AnswersRight /\ Trace!StopsAtDestination

LEMMA TraceInit == Trace!Init => TraceInv
BY DatagramsAssumption DEF Trace!Init, TraceInv, TraceTyped, TracePlaces, AnswersRight, Trace!StopsAtDestination

LEMMA TraceArrive ==
  ASSUME TraceInv, NEW a \in under \cup Trace!Strays, Trace!Arrive(a)
  PROVE  TraceInv'
<1>1. a \in Answers /\ a.seq <= seq /\ (tpc \in {"test", "enter", "in"} => Truthful(a))
  BY DEF TraceInv, TraceTyped, AnswersRight, Trace!Strays, Answers, Truthful
<1>2. UNCHANGED <<pr, tpc, ttl, seq, code>> /\ raw' = Append(raw, a) /\ under' \subseteq under
  BY DEF Trace!Arrive, Trace!tlVars
<1>3. raw' \in Seq(Answers) /\ Len(raw') = Len(raw) + 1 /\ raw'[Len(raw) + 1] = a
      /\ \A k \in 1 .. Len(raw) : raw'[k] = raw[k]
  BY <1>1, <1>2 DEF TraceInv, TraceTyped
<1>4. \A k \in 1 .. Len(raw') : k \in 1 .. Len(raw) \/ k = Len(raw) + 1
  BY <1>3 DEF TraceInv, TraceTyped
<1>5. TraceTyped'
  BY <1>2, <1>3 DEF TraceInv, TraceTyped
<1>6. AnswersRight'
  BY <1>1, <1>2, <1>3, <1>4 DEF TraceInv, AnswersRight, Truthful
<1> QED
  BY <1>2, <1>5, <1>6 DEF TraceInv, Trace!StopsAtDestination

LEMMA TraceProbe ==
  ASSUME TraceInv, Trace!Probe
  PROVE  TraceInv'
<1>1. tpc' = "test" /\ seq' = seq + 1 /\ UNCHANGED <<pr, ttl, code, raw>>
  BY DEF Trace!Probe
<1>2. \A a \in under' : a \in under \/ (a = [seq |-> seq + 1, says |-> a.says] /\ a.says \in Trace!Says(ttl))
  BY DEF Trace!Probe
<1>3. \A s \in Trace!Says(ttl) : s \in Int /\ (s = -1 => ttl >= HOPS)
  BY DatagramsAssumption DEF Trace!Says, TraceInv, TraceTyped
<1>4. TraceTyped'
  BY <1>1, <1>2, <1>3 DEF TraceInv, TraceTyped, Answers, TracePlaces
<1>5. AnswersRight'
  <2>1. ASSUME NEW a \in under' PROVE a.seq <= seq' /\ Truthful(a)'
    <3>1. CASE a \in under
      <4>1. a.seq \in Nat /\ a.seq <= seq
        BY <3>1 DEF TraceInv, TraceTyped, AnswersRight, Answers
      <4> QED BY <1>1, <4>1 DEF Truthful, TraceInv, TraceTyped
    <3>2. CASE a \notin under
      BY <1>1, <1>2, <1>3, <2>1, <3>2 DEF Truthful, TraceInv, TraceTyped
    <3> QED BY <3>1, <3>2
  <2>2. ASSUME NEW k \in 1 .. Len(raw) PROVE raw[k].seq <= seq' /\ (raw[k].seq = seq' => FALSE)
    <3>1. raw[k] \in Answers /\ raw[k].seq <= seq
      BY DEF TraceInv, TraceTyped, AnswersRight
    <3>2. raw[k].seq \in Nat
      BY <3>1 DEF Answers
    <3> QED BY <1>1, <3>1, <3>2 DEF TraceInv, TraceTyped
  <2> QED BY <1>1, <2>1, <2>2 DEF AnswersRight, Truthful, TraceInv, TraceTyped
<1> QED
  BY <1>1, <1>4, <1>5 DEF TraceInv, Trace!StopsAtDestination

LEMMA TraceReceive ==
  ASSUME TraceInv, Trace!Receive
  PROVE  TraceInv'
<1>1. /\ tpc = "in" /\ raw # <<>> /\ raw' = Tail(raw) /\ UNCHANGED <<pr, ttl, seq, under>>
      /\ tpc' \in {"test", "result"} /\ (tpc' = "test" => UNCHANGED code)
      /\ tpc' = "result" => code' \in Trace!Takes(Head(raw))
  BY DEF Trace!Receive, Trace!tlVars
<1>2. raw' \in Seq(Answers) /\ Len(raw') = Len(raw) - 1 /\ Head(raw) = raw[1] /\ Head(raw) \in Answers
      /\ 1 \in 1 .. Len(raw) /\ \A k \in 1 .. Len(raw') : k + 1 \in 1 .. Len(raw) /\ raw'[k] = raw[k + 1]
  BY <1>1 DEF TraceInv, TraceTyped
<1>3. tpc' = "result" => code' \in Int /\ (code' = -1 /\ pr = "v4" => ttl >= HOPS)
  BY <1>1, <1>2 DEF Trace!Takes, TraceInv, AnswersRight, Truthful, Answers
<1>4. TraceTyped'
  BY <1>1, <1>2, <1>3 DEF TraceInv, TraceTyped, TracePlaces
<1>5. AnswersRight'
  BY <1>1, <1>2 DEF TraceInv, AnswersRight, Truthful
<1> QED
  BY <1>1, <1>3, <1>4, <1>5 DEF TraceInv, Trace!StopsAtDestination

LEMMA TraceNext == TraceInv /\ (Trace!Next \/ UNCHANGED traceVars) => TraceInv'
<1> SUFFICES ASSUME TraceInv, Trace!Next \/ UNCHANGED traceVars
             PROVE  TraceInv'
  OBVIOUS
<1> USE DEF TraceInv, TraceTyped, TracePlaces, AnswersRight, Trace!StopsAtDestination, Truthful
<1>1. CASE UNCHANGED traceVars
  BY <1>1 DEF traceVars
<1>2. CASE Trace!SigAlrm
  BY <1>2 DEF Trace!SigAlrm, Trace!tlVars
<1>3. CASE Trace!Test
  BY <1>3 DEF Trace!Test, Trace!tlVars
<1>4. CASE Trace!Enter
  BY <1>4 DEF Trace!Enter, Trace!tlVars
<1>5. CASE Trace!Result
  BY <1>5 DEF Trace!Result
<1>6. ASSUME NEW a \in under \cup Trace!Strays, Trace!Arrive(a) PROVE TraceInv'
  BY <1>6, TraceArrive
<1> QED
  BY <1>1, <1>2, <1>3, <1>4, <1>5, <1>6, TraceProbe, TraceReceive DEF Trace!Next, Trace!Trace
-----------------------------------------------------------------------------
(* ping.                                                                   *)

PingPlaces == {"preload", "loop", "test", "set", "packed", "exit"}

\* The sequence numbers that have been used, and those of them whose bit is not set.
Used == {s \in 0 .. SEQMOD - 1 : s < ntransmitted}
Free == Used \ rcvd_tbl

\* Within pr_pack(), and when the handler ends the program there, the answer
\* is counted before it is known to be new.
Early == ppc \in {"test", "set"} \/ (ppc = "exit" /\ handler = "onint")
Counted == IF Early THEN nreceived - 1 ELSE nreceived

PingTyped ==
  /\ ppc \in PingPlaces /\ handler \in {"onalrm", "onint"}
  /\ ntransmitted \in Nat /\ nreceived \in Int
  /\ pnet \subseteq {a \in Nat : a < ntransmitted}

\* A number whose bit is not set has been sent at least once since it was last
\* counted.  While SET() is at work the handler only clears bits.
BitsRight ==
  /\ Counted + Cardinality(Free) <= ntransmitted
  /\ ppc \in {"test", "set"} => seen \in Used
  /\ ppc = "set" => seen \notin reg /\ rcvd_tbl \subseteq reg

PingInv == PingTyped /\ BitsRight

LEMMA FreeFinite == IsFiniteSet(Free) /\ Cardinality(Free) \in Nat
<1>1. IsFiniteSet(0 .. SEQMOD - 1)
  BY FS_Interval, DatagramsAssumption
<1>2. Free \subseteq 0 .. SEQMOD - 1
  BY DEF Free, Used
<1> QED BY <1>1, <1>2, FS_Subset, FS_CardinalityType

LEMMA ModBelow ==
  ASSUME NEW a \in Nat
  PROVE  a % SEQMOD \in 0 .. SEQMOD - 1 /\ a % SEQMOD <= a
BY DatagramsAssumption

LEMMA PingInit == Ping1!Init => PingInv
<1> SUFFICES ASSUME Ping1!Init PROVE PingInv
  OBVIOUS
<1>1. ntransmitted = 0 /\ Free = {}
  BY DEF Ping1!Init, Free, Used
<1>2. Cardinality(Free) = 0
  BY <1>1, FS_EmptySet
<1> QED
  BY <1>1, <1>2 DEF Ping1!Init, PingInv, PingTyped, PingPlaces, BitsRight, Counted, Early

\* A request takes one more number, or one that has been used before.
LEMMA PingSends ==
  ASSUME PingInv, Ping1!pinger, ppc' = ppc, UNCHANGED <<handler, nreceived, seen, reg>>
  PROVE  PingInv'
<1> DEFINE s == ntransmitted % SEQMOD
<1>1. ntransmitted \in Nat /\ ntransmitted' = ntransmitted + 1 /\ rcvd_tbl' = rcvd_tbl \ {s}
      /\ pnet' = pnet \cup {ntransmitted}
  BY DEF PingInv, PingTyped, Ping1!pinger
<1>2. s \in 0 .. SEQMOD - 1 /\ s <= ntransmitted
  BY <1>1, ModBelow
<1>3. \A t \in 0 .. SEQMOD - 1 : t = ntransmitted => t = s
  BY <1>1, DatagramsAssumption
<1> HIDE DEF s
<1>4. Free' \subseteq Free \cup {s} /\ Used \subseteq Used'
  BY <1>1, <1>2, <1>3, DatagramsAssumption DEF Free, Used
<1>5. Cardinality(Free') <= Cardinality(Free) + 1 /\ Cardinality(Free') \in Nat
  <2>1. IsFiniteSet(Free \cup {s}) /\ Cardinality(Free \cup {s}) <= Cardinality(Free) + 1
        /\ Cardinality(Free \cup {s}) \in Nat
    <3>1. IsFiniteSet(Free \cup {s}) /\ Cardinality(Free \cup {s}) =
            IF s \in Free THEN Cardinality(Free) ELSE Cardinality(Free) + 1
      BY FreeFinite, FS_AddElement
    <3> QED BY <3>1, FreeFinite
  <2>2. IsFiniteSet(Free') /\ Cardinality(Free') <= Cardinality(Free \cup {s})
    BY <1>4, <2>1, FS_Subset
  <2>3. Cardinality(Free') \in Nat
    BY <2>2, FS_CardinalityType
  <2> QED BY <2>1, <2>2, <2>3, FreeFinite
<1>6. PingTyped'
  BY <1>1 DEF PingInv, PingTyped
<1>7. Counted' = Counted /\ Counted \in Int
  BY DEF Counted, Early, PingInv, PingTyped
<1>8. Counted' + Cardinality(Free') <= ntransmitted'
  BY <1>1, <1>5, <1>7, FreeFinite DEF PingInv, BitsRight
<1>9. /\ ppc' \in {"test", "set"} => (seen \in Used)'
      /\ ppc' = "set" => (seen \notin reg /\ rcvd_tbl \subseteq reg)'
  <2>1. rcvd_tbl' \subseteq rcvd_tbl
    BY <1>1
  <2> QED BY <1>4, <2>1 DEF PingInv, BitsRight
<1> QED
  BY <1>6, <1>8, <1>9 DEF PingInv, BitsRight

LEMMA PingReceive ==
  ASSUME PingInv, NEW a \in pnet, Ping1!Receive(a)
  PROVE  PingInv'
<1>1. a \in Nat /\ a < ntransmitted /\ ntransmitted \in Nat /\ nreceived \in Int
  BY DEF PingInv, PingTyped
<1>2. a % SEQMOD \in Used
  BY <1>1, ModBelow, DatagramsAssumption DEF Used
<1>3. /\ UNCHANGED <<handler, ntransmitted, rcvd_tbl, reg>> /\ seen' = a % SEQMOD /\ ppc = "loop"
      /\ pnet' \subseteq pnet
      /\ \/ ppc' = "loop" /\ nreceived' = nreceived
         \/ ppc' = "test" /\ nreceived' = nreceived + 1
  BY DEF Ping1!Receive, Ping1!optVars
<1>4. Free' = Free /\ Used' = Used
  BY <1>3 DEF Free, Used
<1>5. Counted' = Counted
  BY <1>1, <1>3 DEF Counted, Early
<1>6. PingTyped'
  BY <1>1, <1>3 DEF PingInv, PingTyped, PingPlaces
<1> QED
  BY <1>2, <1>3, <1>4, <1>5, <1>6 DEF PingInv, BitsRight

LEMMA PingSetBit ==
  ASSUME PingInv, Ping1!SetBit
  PROVE  PingInv'
<1>1. /\ ppc = "set" /\ ppc' = "packed" /\ rcvd_tbl' = reg \cup {seen}
      /\ UNCHANGED <<handler, ntransmitted, nreceived, pnet, seen, reg>>
      /\ ntransmitted \in Nat /\ nreceived \in Int
  BY DEF Ping1!SetBit, Ping1!packVars, PingInv, PingTyped
<1>2. seen \in Free /\ Free' \subseteq Free \ {seen}
  BY <1>1 DEF PingInv, BitsRight, Free, Used
<1>3. Cardinality(Free') <= Cardinality(Free) - 1 /\ Cardinality(Free') \in Nat
  <2>1. IsFiniteSet(Free \ {seen}) /\ Cardinality(Free \ {seen}) = Cardinality(Free) - 1
    BY <1>2, FreeFinite, FS_RemoveElement
  <2>2. IsFiniteSet(Free') /\ Cardinality(Free') <= Cardinality(Free \ {seen})
    BY <1>2, <2>1, FS_Subset
  <2> QED BY <2>1, <2>2, FS_CardinalityType
<1>4. Counted' = Counted + 1 /\ Counted \in Int
  BY <1>1 DEF Counted, Early
<1>5. PingTyped'
  BY <1>1 DEF PingInv, PingTyped, PingPlaces
<1>6. Counted' + Cardinality(Free') <= ntransmitted'
  BY <1>1, <1>3, <1>4, FreeFinite DEF PingInv, BitsRight
<1> QED
  BY <1>1, <1>5, <1>6 DEF PingInv, BitsRight

\* The steps that send nothing and set no bit.
LEMMA PingElse ==
  ASSUME PingInv, UNCHANGED <<ntransmitted, rcvd_tbl, seen>>, pnet' \subseteq pnet,
         nreceived' \in Int, Counted' <= Counted,
         ppc' \in PingPlaces, handler' \in {"onalrm", "onint"},
         ppc' \in {"test", "set"} => ppc \in {"test", "set"},
         ppc' = "set" => (reg' = rcvd_tbl /\ seen \notin rcvd_tbl) \/ (ppc = "set" /\ reg' = reg)
  PROVE  PingInv'
<1>1. Free' = Free /\ Used' = Used
  BY DEF Free, Used
<1>2. Counted \in Int /\ Counted' \in Int /\ ntransmitted \in Nat
  BY DEF Counted, PingInv, PingTyped
<1>3. PingTyped'
  BY DEF PingInv, PingTyped
<1>4. Counted' + Cardinality(Free') <= ntransmitted'
  BY <1>1, <1>2, FreeFinite DEF PingInv, BitsRight
<1>5. (ppc \in {"test", "set"} => seen \in Used)'
  BY <1>1 DEF PingInv, BitsRight
<1>6. (ppc = "set" => seen \notin reg /\ rcvd_tbl \subseteq reg)'
  BY DEF PingInv, BitsRight
<1> QED
  BY <1>3, <1>4, <1>5, <1>6 DEF PingInv, BitsRight

LEMMA PingNext == PingInv /\ (Ping1!Next \/ UNCHANGED pingVars) => PingInv'
<1> SUFFICES ASSUME PingInv, Ping1!Next \/ UNCHANGED pingVars
             PROVE  PingInv'
  OBVIOUS
<1>0. /\ ppc \in PingPlaces /\ handler \in {"onalrm", "onint"} /\ nreceived \in Int
      /\ ppc = "set" => seen \notin reg /\ rcvd_tbl \subseteq reg
  BY DEF PingInv, PingTyped, BitsRight
<1> USE DEF PingPlaces, Counted, Early, Ping1!packVars, Ping1!optVars
<1>1. CASE UNCHANGED pingVars
  <2> QED BY <1>0, <1>1, PingElse DEF pingVars
<1>2. CASE Ping1!Preload
  <2>1. CASE Ping1!pinger /\ UNCHANGED ppc
    BY <1>2, <2>1, PingSends DEF Ping1!Preload
  <2>2. CASE ~ (Ping1!pinger /\ UNCHANGED ppc)
    BY <1>0, <1>2, <2>2, PingElse DEF Ping1!Preload
  <2> QED BY <2>1, <2>2
<1>3. CASE Ping1!Flood
  BY <1>3, PingSends DEF Ping1!Flood
<1>4. CASE Ping1!TestBit
  BY <1>0, <1>4, PingElse DEF Ping1!TestBit, Ping1!DupUncounted
<1>5. CASE Ping1!Packed
  BY <1>0, <1>5, PingElse DEF Ping1!Packed
<1>6. CASE Ping1!SigAlrm
  <2>1. CASE Ping1!pinger /\ UNCHANGED <<ppc, handler>>
    BY <1>6, <2>1, PingSends DEF Ping1!SigAlrm
  <2>2. CASE ~ (Ping1!pinger /\ UNCHANGED <<ppc, handler>>)
    <3>1. UNCHANGED <<ntransmitted, rcvd_tbl, pnet, nreceived, seen, reg>> /\ ppc # "exit"
          /\ \/ handler = "onint" /\ handler' = handler /\ ppc' = "exit"
             \/ handler = "onalrm" /\ handler' = "onint" /\ ppc' = ppc
      BY <1>6, <2>2 DEF Ping1!SigAlrm
    <3>2. Counted' <= Counted
      BY <1>0, <3>1
    <3> HIDE DEF Counted
    <3> QED BY <1>0, <3>1, <3>2, PingElse
  <2> QED BY <2>1, <2>2
<1>7. ASSUME NEW a \in pnet, Ping1!Receive(a) PROVE PingInv'
  BY <1>7, PingReceive
<1>8. ASSUME NEW a \in pnet, Ping1!Lose(a) PROVE PingInv'
  BY <1>0, <1>8, PingElse DEF Ping1!Lose
<1> QED
  BY <1>1, <1>2, <1>3, <1>4, <1>5, <1>6, <1>7, <1>8, PingSetBit DEF Ping1!Next, Ping1!Main

LEMMA PingCounts == PingInv => Ping1!CountsAgree
<1> SUFFICES ASSUME PingInv, ppc \in {"loop", "exit"}, handler = "onalrm"
             PROVE  nreceived <= ntransmitted
  BY DEF Ping1!CountsAgree
<1> QED
  BY FreeFinite DEF PingInv, PingTyped, BitsRight, Counted, Early
-----------------------------------------------------------------------------
(* dg_cli().                                                               *)

ClientPlaces == {"gets", "send", "alarm", "setjmp", "wait", "in", "got", "end", "quit", "crash"}
RttInfo == [srtt : Int, rttvar : Int, rto : Int, nrexmt : Nat]

ClientTyped ==
  /\ cliprog \in Dg!Programs /\ dpc \in ClientPlaces
  /\ req \in Nat /\ got \in Nat /\ net \subseteq Nat \X Nat /\ inq \in Seq(Nat)
  /\ rtt \in RttInfo

\* The round of dg_send_recv(): nothing is printed before the answer is there,
\* the answer that is there belongs to the request, and once it is printed, and
\* up to the next alarm(), no SIGALRM can throw the client back into the round.
RoundRight ==
  cliprog.wait = "rtt" =>
    /\ dpc = "got" => got = req
    /\ pipe = 0
    /\ dpc \in {"gets", "send", "alarm"} => al = "off"
    /\ \/ dpc \in {"gets", "end"} /\ req > 0 /\ printed = <<req>>
       \/ dpc \in {"gets", "end"} /\ req = 0 /\ printed = <<>>
       \/ dpc \notin {"gets", "end"} /\ req > 0 /\ printed = <<>>

\* RtoRight, with what each place adds: a timeout that was doubled has been
\* calculated anew when the next request clears the count.
TimerRight ==
  /\ rtt.nrexmt <= 4 /\ (dpc \notin Dg!Ended => rtt.nrexmt <= 3)
  /\ 2000 <= rtt.rto /\ rtt.rto <= 60000 * 2 ^ rtt.nrexmt
  /\ dpc = "gets" \/ cliprog.wait # "rtt" => rtt.rto <= 60000
  /\ rtt.rttvar >= 0

ClientInv == ClientTyped /\ RoundRight /\ TimerRight

LEMMA Powers == 2 ^ 0 = 1 /\ 2 ^ 1 = 2 /\ 2 ^ 2 = 4 /\ 2 ^ 3 = 8 /\ 2 ^ 4 = 16
<1>1. 2 ^ 0 = 1
  OBVIOUS
<1>2. 2 ^ 1 = 2
  OBVIOUS
<1>3. 2 ^ 2 = 4
  OBVIOUS
<1>4. 2 ^ 3 = 8
  OBVIOUS
<1>5. 2 ^ 4 = 16
  OBVIOUS
<1> QED BY <1>1, <1>2, <1>3, <1>4, <1>5

\* The versions that the code has, by the way they wait.
LEMMA OnlyRtt ==
  ASSUME cliprog \in Dg!Programs
  PROVE  cliprog.wait = "rtt" => ~cliprog.many
BY DEF Dg!Programs, Dg!Program, Dg!dg_cli, Dg!dgclitimeo, Dg!dgclitimeo3, Dg!dgclibcast1,
       Dg!dgclibcast3, Dg!dgclibcast4, Dg!dgclibcast5, Dg!dgclibcast6, Dg!dg_send_recv

LEMMA ClientInit == Dg!Init => ClientInv
<1> SUFFICES ASSUME Dg!Init PROVE ClientInv
  OBVIOUS
<1>1. rtt = [srtt |-> 0, rttvar |-> 750, rto |-> 3000, nrexmt |-> 0]
  BY DEF Dg!Init, Dg!rtt_init, Dg!rtt_minmax, Dg!RTT_RTOCALC, Dg!RTT_RXTMIN, Dg!RTT_RXTMAX
<1>2. TimerRight
  BY <1>1, Powers DEF Dg!Init, TimerRight, Dg!Ended
<1> QED
  BY <1>1, <1>2 DEF Dg!Init, ClientInv, ClientTyped, ClientPlaces, RttInfo, RoundRight

\* rtt_stop(): the variation never becomes negative, and the timeout is within
\* its bounds again.
LEMMA StopBounds ==
  ASSUME NEW r \in RttInfo, r.rttvar >= 0, NEW ms \in Nat, NEW n, n = Dg!rtt_stop(r, ms)
  PROVE  n \in RttInfo /\ n.rttvar >= 0 /\ 2000 <= n.rto /\ n.rto <= 60000 /\ n.nrexmt = r.nrexmt
<1> DEFINE delta == ms - r.srtt
           dist == IF delta < 0 THEN -delta ELSE delta
           srtt == r.srtt + delta \div 8
           rttvar == r.rttvar + (dist - r.rttvar) \div 4
           rto == Dg!rtt_minmax(Dg!RTT_RTOCALC(srtt, rttvar))
<1>1. r.srtt \in Int /\ r.rttvar \in Int /\ r.nrexmt \in Nat
  BY DEF RttInfo
<1>2. delta \in Int /\ dist \in Int /\ dist >= 0 /\ srtt \in Int
  BY <1>1
<1>3. rttvar \in Int /\ rttvar >= 0
  <2> HIDE DEF delta, dist
  <2> QED BY <1>1, <1>2
<1>4. rto \in Int /\ 2000 <= rto /\ rto <= 60000
  <2> HIDE DEF srtt, rttvar
  <2> QED BY <1>2, <1>3 DEF Dg!rtt_minmax, Dg!RTT_RTOCALC, Dg!RTT_RXTMIN, Dg!RTT_RXTMAX
<1>5. n = [r EXCEPT !.srtt = srtt, !.rttvar = rttvar, !.rto = rto]
  BY DEF Dg!rtt_stop
<1>6. n \in RttInfo /\ n.rttvar = rttvar /\ n.rto = rto /\ n.nrexmt = r.nrexmt
  <2> HIDE DEF srtt, rttvar, rto
  <2>2. PICK a \in Int : a = srtt
    BY <1>2
  <2>3. PICK b \in Int : b = rttvar
    BY <1>3
  <2>4. PICK c \in Int : c = rto
    BY <1>4
  <2>5. n = [r EXCEPT !.srtt = a, !.rttvar = b, !.rto = c]
    BY <1>5, <2>2, <2>3, <2>4
  <2>6. n \in RttInfo /\ n.rttvar = b /\ n.rto = c /\ n.nrexmt = r.nrexmt
    BY <2>5 DEF RttInfo
  <2> QED BY <2>2, <2>3, <2>4, <2>6
<1> HIDE DEF srtt, rttvar, rto
<1> QED BY <1>3, <1>4, <1>6

LEMMA GetsKeeps == ASSUME ClientInv, Dg!Gets PROVE ClientInv'
<1>1. ClientTyped /\ RoundRight /\ TimerRight
  BY DEF ClientInv
<1>2. /\ dpc = "gets" /\ UNCHANGED <<cliprog, net, inq, got, al, pipe>>
      /\ \/ req' = req + 1 /\ dpc' = "send" /\ printed' = <<>> /\ rtt' = [rtt EXCEPT !.nrexmt = 0]
         \/ dpc' = "end" /\ UNCHANGED <<req, printed, rtt>>
  BY DEF Dg!Gets, Dg!netVars, Dg!rtt_newpack
<1>3. ClientTyped'
  BY <1>1, <1>2 DEF ClientTyped, ClientPlaces, RttInfo
<1>4. RoundRight'
  BY <1>1, <1>2 DEF RoundRight, ClientTyped
<1>5. TimerRight'
  <2>1. rtt \in RttInfo /\ 2000 <= rtt.rto /\ rtt.rto <= 60000 /\ rtt.rttvar >= 0
        /\ rtt.nrexmt <= 4 /\ rtt.rto <= 60000 * 2 ^ rtt.nrexmt
    BY <1>1, <1>2 DEF TimerRight, ClientTyped
  <2>2. CASE dpc' = "end" /\ rtt' = rtt
    BY <2>1, <2>2, <1>2 DEF TimerRight, Dg!Ended
  <2>3. CASE dpc' = "send" /\ rtt' = [rtt EXCEPT !.nrexmt = 0]
    <3>1. rtt'.nrexmt = 0 /\ rtt'.rto = rtt.rto /\ rtt'.rttvar = rtt.rttvar /\ rtt.rto \in Int
      BY <2>1, <2>3 DEF RttInfo
    <3>2. 60000 * 2 ^ (rtt'.nrexmt) = 60000
      BY <3>1, Powers
    <3> QED BY <2>1, <2>3, <3>1, <3>2 DEF TimerRight, Dg!Ended
  <2> QED BY <1>2, <2>2, <2>3
<1> QED BY <1>3, <1>4, <1>5 DEF ClientInv

LEMMA ReceiveKeeps == ASSUME ClientInv, Dg!Receive PROVE ClientInv'
<1>1. ClientTyped /\ RoundRight /\ TimerRight
  BY DEF ClientInv
<1>2. /\ dpc = "in" /\ inq # <<>> /\ inq' = Tail(inq) /\ got' = Head(inq)
      /\ UNCHANGED <<cliprog, net, req, al, pipe, printed, rtt>>
      /\ \/ dpc' = "got" /\ (cliprog.wait = "rtt" => Head(inq) = req)
         \/ dpc' = "in"
  BY DEF Dg!Receive, Dg!netVars, Dg!sigVars, Dg!Matches
<1>3. Head(inq) \in Nat /\ Tail(inq) \in Seq(Nat)
  BY <1>1, <1>2 DEF ClientTyped
<1>4. ClientTyped'
  BY <1>1, <1>2, <1>3 DEF ClientTyped, ClientPlaces
<1>5. RoundRight'
  BY <1>1, <1>2 DEF RoundRight
<1>6. TimerRight'
  BY <1>1, <1>2 DEF TimerRight, Dg!Ended
<1> QED BY <1>4, <1>5, <1>6 DEF ClientInv
LEMMA AnswerKeeps == ASSUME ClientInv, Dg!Answer PROVE ClientInv'
<1>1. ClientTyped /\ RoundRight /\ TimerRight /\ (cliprog.wait = "rtt" => ~cliprog.many)
  BY OnlyRtt DEF ClientInv, ClientTyped
<1>2. /\ dpc = "got" /\ UNCHANGED <<cliprog, net, inq, req, got, pipe>>
      /\ printed' = Append(printed, got) /\ dpc' \in {"gets", "setjmp", "wait"}
      /\ cliprog.wait = "rtt" => al' = "off" /\ dpc' = "gets"
  <2>1. cliprog.wait = "rtt" => al' = "off" /\ dpc' = "gets"
    BY <1>1 DEF Dg!Answer
  <2> QED BY <2>1 DEF Dg!Answer, Dg!netVars
<1>3. /\ rtt' \in RttInfo /\ rtt'.rttvar >= 0 /\ rtt'.nrexmt = rtt.nrexmt
      /\ IF cliprog.wait = "rtt" THEN 2000 <= rtt'.rto /\ rtt'.rto <= 60000 ELSE rtt' = rtt
  <2>1. rtt \in RttInfo /\ rtt.rttvar >= 0
    BY <1>1 DEF TimerRight, ClientTyped
  <2>2. CASE cliprog.wait = "rtt"
    <3>1. PICK ms \in RoundTrips : rtt' = Dg!rtt_stop(rtt, ms)
      BY <2>2 DEF Dg!Answer
    <3>2. ms \in Nat
      BY DatagramsAssumption
    <3>3. PICK r \in RttInfo : r = rtt /\ r.rttvar >= 0
      BY <2>1
    <3>4. PICK n : n = Dg!rtt_stop(r, ms)
      OBVIOUS
    <3>5. rtt' = n
      BY <3>1, <3>3, <3>4
    <3>6. n \in RttInfo /\ n.rttvar >= 0 /\ 2000 <= n.rto /\ n.rto <= 60000 /\ n.nrexmt = r.nrexmt
      BY <3>2, <3>3, <3>4, StopBounds
    <3> QED BY <2>2, <3>3, <3>5, <3>6
  <2>3. CASE cliprog.wait # "rtt"
    BY <2>1, <2>3 DEF Dg!Answer
  <2> QED BY <2>2, <2>3
<1>4. ClientTyped'
  BY <1>1, <1>2, <1>3 DEF ClientTyped, ClientPlaces
<1>5. RoundRight'
  <2> SUFFICES ASSUME cliprog.wait = "rtt" PROVE RoundRight'
    BY <1>2 DEF RoundRight
  <2>1. printed = <<>> /\ got = req /\ req \in Nat /\ pipe = 0
    BY <1>1, <1>2 DEF RoundRight, ClientTyped
  <2>2. req > 0
    BY <1>1, <1>2 DEF RoundRight, ClientTyped
  <2> QED BY <1>2, <2>1, <2>2 DEF RoundRight
<1>6. TimerRight'
  <2>1. rtt.nrexmt \in Nat /\ rtt'.nrexmt = rtt.nrexmt /\ rtt.nrexmt <= 3 /\ rtt'.rto \in Int
        /\ rtt.rto <= 60000 * 2 ^ rtt.nrexmt /\ 2000 <= rtt.rto
        /\ (cliprog.wait # "rtt" => rtt.rto <= 60000)
    BY <1>1, <1>2, <1>3 DEF TimerRight, ClientTyped, RttInfo, Dg!Ended
  <2>2. rtt'.rto <= 60000
    BY <1>3, <2>1
  <2>3. 60000 <= 60000 * 2 ^ rtt.nrexmt /\ 60000 * 2 ^ rtt.nrexmt \in Int
    <3>1. rtt.nrexmt = 0 \/ rtt.nrexmt = 1 \/ rtt.nrexmt = 2 \/ rtt.nrexmt = 3
      BY <2>1
    <3>2. 2 ^ rtt.nrexmt \in {1, 2, 4, 8}
      BY <3>1, Powers
    <3> QED BY <3>2
  <2>4. rtt'.rto <= 60000 * 2 ^ (rtt'.nrexmt)
    BY <2>1, <2>2, <2>3
  <2> QED BY <1>2, <1>3, <2>1, <2>2, <2>4 DEF TimerRight, Dg!Ended
<1> QED BY <1>4, <1>5, <1>6 DEF ClientInv

LEMMA JumpKeeps == ASSUME ClientInv, Dg!Jump, dpc \notin Dg!Ended PROVE ClientInv'
<1>1. ClientTyped /\ RoundRight /\ TimerRight
  BY DEF ClientInv
<1>2. /\ al = "sig" /\ al' = "off" /\ UNCHANGED <<cliprog, net, inq, req, got, pipe, printed>>
      /\ \/ cliprog.wait = "rtt" /\ dpc' = "send" /\ rtt.nrexmt + 1 <= 3
         \/ cliprog.wait = "rtt" /\ dpc' \in {"quit", "crash"}
         \/ cliprog.wait # "rtt" /\ dpc' \in {"gets", "crash"}
      /\ rtt' = IF cliprog.wait = "rtt" THEN [rtt EXCEPT !.rto = 2 * @, !.nrexmt = @ + 1] ELSE rtt
  <2>1. rtt.nrexmt \in Nat
    BY <1>1 DEF ClientTyped, RttInfo
  <2>2. /\ al = "sig" /\ al' = "off" /\ cliprog.wait \in {"jump", "rtt"}
        /\ UNCHANGED <<cliprog, net, inq, req, got, pipe, printed>>
    BY DEF Dg!Jump, Dg!netVars
  <2>3. rtt' = IF cliprog.wait = "rtt" THEN [rtt EXCEPT !.rto = 2 * @, !.nrexmt = @ + 1] ELSE rtt
    BY DEF Dg!Jump, Dg!rtt_timeout
  <2>4. dpc' = IF jmpbuf # "set" THEN "crash"
               ELSE IF cliprog.wait = "jump" THEN "gets"
               ELSE IF rtt.nrexmt + 1 > 3 THEN "quit" ELSE "send"
    BY DEF Dg!Jump, Dg!RTT_MAXNREXMT
  <2>5. \/ cliprog.wait = "rtt" /\ dpc' = "send" /\ rtt.nrexmt + 1 <= 3
        \/ cliprog.wait = "rtt" /\ dpc' \in {"quit", "crash"}
        \/ cliprog.wait # "rtt" /\ dpc' \in {"gets", "crash"}
    BY <2>1, <2>2, <2>4
  <2> QED BY <2>2, <2>3, <2>5
<1>3. ClientTyped'
  <2>1. rtt' \in RttInfo
    <3>1. ASSUME NEW r \in RttInfo, NEW a \in Int, NEW b \in Nat
          PROVE  [r EXCEPT !.rto = a, !.nrexmt = b] \in RttInfo
      BY DEF RttInfo
    <3>2. rtt \in RttInfo /\ rtt.rto \in Int /\ rtt.nrexmt \in Nat
      BY <1>1 DEF ClientTyped, RttInfo
    <3>3. PICK a \in Int : a = 2 * rtt.rto
      BY <3>2
    <3>4. PICK b \in Nat : b = rtt.nrexmt + 1
      BY <3>2
    <3>5. [rtt EXCEPT !.rto = a, !.nrexmt = b] \in RttInfo
      BY <3>1, <3>2
    <3>6. [rtt EXCEPT !.rto = 2 * @, !.nrexmt = @ + 1] = [rtt EXCEPT !.rto = a, !.nrexmt = b]
      BY <3>2, <3>3, <3>4 DEF RttInfo
    <3> QED BY <1>2, <3>2, <3>5, <3>6
  <2> QED BY <1>1, <1>2, <2>1 DEF ClientTyped, ClientPlaces
<1>4. RoundRight'
  BY <1>1, <1>2 DEF RoundRight, Dg!Ended
<1>5. TimerRight'
  <2>1. CASE cliprog.wait = "rtt"
    <3>1. rtt.nrexmt \in Nat /\ rtt.nrexmt <= 3 /\ rtt.rto \in Int /\ 2000 <= rtt.rto
          /\ rtt.rto <= 60000 * 2 ^ rtt.nrexmt /\ rtt.rttvar >= 0
      BY <1>1 DEF TimerRight, ClientTyped, RttInfo
    <3>2. rtt'.nrexmt = rtt.nrexmt + 1 /\ rtt'.rto = 2 * rtt.rto /\ rtt'.rttvar = rtt.rttvar
      BY <1>1, <1>2, <2>1 DEF ClientTyped, RttInfo
    <3>3. 2 * (60000 * 2 ^ rtt.nrexmt) = 60000 * 2 ^ (rtt.nrexmt + 1) /\ 60000 * 2 ^ rtt.nrexmt \in Int
      <4>1. rtt.nrexmt \in {0, 1, 2, 3}
        BY <3>1
      <4>2. CASE rtt.nrexmt = 0
        BY <4>2, Powers
      <4>3. CASE rtt.nrexmt = 1
        BY <4>3, Powers
      <4>4. CASE rtt.nrexmt = 2
        BY <4>4, Powers
      <4>5. CASE rtt.nrexmt = 3
        BY <4>5, Powers
      <4> QED BY <4>1, <4>2, <4>3, <4>4, <4>5
    <3>4. rtt'.rto <= 60000 * 2 ^ (rtt'.nrexmt)
      BY <3>1, <3>2, <3>3
    <3> QED BY <1>2, <2>1, <3>1, <3>2, <3>4 DEF TimerRight, Dg!Ended
  <2>2. CASE cliprog.wait # "rtt"
    BY <1>1, <1>2, <2>2 DEF TimerRight, Dg!Ended
  <2> QED BY <2>1, <2>2
<1> QED BY <1>3, <1>4, <1>5 DEF ClientInv

\* The network, and the steps that move the client on and leave the rest.
LEMMA ArrivesKeeps ==
  ASSUME ClientInv, NEW m \in net, Dg!Arrives(m) \/ Dg!Lost(m)
  PROVE  ClientInv'
<1>1. ClientTyped /\ RoundRight /\ TimerRight
  BY DEF ClientInv
<1>2. m[1] \in Nat
  BY <1>1 DEF ClientTyped
<1>3. /\ UNCHANGED <<cliprog, dpc, req, got, al, pipe, printed, rtt>> /\ net' \subseteq net
      /\ inq' = inq \/ inq' = Append(inq, m[1])
  BY DEF Dg!Arrives, Dg!Lost, Dg!sigVars
<1>4. ClientTyped'
  BY <1>1, <1>2, <1>3 DEF ClientTyped
<1> QED BY <1>1, <1>3, <1>4 DEF ClientInv, RoundRight, TimerRight

LEMMA MovesOn ==
  ASSUME ClientInv, UNCHANGED <<cliprog, req, inq, got, printed, rtt>>,
         net' \subseteq Nat \X Nat, dpc' \in ClientPlaces, dpc' = "got" => dpc = "got",
         dpc \notin Dg!Ended, dpc' \notin Dg!Ended,
         cliprog.wait = "rtt" => /\ dpc \notin {"gets", "end"} /\ dpc' \notin {"gets", "send"}
                                 /\ dpc' = "alarm" => al' = "off"
                                 /\ pipe' = pipe
  PROVE  ClientInv'
<1>1. ClientTyped /\ RoundRight /\ TimerRight
  BY DEF ClientInv
<1>2. ClientTyped'
  BY <1>1 DEF ClientTyped
<1>3. RoundRight'
  BY <1>1 DEF RoundRight, Dg!Ended
<1>4. TimerRight'
  BY <1>1 DEF TimerRight
<1> QED BY <1>2, <1>3, <1>4 DEF ClientInv
LEMMA ClientNext == ClientInv /\ (Dg!Next \/ UNCHANGED dgVars) => ClientInv'
<1> SUFFICES ASSUME ClientInv, Dg!Next \/ UNCHANGED dgVars
             PROVE  ClientInv'
  OBVIOUS
<1>1. CASE UNCHANGED dgVars
  BY <1>1 DEF dgVars, ClientInv, ClientTyped, RoundRight, TimerRight
<1>2. ASSUME NEW m \in net, Dg!Arrives(m) \/ Dg!Lost(m) PROVE ClientInv'
  BY <1>2, ArrivesKeeps
<1>3. ASSUME dpc \notin Dg!Ended, Dg!ClientStep \/ Dg!SignalStep PROVE ClientInv'
  <2>0. /\ net \subseteq Nat \X Nat /\ dpc \in ClientPlaces /\ req \in Nat
        /\ cliprog.wait = "rtt" => pipe = 0 /\ (dpc \in {"gets", "send", "alarm"} => al = "off")
    BY DEF ClientInv, ClientTyped, RoundRight
  <2> USE DEF Dg!netVars, Dg!sigVars, Dg!Ended, ClientPlaces
  <2>1. CASE Dg!Send
    <3>1. net' \subseteq Nat \X Nat
      <4>1. ASSUME NEW k \in 1 .. NREPLY \cup {1} PROVE <<req, k>> \in Nat \X Nat
        BY <2>0
      <4> QED BY <2>0, <2>1, <4>1 DEF Dg!Send
    <3> QED BY <1>3, <2>0, <2>1, <3>1, MovesOn DEF Dg!Send
  <2>2. CASE Dg!SetAlarm
    BY <1>3, <2>0, <2>2, MovesOn DEF Dg!SetAlarm
  <2>3. CASE Dg!Setjmp
    BY <1>3, <2>0, <2>3, MovesOn DEF Dg!Setjmp
  <2>4. CASE Dg!Enter
    BY <1>3, <2>0, <2>4, MovesOn DEF Dg!Enter
  <2>5. CASE Dg!Timeout
    BY <1>3, <2>0, <2>5, MovesOn DEF Dg!Timeout
  <2>6. CASE Dg!ReadPipe
    BY <1>3, <2>0, <2>6, MovesOn DEF Dg!ReadPipe
  <2>7. CASE Dg!Expire
    BY <1>3, <2>0, <2>7, MovesOn DEF Dg!Expire
  <2>8. CASE Dg!Interrupt
    BY <1>3, <2>0, <2>8, MovesOn DEF Dg!Interrupt
  <2>9. CASE Dg!InterruptPselect
    BY <1>3, <2>0, <2>9, MovesOn DEF Dg!InterruptPselect
  <2>10. CASE Dg!WritePipe
    BY <1>3, <2>0, <2>10, MovesOn DEF Dg!WritePipe
  <2> QED
    BY <1>3, <2>1, <2>2, <2>3, <2>4, <2>5, <2>6, <2>7, <2>8, <2>9, <2>10, GetsKeeps, ReceiveKeeps,
       AnswerKeeps, JumpKeeps
    DEF Dg!ClientStep, Dg!SignalStep
<1> QED
  BY <1>1, <1>2, <1>3 DEF Dg!Next

LEMMA ClientAnswers == ClientInv => Dg!OwnAnswer
<1> SUFFICES ASSUME ClientInv, cliprog.wait = "rtt" PROVE Dg!OwnAnswer
  BY DEF Dg!OwnAnswer
<1>1. req \in Nat
  BY DEF ClientInv, ClientTyped
<1>2. CASE printed = <<>> /\ ~ (dpc = "gets" /\ req > 0)
  BY <1>2 DEF Dg!OwnAnswer
<1>3. CASE printed = <<req>>
  BY <1>1, <1>3 DEF Dg!OwnAnswer
<1> QED
  BY <1>1, <1>2, <1>3 DEF ClientInv, RoundRight

LEMMA ClientTimer == ClientInv => Dg!RtoRight
<1> SUFFICES ASSUME ClientInv PROVE Dg!RtoRight
  OBVIOUS
<1>1. rtt.rto \in Int /\ rtt.nrexmt \in Nat /\ TimerRight
  BY DEF ClientInv, ClientTyped, RttInfo
<1>2. Dg!rtt_start(rtt) >= 2
  BY <1>1 DEF TimerRight, Dg!rtt_start
<1> QED
  BY <1>1, <1>2 DEF TimerRight, Dg!RtoRight, Dg!RTT_RXTMIN, Dg!RTT_RXTMAX, Dg!RTT_MAXNREXMT
-----------------------------------------------------------------------------
(* The ICMP daemon.                                                        *)

PortSet == Ports \cup {0}
FamilySet == {0, 4, 6}
Processes == [pc : {"off", "connect", "sent", "ok", "quit"}, family : FamilySet, port : PortSet,
              fd : BOOLEAN]
Entry == [connfd : ClientIds \cup {-1}, family : FamilySet, lport : PortSet]
Message == FamilySet \X (PortSet \cup {1})
Table == 0 .. NSLOT - 1
DaemonPlaces == {"select", "listen", "v4", "v6", "conn", "dead"}

ProcTyped ==
  /\ cli \in [ClientIds -> Processes] /\ backlog \in Seq(ClientIds)
  /\ stream \in [ClientIds -> Seq(Message)] /\ shown \in [ClientIds -> SUBSET Message]
  /\ icmp \in [{4, 6} -> Seq(PortSet)]
DaemonTyped ==
  /\ client \in [Table -> Entry] /\ maxi \in Int /\ maxi < NSLOT /\ pos \in Nat
  /\ ipc \in DaemonPlaces
  /\ rdy \in [listen : BOOLEAN, raw : SUBSET {4, 6}, conn : SUBSET ClientIds]

Queued(c) == \E k \in 1 .. Len(backlog) : backlog[k] = c
Entered(c) == \E i \in Table : client[i].connfd = c

\* A client is in the backlog or in the table, once, and nothing has been
\* written to it before it is in the table.
Arrivals ==
  /\ \A k, l \in 1 .. Len(backlog) : backlog[k] = backlog[l] => k = l
  /\ \A c \in ClientIds : Queued(c) => ~Entered(c) /\ stream[c] = <<>> /\ cli[c].pc \notin {"off", "ok"}
  /\ \A c \in ClientIds : cli[c].pc = "off" => ~Entered(c) /\ stream[c] = <<>> /\ shown[c] = {}

\* What select() named is there when its turn comes.
Selected ==
  /\ ipc = "listen" /\ rdy.listen => backlog # <<>>
  /\ ipc \in {"listen", "v4"} /\ 4 \in rdy.raw => icmp[4] # <<>>
  /\ ipc \in {"listen", "v4", "v6"} /\ 6 \in rdy.raw => icmp[6] # <<>>

\* The client has been told that the daemon has its socket.
Told(c) == cli[c].pc = "ok" \/ \E k \in 1 .. Len(stream[c]) : stream[c][k] = <<0, 1>>
Own(c) == <<cli[c].family, cli[c].port>>

\* From then on its entry has its own port, and so have the errors behind the
\* answer; before it, they may be those of the entry's former owner.
Unspoken(c) == cli[c].pc \in {"off", "connect"} => ~cli[c].fd /\ ~Told(c)
EntryOwn(c) ==
  Told(c) => ~cli[c].fd /\ \A i \in Table : client[i].connfd = c => <<client[i].family, client[i].lport>> = Own(c)
StreamOwn(c) ==
  /\ \A k, l \in 1 .. Len(stream[c]) : stream[c][k] = <<0, 1>> /\ k < l => stream[c][l] = Own(c)
  /\ cli[c].pc = "ok" => \A k \in 1 .. Len(stream[c]) : stream[c][k] = Own(c)
ShownOwn(c) == shown[c] \subseteq {Own(c)}
ClientRight(c) == Unspoken(c) /\ EntryOwn(c) /\ StreamOwn(c) /\ ShownOwn(c)

IcmpInv ==
  /\ ProcTyped /\ DaemonTyped /\ Icmpd!TableOK /\ Arrivals /\ Selected
  /\ \A c \in ClientIds : ClientRight(c)

LEMMA IcmpNames ==
  /\ Icmpd!Slots = Table /\ Icmpd!Families = {4, 6} /\ Icmpd!AF_INET = 4 /\ Icmpd!AF_INET6 = 6
  /\ Icmpd!OK = <<0, 1>> /\ Icmpd!ERR = <<0, 0>>
BY DEF Icmpd!Slots, Icmpd!Families, Icmpd!AF_INET, Icmpd!AF_INET6, Icmpd!OK, Icmpd!ERR, Table

LEMMA IcmpInit == Icmpd!Init => IcmpInv
<1> SUFFICES ASSUME Icmpd!Init PROVE IcmpInv
  OBVIOUS
<1>1. /\ cli = [c \in ClientIds |-> [pc |-> "off", family |-> 0, port |-> 0, fd |-> FALSE]]
      /\ backlog = <<>> /\ maxi = -1 /\ pos = 0 /\ ipc = "select"
      /\ client = [i \in Table |-> [connfd |-> -1, family |-> 0, lport |-> 0]]
      /\ icmp = [f \in {4, 6} |-> <<>>] /\ rdy = [listen |-> FALSE, raw |-> {}, conn |-> {}]
      /\ stream = [c \in ClientIds |-> <<>>] /\ shown = [c \in ClientIds |-> {}]
  BY IcmpNames DEF Icmpd!Init
<1>2. ProcTyped
  BY <1>1 DEF ProcTyped, Processes, FamilySet, PortSet
<1>3. DaemonTyped
  BY <1>1, DatagramsAssumption DEF DaemonTyped, Entry, FamilySet, PortSet, DaemonPlaces
<1>4. \A i \in Table : client[i].connfd = -1
  BY <1>1
<1>5. Icmpd!TableOK
  BY <1>4, IcmpNames DEF Icmpd!TableOK
<1>6. Arrivals
  BY <1>1, <1>4, DatagramsAssumption DEF Arrivals, Queued, Entered
<1>7. Selected
  BY <1>1 DEF Selected
<1>8. ASSUME NEW c \in ClientIds PROVE ClientRight(c)
  <2>1. cli[c] = [pc |-> "off", family |-> 0, port |-> 0, fd |-> FALSE] /\ stream[c] = <<>> /\ shown[c] = {}
    BY <1>1
  <2>2. ~Told(c)
    BY <2>1 DEF Told
  <2> QED BY <2>1, <2>2 DEF ClientRight, Unspoken, EntryOwn, StreamOwn, ShownOwn
<1> QED BY <1>2, <1>3, <1>5, <1>6, <1>7, <1>8 DEF IcmpInv

\* The parts that a step of a client's leaves alone.
LEMMA TableSame ==
  ASSUME Icmpd!TableOK, UNCHANGED <<client, maxi>>
  PROVE  Icmpd!TableOK'
BY IcmpNames DEF Icmpd!TableOK

\* A client at which nothing changes.
LEMMA ClientSame ==
  ASSUME NEW c \in ClientIds, ClientRight(c),
         cli'[c] = cli[c], stream'[c] = stream[c], shown'[c] = shown[c],
         \A i \in Table : client'[i].connfd = c => client'[i] = client[i]
  PROVE  ClientRight(c)'
<1>1. Told(c)' = Told(c) /\ Own(c)' = Own(c)
  BY DEF Told, Own
<1>2. Unspoken(c)'
  BY <1>1 DEF ClientRight, Unspoken
<1>3. EntryOwn(c)'
  BY <1>1 DEF ClientRight, EntryOwn
<1>4. StreamOwn(c)'
  BY <1>1 DEF ClientRight, StreamOwn
<1>5. ShownOwn(c)'
  BY <1>1 DEF ClientRight, ShownOwn
<1> QED BY <1>2, <1>3, <1>4, <1>5 DEF ClientRight

LEMMA StartKeeps == ASSUME IcmpInv, NEW c \in ClientIds, Icmpd!Start(c) PROVE IcmpInv'
<1>0. ProcTyped /\ DaemonTyped /\ Icmpd!TableOK /\ Arrivals /\ Selected /\ \A d \in ClientIds : ClientRight(d)
  BY DEF IcmpInv
<1>1. PICK f \in {4, 6}, p \in Ports :
        cli' = [cli EXCEPT ![c] = [pc |-> "connect", family |-> f, port |-> p, fd |-> FALSE]]
  BY IcmpNames DEF Icmpd!Start
<1>2. /\ cli[c].pc = "off" /\ backlog' = Append(backlog, c)
      /\ UNCHANGED <<client, maxi, ipc, rdy, nready, pos, icmp, nerr, stream, shown>>
  BY DEF Icmpd!Start, Icmpd!daemonVars
<1>3. /\ cli'[c] = [pc |-> "connect", family |-> f, port |-> p, fd |-> FALSE]
      /\ \A d \in ClientIds : d # c => cli'[d] = cli[d]
  BY <1>0, <1>1 DEF ProcTyped
<1>4. ProcTyped'
  <2>1. cli' \in [ClientIds -> Processes]
    BY <1>0, <1>1 DEF ProcTyped, Processes, FamilySet, PortSet
  <2> QED BY <1>0, <1>2, <2>1 DEF ProcTyped
<1>5. DaemonTyped'
  BY <1>0, <1>2 DEF DaemonTyped
<1>6. Icmpd!TableOK'
  BY <1>0, <1>2, TableSame
<1>7. /\ ~Queued(c) /\ ~Entered(c) /\ stream[c] = <<>> /\ shown[c] = {}
      /\ \A d \in ClientIds : Entered(d)' <=> Entered(d)
      /\ \A d \in ClientIds : Queued(d)' => Queued(d) \/ d = c
  BY <1>0, <1>2 DEF Arrivals, Queued, Entered, ProcTyped
<1>8. Arrivals'
  <2>1. ASSUME NEW k \in 1 .. Len(backlog'), NEW l \in 1 .. Len(backlog'), backlog'[k] = backlog'[l]
        PROVE  k = l
    <3>1. /\ Len(backlog') = Len(backlog) + 1 /\ Len(backlog) \in Nat /\ backlog'[Len(backlog) + 1] = c
          /\ \A j \in 1 .. Len(backlog) : backlog'[j] = backlog[j] /\ backlog[j] # c
      BY <1>0, <1>2, <1>7 DEF Queued, ProcTyped
    <3>2. \A j \in 1 .. Len(backlog') : j \in 1 .. Len(backlog) \/ j = Len(backlog) + 1
      BY <3>1
    <3>3. \A i, j \in 1 .. Len(backlog) : backlog[i] = backlog[j] => i = j
      BY <1>0 DEF Arrivals
    <3> QED BY <2>1, <3>1, <3>2, <3>3
  <2>2. ASSUME NEW d \in ClientIds, Queued(d)'
        PROVE  ~Entered(d)' /\ stream'[d] = <<>> /\ cli'[d].pc \notin {"off", "ok"}
    BY <1>0, <1>2, <1>3, <1>7, <2>2 DEF Arrivals
  <2>3. ASSUME NEW d \in ClientIds, cli'[d].pc = "off"
        PROVE  ~Entered(d)' /\ stream'[d] = <<>> /\ shown'[d] = {}
    BY <1>0, <1>2, <1>3, <1>7, <2>3 DEF Arrivals
  <2> QED BY <2>1, <2>2, <2>3 DEF Arrivals
<1>9. Selected'
  BY <1>0, <1>2 DEF Selected, ProcTyped
<1>10. ASSUME NEW d \in ClientIds PROVE ClientRight(d)'
  <2>1. CASE d # c
    BY <1>0, <1>2, <1>3, <2>1, ClientSame
  <2>2. CASE d = c
    <3>1. stream'[c] = <<>> /\ shown'[c] = {} /\ cli'[c].pc = "connect" /\ ~cli'[c].fd
      BY <1>2, <1>3, <1>7
    <3>2. ~Told(c)'
      BY <3>1 DEF Told
    <3> QED BY <2>2, <3>1, <3>2 DEF ClientRight, Unspoken, EntryOwn, StreamOwn, ShownOwn
  <2> QED BY <2>1, <2>2
<1> QED BY <1>4, <1>5, <1>6, <1>8, <1>9, <1>10 DEF IcmpInv
\* A step of a client that has started: the rest stays as it is.
LEMMA ClientMoves ==
  ASSUME IcmpInv, NEW c \in ClientIds,
         UNCHANGED <<backlog, client, maxi, ipc, rdy, pos, icmp>>,
         \A d \in ClientIds : d # c =>
           cli'[d] = cli[d] /\ stream'[d] = stream[d] /\ shown'[d] = shown[d],
         ProcTyped', cli'[c].pc # "off",
         Queued(c) => stream'[c] = <<>> /\ cli'[c].pc # "ok",
         ClientRight(c)'
  PROVE  IcmpInv'
<1>0. DaemonTyped /\ Icmpd!TableOK /\ Arrivals /\ Selected /\ \A d \in ClientIds : ClientRight(d)
  BY DEF IcmpInv
<1>1. DaemonTyped'
  BY <1>0 DEF DaemonTyped
<1>2. Icmpd!TableOK'
  BY <1>0, TableSame
<1>3. \A d \in ClientIds : (Queued(d)' <=> Queued(d)) /\ (Entered(d)' <=> Entered(d))
  BY DEF Queued, Entered
<1>4. Arrivals'
  BY <1>0, <1>3 DEF Arrivals
<1>5. Selected'
  BY <1>0 DEF Selected
<1>6. \A d \in ClientIds : ClientRight(d)'
  BY <1>0, ClientSame
<1> QED BY <1>1, <1>2, <1>4, <1>5, <1>6 DEF IcmpInv

LEMMA WriteFdKeeps == ASSUME IcmpInv, NEW c \in ClientIds, Icmpd!WriteFd(c) PROVE IcmpInv'
<1>0. ProcTyped /\ Arrivals /\ ClientRight(c)
  BY DEF IcmpInv
<1>1. /\ cli[c].pc = "connect" /\ cli' = [cli EXCEPT ![c].pc = "sent", ![c].fd = TRUE]
      /\ UNCHANGED <<backlog, client, maxi, ipc, rdy, pos, icmp, stream, shown>>
  BY DEF Icmpd!WriteFd, Icmpd!daemonVars
<1>2. /\ cli' \in [ClientIds -> Processes] /\ \A d \in ClientIds : d # c => cli'[d] = cli[d]
      /\ cli'[c].pc = "sent" /\ cli'[c].family = cli[c].family /\ cli'[c].port = cli[c].port
  BY <1>0, <1>1 DEF ProcTyped, Processes
<1>3. ProcTyped'
  BY <1>0, <1>1, <1>2 DEF ProcTyped
<1>4. ~Told(c)' /\ Own(c)' = Own(c)
  BY <1>0, <1>1, <1>2 DEF ClientRight, Unspoken, Told, Own
<1>5. ClientRight(c)'
  <2>1. Unspoken(c)' /\ EntryOwn(c)'
    BY <1>2, <1>4 DEF Unspoken, EntryOwn
  <2>2. StreamOwn(c)'
    BY <1>0, <1>1, <1>2, <1>4 DEF ClientRight, StreamOwn
  <2>3. ShownOwn(c)'
    BY <1>0, <1>1, <1>4 DEF ClientRight, ShownOwn
  <2> QED BY <2>1, <2>2, <2>3 DEF ClientRight
<1>6. Queued(c) => stream'[c] = <<>> /\ cli'[c].pc # "ok"
  BY <1>0, <1>1, <1>2 DEF Arrivals
<1> QED BY <1>1, <1>2, <1>3, <1>5, <1>6, ClientMoves

LEMMA LeaveKeepsIcmp == ASSUME IcmpInv, NEW c \in ClientIds, Icmpd!Leave(c) PROVE IcmpInv'
<1>0. ProcTyped /\ Arrivals /\ ClientRight(c)
  BY DEF IcmpInv
<1>1. /\ cli' = [cli EXCEPT ![c].pc = "quit"]
      /\ UNCHANGED <<backlog, client, maxi, ipc, rdy, pos, icmp, stream, shown>>
  BY DEF Icmpd!Leave, Icmpd!daemonVars
<1>2. /\ cli' \in [ClientIds -> Processes] /\ \A d \in ClientIds : d # c => cli'[d] = cli[d]
      /\ cli'[c].pc = "quit" /\ cli'[c].family = cli[c].family /\ cli'[c].port = cli[c].port
      /\ cli'[c].fd = cli[c].fd
  BY <1>0, <1>1 DEF ProcTyped, Processes
<1>3. ProcTyped'
  BY <1>0, <1>1, <1>2 DEF ProcTyped
<1>4. (Told(c)' => Told(c)) /\ Own(c)' = Own(c)
  BY <1>1, <1>2 DEF Told, Own
<1>5. ClientRight(c)'
  <2>1. Unspoken(c)' /\ EntryOwn(c)'
    BY <1>0, <1>1, <1>2, <1>4 DEF ClientRight, Unspoken, EntryOwn
  <2>2. StreamOwn(c)'
    BY <1>0, <1>1, <1>2, <1>4 DEF ClientRight, StreamOwn
  <2>3. ShownOwn(c)'
    BY <1>0, <1>1, <1>4 DEF ClientRight, ShownOwn
  <2> QED BY <2>1, <2>2, <2>3 DEF ClientRight
<1>6. Queued(c) => stream'[c] = <<>> /\ cli'[c].pc # "ok"
  BY <1>0, <1>1, <1>2 DEF Arrivals
<1> QED BY <1>1, <1>2, <1>3, <1>5, <1>6, ClientMoves

\* What is left to read when the first message has been read.
LEMMA TailOf ==
  ASSUME NEW S, NEW s \in Seq(S), s # <<>>
  PROVE  /\ Tail(s) \in Seq(S) /\ Len(Tail(s)) = Len(s) - 1 /\ Head(s) = s[1] /\ Head(s) \in S
         /\ 1 \in 1 .. Len(s)
         /\ \A k \in 1 .. Len(Tail(s)) : k + 1 \in 1 .. Len(s) /\ Tail(s)[k] = s[k + 1]
OBVIOUS

LEMMA ReadByteKeeps == ASSUME IcmpInv, NEW c \in ClientIds, Icmpd!ReadByte(c) PROVE IcmpInv'
<1>0. ProcTyped /\ Arrivals /\ ClientRight(c)
  BY DEF IcmpInv
<1>1. /\ cli[c].pc = "sent" /\ stream[c] # <<>>
      /\ cli' = [cli EXCEPT ![c].pc = IF Head(stream[c]) = <<0, 1>> THEN "ok" ELSE "quit"]
      /\ stream' = [stream EXCEPT ![c] = Tail(@)]
      /\ UNCHANGED <<backlog, client, maxi, ipc, rdy, pos, icmp, shown>>
  BY IcmpNames DEF Icmpd!ReadByte, Icmpd!daemonVars
<1>2. /\ cli' \in [ClientIds -> Processes] /\ \A d \in ClientIds : d # c => cli'[d] = cli[d]
      /\ cli'[c].pc = IF Head(stream[c]) = <<0, 1>> THEN "ok" ELSE "quit"
      /\ cli'[c].family = cli[c].family /\ cli'[c].port = cli[c].port
      /\ cli'[c].fd = cli[c].fd
  BY <1>0, <1>1 DEF ProcTyped, Processes
<1>3. PICK s \in Seq(Message) : s = stream[c]
  BY <1>0 DEF ProcTyped
<1>4. PICK t \in Seq(Message) : t = Tail(s)
  BY <1>1, <1>3, TailOf
<1>5. /\ Len(t) = Len(s) - 1 /\ Head(s) = s[1] /\ 1 \in 1 .. Len(s) /\ Len(s) \in Nat
      /\ \A k \in 1 .. Len(t) : k + 1 \in 1 .. Len(s) /\ t[k] = s[k + 1]
  BY <1>1, <1>3, <1>4, TailOf
<1>6. stream'[c] = t /\ \A d \in ClientIds : d # c => stream'[d] = stream[d]
  BY <1>0, <1>1, <1>3, <1>4 DEF ProcTyped
<1>7. ProcTyped'
  BY <1>0, <1>1, <1>2, <1>3, <1>4 DEF ProcTyped
<1>8. (Told(c)' => Told(c)) /\ Own(c)' = Own(c)
  <2>1. CASE cli'[c].pc = "ok"
    BY <1>2, <1>3, <1>5, <2>1 DEF Told, Own
  <2>2. CASE cli'[c].pc # "ok"
    BY <1>2, <1>3, <1>5, <1>6, <2>2 DEF Told, Own
  <2> QED BY <2>1, <2>2
<1>9. ClientRight(c)'
  <2>1. Unspoken(c)' /\ EntryOwn(c)'
    BY <1>0, <1>1, <1>2, <1>8 DEF ClientRight, Unspoken, EntryOwn
  <2>2. StreamOwn(c)'
    <3>1. \A k, l \in 1 .. Len(s) : s[k] = <<0, 1>> /\ k < l => s[l] = Own(c)
      BY <1>0, <1>3 DEF ClientRight, StreamOwn
    <3>2. ASSUME NEW k \in 1 .. Len(t), NEW l \in 1 .. Len(t), t[k] = <<0, 1>>, k < l
          PROVE  t[l] = Own(c)
      <4>1. /\ k + 1 \in 1 .. Len(s) /\ l + 1 \in 1 .. Len(s) /\ k + 1 < l + 1
            /\ t[k] = s[k + 1] /\ t[l] = s[l + 1]
        BY <1>5, <3>2
      <4> QED BY <3>1, <3>2, <4>1
    <3>3. cli'[c].pc = "ok" => \A k \in 1 .. Len(t) : t[k] = Own(c)
      BY <1>2, <1>3, <1>5, <3>1
    <3> QED BY <1>6, <1>8, <3>2, <3>3 DEF StreamOwn
  <2>3. ShownOwn(c)'
    BY <1>0, <1>1, <1>8 DEF ClientRight, ShownOwn
  <2> QED BY <2>1, <2>2, <2>3 DEF ClientRight
<1>10. ~Queued(c) /\ cli'[c].pc # "off"
  BY <1>0, <1>1, <1>2 DEF Arrivals
<1> QED BY <1>1, <1>2, <1>6, <1>7, <1>9, <1>10, ClientMoves

LEMMA ReadErrorKeeps == ASSUME IcmpInv, NEW c \in ClientIds, Icmpd!ReadError(c) PROVE IcmpInv'
<1>0. ProcTyped /\ Arrivals /\ ClientRight(c)
  BY DEF IcmpInv
<1>1. /\ cli[c].pc = "ok" /\ stream[c] # <<>>
      /\ stream' = [stream EXCEPT ![c] = Tail(@)]
      /\ shown' = [shown EXCEPT ![c] = @ \cup {Head(stream[c])}]
      /\ UNCHANGED <<cli, backlog, client, maxi, ipc, rdy, pos, icmp>>
  BY DEF Icmpd!ReadError, Icmpd!daemonVars
<1>3. PICK s \in Seq(Message) : s = stream[c]
  BY <1>0 DEF ProcTyped
<1>4. PICK t \in Seq(Message) : t = Tail(s)
  BY <1>1, <1>3, TailOf
<1>5. /\ Len(t) = Len(s) - 1 /\ Head(s) = s[1] /\ 1 \in 1 .. Len(s) /\ Len(s) \in Nat /\ Head(s) \in Message
      /\ \A k \in 1 .. Len(t) : k + 1 \in 1 .. Len(s) /\ t[k] = s[k + 1]
  BY <1>1, <1>3, <1>4, TailOf
<1>6. /\ stream'[c] = t /\ shown'[c] = shown[c] \cup {Head(s)}
      /\ \A d \in ClientIds : d # c => stream'[d] = stream[d] /\ shown'[d] = shown[d]
  BY <1>0, <1>1, <1>3, <1>4 DEF ProcTyped
<1>7. ProcTyped'
  BY <1>0, <1>1, <1>3, <1>4, <1>5 DEF ProcTyped
<1>8. Told(c) /\ Own(c)' = Own(c)
  BY <1>1 DEF Told, Own
<1>9. \A k \in 1 .. Len(s) : s[k] = Own(c)
  BY <1>0, <1>1, <1>3 DEF ClientRight, StreamOwn
<1>10. ClientRight(c)'
  <2>1. Unspoken(c)' /\ EntryOwn(c)'
    BY <1>0, <1>1, <1>8 DEF ClientRight, Unspoken, EntryOwn
  <2>2. StreamOwn(c)'
    <3>1. \A k \in 1 .. Len(t) : t[k] = Own(c)
      BY <1>5, <1>9
    <3> QED BY <1>6, <1>8, <3>1 DEF StreamOwn
  <2>3. ShownOwn(c)'
    BY <1>0, <1>5, <1>6, <1>8, <1>9 DEF ClientRight, ShownOwn
  <2> QED BY <2>1, <2>2, <2>3 DEF ClientRight
<1>11. ~Queued(c)
  BY <1>0, <1>1 DEF Arrivals
<1> QED BY <1>1, <1>6, <1>7, <1>10, <1>11, ClientMoves
LEMMA SendtoKeeps == ASSUME IcmpInv, NEW c \in ClientIds, Icmpd!Sendto(c) PROVE IcmpInv'
<1>0. ProcTyped /\ DaemonTyped /\ Icmpd!TableOK /\ Arrivals /\ Selected /\ \A d \in ClientIds : ClientRight(d)
  BY DEF IcmpInv
<1>1. /\ icmp' = [icmp EXCEPT ![cli[c].family] = Append(@, cli[c].port)]
      /\ UNCHANGED <<cli, backlog, stream, shown, client, maxi, ipc, rdy, pos>>
  BY DEF Icmpd!Sendto, Icmpd!daemonVars, Icmpd!procVars
<1>2. cli[c].port \in PortSet
  BY <1>0 DEF ProcTyped, Processes
<1>3. icmp' \in [{4, 6} -> Seq(PortSet)] /\ \A f \in {4, 6} : icmp[f] # <<>> => icmp'[f] # <<>>
  <2>1. ASSUME NEW f \in {4, 6} PROVE icmp'[f] \in Seq(PortSet) /\ (icmp[f] # <<>> => icmp'[f] # <<>>)
    <3>1. icmp[f] \in Seq(PortSet) /\ (icmp'[f] = icmp[f] \/ icmp'[f] = Append(icmp[f], cli[c].port))
      BY <1>0, <1>1 DEF ProcTyped
    <3> QED BY <1>2, <3>1
  <2>2. DOMAIN icmp' = {4, 6} /\ icmp' = [f \in DOMAIN icmp' |-> icmp'[f]]
    BY <1>0, <1>1 DEF ProcTyped
  <2> QED BY <2>1, <2>2
<1>4. ProcTyped'
  BY <1>0, <1>1, <1>3 DEF ProcTyped
<1>5. DaemonTyped'
  BY <1>0, <1>1 DEF DaemonTyped
<1>6. Icmpd!TableOK'
  BY <1>0, <1>1, TableSame
<1>7. Arrivals'
  BY <1>0, <1>1 DEF Arrivals, Queued, Entered
<1>8. Selected'
  BY <1>0, <1>1, <1>3 DEF Selected
<1>9. \A d \in ClientIds : ClientRight(d)'
  BY <1>0, <1>1, ClientSame
<1> QED BY <1>4, <1>5, <1>6, <1>7, <1>8, <1>9 DEF IcmpInv

-----------------------------------------------------------------------------
(* The daemon's steps.                                                     *)

\* The steps of its loop that only move on.
LEMMA LoopMoves ==
  ASSUME IcmpInv, UNCHANGED <<cli, backlog, stream, shown, client, maxi, icmp>>,
         DaemonTyped', Selected'
  PROVE  IcmpInv'
<1>0. ProcTyped /\ Icmpd!TableOK /\ Arrivals /\ \A d \in ClientIds : ClientRight(d)
  BY DEF IcmpInv
<1>1. ProcTyped'
  BY <1>0 DEF ProcTyped
<1>2. Icmpd!TableOK'
  BY <1>0, TableSame
<1>3. Arrivals'
  BY <1>0 DEF Arrivals, Queued, Entered
<1>4. \A d \in ClientIds : ClientRight(d)'
  BY <1>0, ClientSame
<1> QED BY <1>1, <1>2, <1>3, <1>4 DEF IcmpInv

LEMMA SelectKeeps == ASSUME IcmpInv, Icmpd!Select PROVE IcmpInv'
<1>0. ProcTyped /\ DaemonTyped
  BY DEF IcmpInv
<1> DEFINE conn == {c \in Icmpd!InTable : cli[c].fd \/ cli[c].pc = "quit"}
<1>1. /\ rdy' = [listen |-> backlog # <<>>, raw |-> {f \in {4, 6} : icmp[f] # <<>>}, conn |-> conn]
      /\ ipc' = "listen" /\ pos' = 0
      /\ UNCHANGED <<cli, backlog, stream, shown, client, maxi, icmp>>
  BY IcmpNames DEF Icmpd!Select, Icmpd!procVars
<1>2. conn \subseteq ClientIds
  <2>1. \A i \in Table : client[i].connfd \in ClientIds \cup {-1}
    BY <1>0 DEF DaemonTyped, Entry
  <2> QED BY <2>1, IcmpNames DEF Icmpd!InTable
<1> HIDE DEF conn
<1>3. DaemonTyped'
  BY <1>0, <1>1, <1>2 DEF DaemonTyped, DaemonPlaces
<1>4. Selected'
  <2>1. rdy'.listen = (backlog # <<>>) /\ rdy'.raw = {f \in {4, 6} : icmp[f] # <<>>}
    BY <1>1
  <2> QED BY <1>1, <2>1 DEF Selected
<1> QED BY <1>1, <1>3, <1>4, LoopMoves

LEMMA SkipKeeps == ASSUME IcmpInv, Icmpd!Skip \/ Icmpd!LoopEnds PROVE IcmpInv'
<1>0. ProcTyped /\ DaemonTyped /\ Selected
  BY DEF IcmpInv
<1>1. /\ UNCHANGED <<cli, backlog, stream, shown, client, maxi, icmp, rdy, pos>>
      /\ \/ ipc = "listen" /\ ~rdy.listen /\ ipc' = "v4"
         \/ ipc = "v4" /\ 4 \notin rdy.raw /\ ipc' = "v6"
         \/ ipc = "v6" /\ 6 \notin rdy.raw /\ ipc' = "conn"
         \/ ipc' = "select"
  BY IcmpNames DEF Icmpd!Skip, Icmpd!LoopEnds, Icmpd!procVars
<1>2. DaemonTyped'
  BY <1>0, <1>1 DEF DaemonTyped, DaemonPlaces
<1>3. Selected'
  BY <1>0, <1>1 DEF Selected
<1> QED BY <1>1, <1>2, <1>3, LoopMoves

\* The first free entry, or the first that select() named.
LEMMA FirstOf ==
  ASSUME NEW S, S \subseteq Nat, S # {}
  PROVE  (CHOOSE x \in S : \A y \in S : x <= y) \in S
<1> DEFINE R == {p \in Nat \X Nat : p[1] < p[2]}
<1>1. R = OpToRel(<, Nat)
  BY Zenon DEF OpToRel
<1>2. IsWellFoundedOn(R, Nat)
  BY <1>1, NatLessThanWellFounded, Zenon
<1>3. PICK x \in S : \A y \in S : ~ (<<y, x>> \in R)
  <2> HIDE DEF R
  <2> QED BY <1>2, WFMin, Zenon
<1>4. ASSUME NEW y \in S PROVE x <= y
  <2>1. x \in Nat /\ y \in Nat
    OBVIOUS
  <2>2. <<y, x>> \notin R
    BY <1>3
  <2> QED BY <2>1, <2>2
<1> QED BY <1>4

LEMMA ListenKeeps == ASSUME IcmpInv, Icmpd!readable_listen PROVE IcmpInv'
<1>0. ProcTyped /\ DaemonTyped /\ Icmpd!TableOK /\ Arrivals /\ Selected /\ \A d \in ClientIds : ClientRight(d)
  BY DEF IcmpInv
<1> DEFINE free == {i \in Table : client[i].connfd = -1}
           first == CHOOSE x \in free : \A y \in free : x <= y
<1>1. /\ ipc = "listen" /\ rdy.listen /\ backlog' = Tail(backlog)
      /\ UNCHANGED <<icmp, rdy, pos, stream, shown>> /\ ipc' \in {"select", "v4"}
      /\ \/ cli' = [cli EXCEPT ![Head(backlog)].pc = "quit"] /\ UNCHANGED <<client, maxi>>
         \/ /\ free # {} /\ client' = [client EXCEPT ![first].connfd = Head(backlog)]
            /\ maxi' = Icmpd!NewMaxi(first) /\ UNCHANGED cli
  BY IcmpNames DEF Icmpd!readable_listen, Icmpd!Done
<1>2. backlog # <<>> /\ backlog \in Seq(ClientIds)
  BY <1>0, <1>1 DEF Selected, ProcTyped
<1>3. PICK c \in ClientIds : c = Head(backlog)
  BY <1>2, TailOf
<1>4. /\ backlog' \in Seq(ClientIds) /\ Len(backlog') = Len(backlog) - 1 /\ c = backlog[1]
      /\ 1 \in 1 .. Len(backlog) /\ Len(backlog) \in Nat
      /\ \A k \in 1 .. Len(backlog') : k + 1 \in 1 .. Len(backlog) /\ backlog'[k] = backlog[k + 1]
  BY <1>1, <1>2, <1>3, TailOf
<1>5. Queued(c) /\ ~Entered(c) /\ stream[c] = <<>> /\ cli[c].pc \notin {"off", "ok"}
  BY <1>0, <1>4 DEF Arrivals, Queued
<1>6. \A d \in ClientIds : Queued(d)' => Queued(d) /\ d # c
  <2>1. ASSUME NEW k \in 1 .. Len(backlog') PROVE (\E j \in 1 .. Len(backlog) : backlog[j] = backlog'[k]) /\ backlog'[k] # c
    <3>1. k + 1 \in 1 .. Len(backlog) /\ backlog'[k] = backlog[k + 1] /\ k + 1 # 1
      BY <1>4
    <3> QED BY <1>0, <1>4, <3>1 DEF Arrivals
  <2> QED BY <2>1 DEF Queued
<1>7. \A k, l \in 1 .. Len(backlog') : backlog'[k] = backlog'[l] => k = l
  <2>1. ASSUME NEW k \in 1 .. Len(backlog'), NEW l \in 1 .. Len(backlog'), backlog'[k] = backlog'[l]
        PROVE  k = l
    <3>1. k + 1 \in 1 .. Len(backlog) /\ l + 1 \in 1 .. Len(backlog) /\ backlog[k + 1] = backlog[l + 1]
      BY <1>4, <2>1
    <3>2. k + 1 = l + 1
      BY <1>0, <3>1 DEF Arrivals
    <3> QED BY <3>2
  <2> QED BY <2>1
<1>8. Selected'
  BY <1>0, <1>1 DEF Selected
<1>9. Told(c) => FALSE
  BY <1>5 DEF Told
<1>10. CASE cli' = [cli EXCEPT ![c].pc = "quit"] /\ UNCHANGED <<client, maxi>>
  <2>1. /\ cli' \in [ClientIds -> Processes] /\ \A d \in ClientIds : d # c => cli'[d] = cli[d]
        /\ cli'[c].pc = "quit" /\ cli'[c].family = cli[c].family /\ cli'[c].port = cli[c].port
        /\ cli'[c].fd = cli[c].fd
    BY <1>0, <1>10 DEF ProcTyped, Processes
  <2>2. ProcTyped'
    BY <1>0, <1>1, <1>4, <2>1 DEF ProcTyped
  <2>3. DaemonTyped'
    BY <1>0, <1>1, <1>10 DEF DaemonTyped, DaemonPlaces
  <2>4. Icmpd!TableOK'
    BY <1>0, <1>10, TableSame
  <2>5. \A d \in ClientIds : Entered(d)' <=> Entered(d)
    BY <1>10 DEF Entered
  <2>6. Arrivals'
    BY <1>0, <1>1, <1>6, <1>7, <2>1, <2>5 DEF Arrivals
  <2>7. ClientRight(c)'
    <3>1. ~Told(c)' /\ Own(c)' = Own(c)
      BY <1>1, <1>9, <2>1 DEF Told, Own
    <3> QED BY <1>0, <1>1, <1>5, <2>1, <3>1 DEF ClientRight, Unspoken, EntryOwn, StreamOwn, ShownOwn
  <2>8. \A d \in ClientIds : ClientRight(d)'
    <3>1. ASSUME NEW d \in ClientIds, d # c PROVE ClientRight(d)'
      BY <1>0, <1>1, <1>10, <2>1, <3>1, ClientSame
    <3> QED BY <2>7, <3>1
  <2> QED BY <1>8, <2>2, <2>3, <2>4, <2>6, <2>8 DEF IcmpInv
<1>11. CASE free # {} /\ client' = [client EXCEPT ![first].connfd = c] /\ maxi' = Icmpd!NewMaxi(first) /\ UNCHANGED cli
  <2>1. PICK i \in Table : i \in free /\ i = first
    <3>1. free \subseteq Nat
      BY DatagramsAssumption DEF Table
    <3>2. first \in free
      BY <1>11, <3>1, FirstOf
    <3> QED BY <3>2
  <2>2. client[i].connfd = -1 /\ client' = [client EXCEPT ![i].connfd = c] /\ maxi' = Icmpd!NewMaxi(i)
    BY <1>11, <2>1
  <2> HIDE DEF free, first
  <2>3. /\ client'[i].connfd = c /\ \A j \in Table : j # i => client'[j] = client[j]
        /\ client' \in [Table -> Entry]
    BY <1>0, <2>2 DEF DaemonTyped, Entry
  <2>4. maxi' \in Int /\ maxi' < NSLOT /\ i <= maxi' /\ maxi <= maxi' /\ i \in Int
    BY <1>0, <2>2, DatagramsAssumption DEF DaemonTyped, Icmpd!NewMaxi, Table
  <2>5. ProcTyped'
    BY <1>0, <1>1, <1>4, <1>11 DEF ProcTyped
  <2>6. DaemonTyped'
    BY <1>0, <1>1, <2>3, <2>4 DEF DaemonTyped, DaemonPlaces
  <2>7. \A j \in Table : client[j].connfd # c
    BY <1>5 DEF Entered
  <2>8. Icmpd!TableOK'
    <3>1. \A j \in Table : client'[j].connfd # -1 => j <= maxi'
      BY <1>0, <2>3, <2>4, IcmpNames DEF Icmpd!TableOK, DaemonTyped, Table
    <3>2. \A j, k \in Table : client'[j].connfd # -1 /\ client'[j].connfd = client'[k].connfd => j = k
      BY <1>0, <2>3, <2>7, IcmpNames DEF Icmpd!TableOK
    <3> QED BY <3>1, <3>2, IcmpNames DEF Icmpd!TableOK
  <2>9. \A d \in ClientIds : d # c => (Entered(d)' => Entered(d))
    BY <2>3 DEF Entered
  <2>10. Arrivals'
    BY <1>0, <1>1, <1>5, <1>6, <1>7, <1>11, <2>9 DEF Arrivals
  <2>11. \A d \in ClientIds : ClientRight(d)'
    <3>1. ASSUME NEW d \in ClientIds, d # c PROVE ClientRight(d)'
      BY <1>0, <1>1, <1>11, <2>3, <3>1, ClientSame
    <3>2. ClientRight(c)'
      <4>1. ~Told(c)' /\ Own(c)' = Own(c)
        BY <1>1, <1>9, <1>11 DEF Told, Own
      <4> QED BY <1>0, <1>1, <1>11, <4>1 DEF ClientRight, Unspoken, EntryOwn, StreamOwn, ShownOwn
    <3> QED BY <3>1, <3>2
  <2> QED BY <1>8, <2>5, <2>6, <2>8, <2>10, <2>11 DEF IcmpInv
<1> QED BY <1>1, <1>3, <1>10, <1>11
\* An error is written to the clients in whose entry its port is.
LEMMA RawKeeps ==
  ASSUME IcmpInv, NEW f \in {4, 6}, NEW then \in {"v6", "conn"},
         (f = 4 /\ then = "v6") \/ (f = 6 /\ then = "conn"), Icmpd!ReadableRaw(f, then)
  PROVE  IcmpInv'
<1>0. ProcTyped /\ DaemonTyped /\ Icmpd!TableOK /\ Arrivals /\ Selected /\ \A d \in ClientIds : ClientRight(d)
  BY DEF IcmpInv
<1> DEFINE port == Head(icmp[f])
           to == Icmpd!Owners(f, port)
<1>1. /\ ipc = Icmpd!Place(f) /\ f \in rdy.raw /\ icmp' = [icmp EXCEPT ![f] = Tail(@)]
      /\ UNCHANGED <<cli, backlog, client, maxi, rdy, pos, shown>> /\ ipc' \in {"dead", "select", then}
      /\ \/ UNCHANGED stream
         \/ stream' = [c \in ClientIds |-> IF c \in to THEN Append(stream[c], <<f, port>>) ELSE stream[c]]
  BY DEF Icmpd!ReadableRaw, Icmpd!Done
<1>2. icmp[f] # <<>> /\ icmp[f] \in Seq(PortSet)
  BY <1>0, <1>1, IcmpNames DEF Selected, ProcTyped, Icmpd!Place
<1>3. PICK p \in PortSet : p = port
  BY <1>2, TailOf
<1>4. \A c \in to : \E i \in Table : client[i].connfd = c /\ client[i].family = f /\ client[i].lport = p
  <2>1. 0 .. maxi \subseteq Table
    BY <1>0, DatagramsAssumption DEF DaemonTyped, Table
  <2>2. ASSUME NEW c \in to
        PROVE  \E i \in 0 .. maxi : client[i].connfd = c /\ client[i].family = f /\ client[i].lport = port
    BY DEF Icmpd!Owners
  <2> QED BY <1>3, <2>1, <2>2
<1>5. icmp' \in [{4, 6} -> Seq(PortSet)] /\ \A g \in {4, 6} : g # f => icmp'[g] = icmp[g]
  <2>1. Tail(icmp[f]) \in Seq(PortSet)
    BY <1>2, TailOf
  <2> QED BY <1>0, <1>1, <2>1 DEF ProcTyped
<1>6. \/ UNCHANGED stream
      \/ stream' = [c \in ClientIds |-> IF c \in to THEN Append(stream[c], <<f, p>>) ELSE stream[c]]
  BY <1>1, <1>3
<1> HIDE DEF port, to
<1>7. \A c \in ClientIds : stream'[c] = stream[c] \/ (c \in to /\ stream'[c] = Append(stream[c], <<f, p>>))
  BY <1>6
<1>8. <<f, p>> \in Message
  BY DEF Message, FamilySet
<1>9. ProcTyped'
  <2>1. stream' \in [ClientIds -> Seq(Message)]
    <3>1. ASSUME NEW c \in ClientIds PROVE stream[c] \in Seq(Message) /\ Append(stream[c], <<f, p>>) \in Seq(Message)
      BY <1>0, <1>8 DEF ProcTyped
    <3>2. stream \in [ClientIds -> Seq(Message)]
      BY <1>0 DEF ProcTyped
    <3> QED BY <1>6, <3>1, <3>2
  <2> QED BY <1>0, <1>1, <1>5, <2>1 DEF ProcTyped
<1>10. DaemonTyped'
  BY <1>0, <1>1 DEF DaemonTyped, DaemonPlaces
<1>11. Icmpd!TableOK'
  BY <1>0, <1>1, TableSame
<1>12. \A d \in ClientIds : (Queued(d)' <=> Queued(d)) /\ (Entered(d)' <=> Entered(d))
  BY <1>1 DEF Queued, Entered
<1>13. \A c \in ClientIds : c \in to => Entered(c)
  BY <1>4 DEF Entered
<1>14. Arrivals'
  BY <1>0, <1>1, <1>7, <1>12, <1>13 DEF Arrivals
<1>15. Selected'
  BY <1>0, <1>1, <1>5, IcmpNames DEF Selected, Icmpd!Place
<1>16. ASSUME NEW c \in ClientIds PROVE ClientRight(c)'
  <2>1. CASE stream'[c] = stream[c]
    BY <1>0, <1>1, <2>1, ClientSame
  <2>2. CASE c \in to /\ stream'[c] = Append(stream[c], <<f, p>>)
    <3>1. PICK s \in Seq(Message) : s = stream[c]
      BY <1>0 DEF ProcTyped
    <3>2. PICK t \in Seq(Message) : t = stream'[c]
      BY <1>9 DEF ProcTyped
    <3>3. /\ Len(t) = Len(s) + 1 /\ t[Len(s) + 1] = <<f, p>> /\ Len(s) \in Nat
          /\ \A k \in 1 .. Len(s) : t[k] = s[k]
      BY <1>8, <2>2, <3>1, <3>2
    <3>4. \A k \in 1 .. Len(t) : k \in 1 .. Len(s) \/ k = Len(s) + 1
      BY <3>3
    <3>5. <<f, p>> # <<0, 1>>
      OBVIOUS
    <3>6. Own(c)' = Own(c) /\ (Told(c)' <=> Told(c))
      <4>1. (\E k \in 1 .. Len(t) : t[k] = <<0, 1>>) <=> (\E k \in 1 .. Len(s) : s[k] = <<0, 1>>)
        <5>1. ASSUME NEW k \in 1 .. Len(t), t[k] = <<0, 1>> PROVE k \in 1 .. Len(s) /\ s[k] = <<0, 1>>
          BY <3>3, <3>4, <3>5, <5>1
        <5>2. ASSUME NEW k \in 1 .. Len(s), s[k] = <<0, 1>> PROVE k \in 1 .. Len(t) /\ t[k] = <<0, 1>>
          BY <3>3, <5>2
        <5> QED BY <5>1, <5>2
      <4> QED BY <1>1, <3>1, <3>2, <4>1 DEF Told, Own
    <3>7. Told(c) => <<f, p>> = Own(c)
      BY <1>0, <1>4, <2>2 DEF ClientRight, EntryOwn
    <3>8. Unspoken(c)' /\ EntryOwn(c)'
      BY <1>0, <1>1, <3>6 DEF ClientRight, Unspoken, EntryOwn
    <3>9. StreamOwn(c)'
      <4>1. \A k, l \in 1 .. Len(s) : s[k] = <<0, 1>> /\ k < l => s[l] = Own(c)
        BY <1>0, <3>1 DEF ClientRight, StreamOwn
      <4>2. cli[c].pc = "ok" => \A k \in 1 .. Len(s) : s[k] = Own(c)
        BY <1>0, <3>1 DEF ClientRight, StreamOwn
      <4>3. ASSUME NEW k \in 1 .. Len(t), NEW l \in 1 .. Len(t), t[k] = <<0, 1>>, k < l
            PROVE  t[l] = Own(c)
        <5>1. k \in 1 .. Len(s) /\ s[k] = <<0, 1>>
          BY <3>3, <3>4, <3>5, <4>3
        <5>2. Told(c)
          BY <3>1, <5>1 DEF Told
        <5>3. CASE l = Len(s) + 1
          BY <3>3, <3>7, <5>2, <5>3
        <5>4. CASE l \in 1 .. Len(s)
          BY <3>3, <4>1, <4>3, <5>1, <5>4
        <5> QED BY <3>4, <5>3, <5>4
      <4>4. cli[c].pc = "ok" => \A k \in 1 .. Len(t) : t[k] = Own(c)
        <5>1. cli[c].pc = "ok" => Told(c)
          BY DEF Told
        <5> QED BY <3>3, <3>4, <3>7, <4>2, <5>1
      <4> QED BY <1>1, <3>2, <3>6, <4>3, <4>4 DEF StreamOwn
    <3>10. ShownOwn(c)'
      BY <1>0, <1>1, <3>6 DEF ClientRight, ShownOwn
    <3> QED BY <3>8, <3>9, <3>10 DEF ClientRight
  <2> QED BY <1>7, <2>1, <2>2
<1> QED BY <1>9, <1>10, <1>11, <1>14, <1>15, <1>16 DEF IcmpInv

\* Entry i is given up or gets the port of its own client, which is then
\* answered; the other entries and clients stay as they are.
LEMMA EntryStep ==
  ASSUME IcmpInv, NEW i \in Table, NEW c \in ClientIds, client[i].connfd = c,
         UNCHANGED <<backlog, maxi, icmp, rdy, shown>>, ProcTyped', DaemonTyped',
         ipc' \notin {"listen", "v4", "v6"},
         \A d \in ClientIds : d # c => cli'[d] = cli[d] /\ stream'[d] = stream[d],
         \A j \in Table : j # i => client'[j] = client[j],
         client'[i].connfd \in {-1, c}, cli'[c].pc = cli[c].pc, ClientRight(c)'
  PROVE  IcmpInv'
<1>0. Icmpd!TableOK /\ Arrivals /\ \A d \in ClientIds : ClientRight(d)
  BY DEF IcmpInv
<1>1. \A j \in Table : client'[j].connfd \in {-1, client[j].connfd}
  OBVIOUS
<1>2. Icmpd!TableOK'
  BY <1>0, <1>1, IcmpNames DEF Icmpd!TableOK
<1>3. Entered(c) /\ \A d \in ClientIds : (Queued(d)' <=> Queued(d)) /\ (Entered(d)' => Entered(d))
  BY <1>1, DatagramsAssumption DEF Queued, Entered
<1>4. ~Queued(c) /\ cli[c].pc # "off"
  BY <1>0, <1>3 DEF Arrivals
<1>5. Arrivals'
  BY <1>0, <1>3, <1>4 DEF Arrivals
<1>6. Selected'
  BY DEF Selected
<1>7. ASSUME NEW d \in ClientIds, d # c PROVE ClientRight(d)'
  <2>1. \A j \in Table : client'[j].connfd = d => client'[j] = client[j]
    BY <1>7, DatagramsAssumption
  <2> QED BY <1>0, <1>7, <2>1, ClientSame
<1> QED BY <1>2, <1>5, <1>6, <1>7 DEF IcmpInv

LEMMA ConnKeeps == ASSUME IcmpInv, Icmpd!readable_conn PROVE IcmpInv'
<1>0. ProcTyped /\ DaemonTyped /\ Icmpd!TableOK /\ Arrivals /\ \A d \in ClientIds : ClientRight(d)
  BY DEF IcmpInv
<1> DEFINE named == Icmpd!Named(pos)
           first == CHOOSE x \in named : \A y \in named : x <= y
<1>1. PICK i \in Table : i = first /\ client[i].connfd \in rdy.conn
  <2>1. named \subseteq Table /\ \A x \in named : client[x].connfd \in rdy.conn
    BY <1>0, DatagramsAssumption DEF Icmpd!Named, DaemonTyped, Table
  <2>2. named # {}
    BY DEF Icmpd!readable_conn
  <2> HIDE DEF named
  <2>3. named \subseteq Nat
    BY <2>1, DatagramsAssumption DEF Table
  <2>4. first \in named
    BY <2>2, <2>3, FirstOf
  <2> QED BY <2>1, <2>4
<1>2. PICK c \in ClientIds : c = client[i].connfd
  BY <1>0, <1>1 DEF DaemonTyped
<1>3. /\ pos' = i + 1 /\ cli' = [cli EXCEPT ![c].fd = FALSE] /\ ipc' \in {"select", "conn", "dead"}
      /\ UNCHANGED <<backlog, maxi, icmp, rdy, shown>>
      /\ \/ client' = [client EXCEPT ![i].connfd = -1] /\ UNCHANGED stream
         \/ UNCHANGED <<client, stream>>
         \/ /\ cli[c].fd /\ stream' = [stream EXCEPT ![c] = Append(@, <<0, 1>>)]
            /\ client' = [client EXCEPT ![i].family = cli[c].family, ![i].lport = cli[c].port]
         \/ /\ cli[c].fd /\ stream' = [stream EXCEPT ![c] = Append(@, <<0, 0>>)]
            /\ client' = [client EXCEPT ![i].connfd = -1]
  BY <1>1, <1>2, IcmpNames DEF Icmpd!readable_conn, Icmpd!Done
<1> HIDE DEF named, first
<1>4. /\ cli' \in [ClientIds -> Processes] /\ \A d \in ClientIds : d # c => cli'[d] = cli[d]
      /\ cli'[c].pc = cli[c].pc /\ cli'[c].family = cli[c].family /\ cli'[c].port = cli[c].port
      /\ ~cli'[c].fd
  <2>1. cli[c] \in Processes /\ cli'[c] = [cli[c] EXCEPT !.fd = FALSE]
    BY <1>0, <1>3 DEF ProcTyped
  <2>2. cli'[c] \in Processes /\ cli'[c].pc = cli[c].pc /\ cli'[c].family = cli[c].family
        /\ cli'[c].port = cli[c].port /\ ~cli'[c].fd
    BY <2>1 DEF Processes
  <2> QED BY <1>0, <1>3, <2>2 DEF ProcTyped
<1>5. Own(c)' = Own(c)
  BY <1>4 DEF Own
<1>6. PICK s \in Seq(Message) : s = stream[c]
  BY <1>0 DEF ProcTyped
<1>7. <<0, 1>> \in Message /\ <<0, 0>> \in Message
  BY DEF Message, FamilySet, PortSet
<1>8. stream \in [ClientIds -> Seq(Message)] /\ Append(s, <<0, 1>>) \in Seq(Message)
      /\ Append(s, <<0, 0>>) \in Seq(Message)
  BY <1>0, <1>7 DEF ProcTyped
<1>9. /\ stream' \in [ClientIds -> Seq(Message)]
      /\ \A d \in ClientIds : d # c => stream'[d] = stream[d]
  <2>1. CASE UNCHANGED stream
    BY <1>8, <2>1
  <2>2. CASE stream' = [stream EXCEPT ![c] = Append(s, <<0, 1>>)]
    BY <1>8, <2>2
  <2>3. CASE stream' = [stream EXCEPT ![c] = Append(s, <<0, 0>>)]
    BY <1>8, <2>3
  <2> QED BY <1>3, <1>6, <2>1, <2>2, <2>3
<1>10. ProcTyped'
  BY <1>0, <1>3, <1>4, <1>9 DEF ProcTyped
<1>11. /\ client' \in [Table -> Entry] /\ \A j \in Table : j # i => client'[j] = client[j]
       /\ client'[i].connfd \in {-1, c}
  <2>1. cli[c].family \in FamilySet /\ cli[c].port \in PortSet
    BY <1>0 DEF ProcTyped, Processes
  <2>2. client \in [Table -> Entry]
    BY <1>0 DEF DaemonTyped
  <2>3. CASE UNCHANGED client
    BY <1>2, <2>2, <2>3
  <2>4. CASE client' = [client EXCEPT ![i].connfd = -1]
    BY <2>2, <2>4 DEF Entry
  <2>5. CASE client' = [client EXCEPT ![i].family = cli[c].family, ![i].lport = cli[c].port]
    <3>1. PICK a \in FamilySet : a = cli[c].family
      BY <2>1
    <3>2. PICK b \in PortSet : b = cli[c].port
      BY <2>1
    <3>3. client' = [client EXCEPT ![i].family = a, ![i].lport = b]
      BY <2>5, <3>1, <3>2
    <3> QED BY <1>2, <2>2, <3>3 DEF Entry
  <2> QED BY <1>3, <2>3, <2>4, <2>5
<1>12. DaemonTyped'
  BY <1>0, <1>3, <1>11, DatagramsAssumption DEF DaemonTyped, DaemonPlaces, Table
<1>13. ClientRight(c)'
  <2>1. PICK t \in Seq(Message) : t = stream'[c]
    BY <1>9
  <2>2. CASE t = s /\ (client' = client \/ client'[i].connfd = -1)
    <3>1. Told(c)' <=> Told(c)
      BY <1>4, <1>6, <2>1, <2>2 DEF Told
    <3>2. \A j \in Table : client'[j].connfd = c => client'[j] = client[j]
      BY <1>11, <2>2, DatagramsAssumption
    <3>3. Unspoken(c)' /\ EntryOwn(c)'
      BY <1>0, <1>4, <1>5, <3>1, <3>2 DEF ClientRight, Unspoken, EntryOwn
    <3>4. StreamOwn(c)' /\ ShownOwn(c)'
      BY <1>0, <1>3, <1>4, <1>5, <1>6, <2>1, <2>2 DEF ClientRight, StreamOwn, ShownOwn
    <3> QED BY <3>3, <3>4 DEF ClientRight
  <2>3. ASSUME NEW m \in {<<0, 0>>, <<0, 1>>}, t = Append(s, m), cli[c].fd,
               client'[i].connfd = -1 \/ <<client'[i].family, client'[i].lport>> = Own(c)
        PROVE  ClientRight(c)'
    <3>1. cli[c].pc \notin {"off", "connect", "ok"} /\ \A k \in 1 .. Len(s) : s[k] # <<0, 1>>
      BY <1>0, <1>6, <2>3 DEF ClientRight, Unspoken, EntryOwn, Told
    <3>2. /\ Len(t) = Len(s) + 1 /\ Len(s) \in Nat /\ \A k \in 1 .. Len(s) : t[k] = s[k]
      BY <1>7, <2>3
    <3>3. Unspoken(c)'
      BY <1>4, <3>1 DEF Unspoken
    <3>4. EntryOwn(c)'
      <4>1. \A j \in Table : client'[j].connfd = c => j = i
        BY <1>0, <1>2, <1>11, IcmpNames, DatagramsAssumption DEF Icmpd!TableOK
      <4>2. client'[i].connfd = c => <<client'[i].family, client'[i].lport>> = Own(c)
        BY <2>3, DatagramsAssumption
      <4> QED BY <1>4, <1>5, <4>1, <4>2 DEF EntryOwn
    <3>5. StreamOwn(c)'
      <4>1. \A k, l \in 1 .. Len(t) : k < l => t[k] # <<0, 1>>
        BY <3>1, <3>2
      <4> QED BY <1>4, <2>1, <3>1, <4>1 DEF StreamOwn
    <3>6. ShownOwn(c)'
      BY <1>0, <1>3, <1>5 DEF ClientRight, ShownOwn
    <3> QED BY <3>3, <3>4, <3>5, <3>6 DEF ClientRight
  <2>4. CASE client' = [client EXCEPT ![i].connfd = -1] /\ UNCHANGED stream
    <3>1. t = s /\ client'[i].connfd = -1
      BY <1>0, <1>6, <2>1, <2>4 DEF DaemonTyped, Entry
    <3> QED BY <2>2, <3>1
  <2>5. CASE UNCHANGED <<client, stream>>
    BY <1>6, <2>1, <2>2, <2>5
  <2>6. CASE /\ cli[c].fd /\ stream' = [stream EXCEPT ![c] = Append(@, <<0, 1>>)]
             /\ client' = [client EXCEPT ![i].family = cli[c].family, ![i].lport = cli[c].port]
    <3>1. t = Append(s, <<0, 1>>)
      BY <1>6, <1>8, <2>1, <2>6
    <3>2. client'[i].family = cli[c].family /\ client'[i].lport = cli[c].port
      BY <1>0, <2>6 DEF DaemonTyped, Entry
    <3> QED BY <2>3, <2>6, <3>1, <3>2 DEF Own
  <2>7. CASE /\ cli[c].fd /\ stream' = [stream EXCEPT ![c] = Append(@, <<0, 0>>)]
             /\ client' = [client EXCEPT ![i].connfd = -1]
    <3>1. t = Append(s, <<0, 0>>) /\ client'[i].connfd = -1
      BY <1>0, <1>6, <1>8, <2>1, <2>7 DEF DaemonTyped, Entry
    <3> QED BY <2>3, <2>7, <3>1
  <2> QED BY <1>3, <2>4, <2>5, <2>6, <2>7
<1> QED BY <1>2, <1>3, <1>4, <1>9, <1>10, <1>11, <1>12, <1>13, EntryStep
LEMMA IcmpNext == IcmpInv /\ (Icmpd!Next \/ UNCHANGED icmpVars) => IcmpInv'
<1> SUFFICES ASSUME IcmpInv, Icmpd!Next \/ UNCHANGED icmpVars
             PROVE  IcmpInv'
  OBVIOUS
<1>1. CASE UNCHANGED icmpVars
  <2>1. DaemonTyped' /\ Selected'
    BY <1>1 DEF icmpVars, IcmpInv, DaemonTyped, Selected
  <2> QED BY <1>1, <2>1, LoopMoves DEF icmpVars
<1>2. ASSUME NEW c \in ClientIds,
             \/ Icmpd!Start(c) \/ Icmpd!WriteFd(c) \/ Icmpd!ReadByte(c) \/ Icmpd!Sendto(c)
             \/ Icmpd!ReadError(c) \/ Icmpd!Leave(c)
      PROVE  IcmpInv'
  BY <1>2, StartKeeps, WriteFdKeeps, ReadByteKeeps, SendtoKeeps, ReadErrorKeeps, LeaveKeepsIcmp
<1>3. CASE Icmpd!readable_v4
  <2>1. Icmpd!ReadableRaw(4, "v6")
    BY <1>3, IcmpNames DEF Icmpd!readable_v4
  <2> QED BY <2>1, RawKeeps
<1>4. CASE Icmpd!readable_v6
  <2>1. Icmpd!ReadableRaw(6, "conn")
    BY <1>4, IcmpNames DEF Icmpd!readable_v6
  <2> QED BY <2>1, RawKeeps
<1> QED
  BY <1>1, <1>2, <1>3, <1>4, SelectKeeps, ListenKeeps, SkipKeeps, ConnKeeps DEF Icmpd!Next, Icmpd!Daemon

-----------------------------------------------------------------------------
\* What a step of MCNext is for a program: one of its own, or none.
LEMMA WhoseStep ==
  ASSUME [MCNext]_MCvars
  PROVE  /\ Dg!Next \/ UNCHANGED dgVars
         /\ Icmpd!Next \/ UNCHANGED icmpVars
         /\ Trace!Next \/ UNCHANGED traceVars
         /\ Ping1!Next \/ UNCHANGED pingVars
<1>1. CASE UNCHANGED MCvars
  BY <1>1 DEF MCvars
<1>2. CASE MCNext
  BY <1>2, Zenon DEF MCNext, Sigio, Dgcli, IcmpRuns, Traces, Pings
<1> QED BY <1>1, <1>2

(***************************************************************************)
(* An answer that is taken answers what was asked, in each of the three    *)
(* programs that look: dg_send_recv() prints the answer to its own request *)
(* and only one (rtt/dg_send_recv.c:86), traceroute takes the destination  *)
(* as reached only by a probe that could reach it (traceroute/recv_v4.c),  *)
(* and ping counts no more answers than requests between two answers,      *)
(* although the bits of rcvd_tbl are used again (ping/bsdping.c).          *)
(***************************************************************************)
THEOREM AnswersAreOwn == MCSpec => []OwnAnswer
<1> DEFINE Inv == ClientInv /\ TraceInv /\ PingInv
<1>1. MCInit => Inv
  BY ClientInit, TraceInit, PingInit DEF MCInit
<1>2. Inv /\ [MCNext]_MCvars => Inv'
  BY WhoseStep, ClientNext, TraceNext, PingNext
<1>3. Inv => OwnAnswer
  BY ClientAnswers, PingCounts DEF TraceInv, OwnAnswer
<1> QED
  BY <1>1, <1>2, <1>3, PTL DEF MCSpec

(***************************************************************************)
(* The retransmission timeout of lib/rtt.c stays between RTT_RXTMIN and    *)
(* RTT_RXTMAX, doubled once for each retransmission, whatever round-trip   *)
(* times are measured and whenever the alarm comes, so that alarm() is     *)
(* never called with 0.                                                    *)
(***************************************************************************)
THEOREM TimeoutKeepsBounds == MCSpec => []RtoRight
<1>1. MCInit => ClientInv
  BY ClientInit DEF MCInit
<1>2. ClientInv /\ [MCNext]_MCvars => ClientInv'
  BY WhoseStep, ClientNext
<1>3. ClientInv => RtoRight
  BY ClientTimer DEF RtoRight
<1> QED
  BY <1>1, <1>2, <1>3, PTL DEF MCSpec

(***************************************************************************)
(* icmpd: no client has two entries in the table, every entry in use is    *)
(* among those the loops look at, and a client that the daemon has         *)
(* accepted is told of errors for its own port and family only, although   *)
(* readable_listen() leaves the port of the entry's former owner there.    *)
(***************************************************************************)
THEOREM ErrorsAreOwn == MCSpec => []OwnErrors
<1>1. MCInit => IcmpInv
  BY IcmpInit DEF MCInit
<1>2. IcmpInv /\ [MCNext]_MCvars => IcmpInv'
  BY WhoseStep, IcmpNext
<1>3. IcmpInv => OwnErrors
  BY DEF IcmpInv, ClientRight, ShownOwn, Own, OwnErrors, Icmpd!OwnErrors
<1> QED
  BY <1>1, <1>2, <1>3, PTL DEF MCSpec
=============================================================================
