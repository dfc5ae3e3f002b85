-------------------------------- MODULE Ping --------------------------------
(***************************************************************************)
(* ping/bsdping.c, which counts answers and recognises duplicates with a   *)
(* bit per sequence number, and the smaller ping (ping/main.c,             *)
(* readloop.c).  Requests are sent by the handler of SIGALRM while         *)
(* pr_pack() may be at work on an answer; answers are lost, late or there  *)
(* more than once, and the sequence number has 16 bits.                    *)
(***************************************************************************)
EXTENDS Integers, FiniteSets

CONSTANTS
  Counts,      \* values of -c (npackets); 0: no end
  PreLoads,    \* values of -l
  SEQMOD,      \* sequence numbers (65536), and bits in rcvd_tbl
  NSEND        \* bound: requests sent without -c, and with -f

VARIABLES
  pp, npackets, preload,                 \* the program and its options
  ppc, handler, itimer,                  \* its place, SIGALRM's handler, the timer
  ntransmitted, nreceived, nrepeats,
  rcvd_tbl, seen, reg,                   \* the bits; pr_pack()'s answer, a byte read
  pnet, ndup                             \* answers under way; copies of them

pvars == <<pp, npackets, preload, ppc, handler, itimer, ntransmitted, nreceived, nrepeats,
           rcvd_tbl, seen, reg, pnet, ndup>>
optVars == <<pp, npackets, preload>>
packVars == <<nreceived, nrepeats, seen, reg>>

Init ==
  /\ pp \in {"ping", "bsdping", "flood"}
  /\ npackets \in (IF pp = "ping" THEN {0} ELSE Counts)
  /\ preload \in (IF pp = "ping" THEN {0} ELSE PreLoads)
  /\ ppc = "preload" /\ handler = "onalrm" /\ itimer = FALSE
  /\ ntransmitted = 0 /\ nreceived = 0 /\ nrepeats = 0
  /\ rcvd_tbl = {} /\ seen = 0 /\ reg = {} /\ pnet = {} /\ ndup = 0

\* The network answers, or does not; an answer may come twice.
Lose(a) == a \in pnet /\ pnet' = pnet \ {a} /\
  UNCHANGED <<optVars, ppc, handler, itimer, ntransmitted, packVars, rcvd_tbl, ndup>>

\* pinger(), send_v4(): CLR() of the number's bit, then sendto().
pinger ==
  /\ ntransmitted' = ntransmitted + 1
  /\ rcvd_tbl' = rcvd_tbl \ {ntransmitted % SEQMOD}
  /\ pnet' = pnet \cup {ntransmitted}

\* main() up to its loop: -l packets, then the timer, which goes off at once.
Preload ==
  /\ ppc = "preload"
  /\ \/ preload > ntransmitted /\ pinger /\ UNCHANGED <<ppc, itimer>>
     \/ /\ preload <= ntransmitted /\ ppc' = "loop" /\ itimer' = (pp # "flood")
        /\ UNCHANGED <<ntransmitted, rcvd_tbl, pnet>>
  /\ UNCHANGED <<optVars, handler, packVars, ndup>>

\* The flood's loop sends each time round.
Flood ==
  /\ pp = "flood" /\ ppc = "loop" /\ ntransmitted < NSEND /\ pinger
  /\ UNCHANGED <<optVars, ppc, handler, itimer, packVars, ndup>>

MoreToSend == npackets = 0 \/ ntransmitted < npackets

\* SIGALRM, at any point of the loop: onalrm() or, at the end, onint().
\* The smaller ping's sig_alrm() sends and sets the alarm again.
SigAlrm ==
  /\ itimer /\ ppc \notin {"preload", "exit"}
  /\ \/ /\ handler = "onint" /\ ppc' = "exit" /\ itimer' = FALSE
        /\ UNCHANGED <<handler, ntransmitted, rcvd_tbl, pnet>>
     \/ /\ handler = "onalrm" /\ MoreToSend /\ ntransmitted < NSEND /\ pinger
        /\ UNCHANGED <<ppc, handler, itimer>>
     \/ /\ handler = "onalrm" /\ ~MoreToSend /\ handler' = "onint"
        /\ UNCHANGED <<ppc, itimer, ntransmitted, rcvd_tbl, pnet>>
  /\ UNCHANGED <<optVars, packVars, ndup>>

-----------------------------------------------------------------------------
(* recvfrom() and pr_pack().  A duplicated answer stays under way.         *)

Receive(a) ==
  /\ ppc = "loop" /\ a \in pnet /\ seen' = a % SEQMOD
  /\ pnet' \in {pnet \ {a}} \cup (IF ndup = 0 THEN {pnet} ELSE {})
  /\ ndup' = (IF a \in pnet' THEN 1 ELSE ndup)
  /\ nreceived' = (IF pp = "ping" THEN nreceived ELSE nreceived + 1)
  /\ ppc' = IF pp = "ping" THEN "loop" ELSE "test"
  /\ UNCHANGED <<optVars, handler, itimer, ntransmitted, nrepeats, rcvd_tbl, reg>>

DupUncounted == nreceived - 1

\* TST(): a duplicate is taken back; otherwise SET() reads the byte.
TestBit ==
  /\ ppc = "test"
  /\ \/ /\ seen \in rcvd_tbl /\ nrepeats' = nrepeats + 1 /\ nreceived' = DupUncounted
        /\ ppc' = "packed" /\ UNCHANGED reg
     \/ /\ seen \notin rcvd_tbl /\ reg' = rcvd_tbl /\ ppc' = "set"
        /\ UNCHANGED <<nreceived, nrepeats>>
  /\ UNCHANGED <<optVars, handler, itimer, ntransmitted, rcvd_tbl, seen, pnet, ndup>>

\* SET() stores the byte; a bit cleared by the handler meanwhile is set again.
SetBit ==
  /\ ppc = "set" /\ rcvd_tbl' = reg \cup {seen} /\ ppc' = "packed"
  /\ UNCHANGED <<optVars, handler, itimer, ntransmitted, packVars, pnet, ndup>>

\* if (npackets && nreceived >= npackets) break.
Packed ==
  /\ ppc = "packed"
  /\ ppc' = IF npackets > 0 /\ nreceived >= npackets THEN "exit" ELSE "loop"
  /\ UNCHANGED <<optVars, handler, itimer, ntransmitted, packVars, rcvd_tbl, pnet, ndup>>

Main == Preload \/ Flood \/ TestBit \/ SetBit \/ Packed

Next == Main \/ SigAlrm \/ \E a \in pnet : Receive(a) \/ Lose(a)

\* The timer goes off again and again.
Fairness == WF_pvars(Main) /\ WF_pvars(SigAlrm)
Spec == Init /\ [][Next]_pvars /\ Fairness

-----------------------------------------------------------------------------
\* bsdping.c: between two answers nreceived never exceeds the requests sent,
\* whatever is duplicated and although the numbers and their bits are used
\* again.  (Within pr_pack() it may, and summary() then says "somebody's
\* printing up packets!".)
CountsAgree == ppc \in {"loop", "exit"} /\ handler = "onalrm" => nreceived <= ntransmitted

\* bsdping.c onalrm(): with -c, ping ends although answers are lost; without
\* it, it goes on sending.
PingEnds == pp # "flood" => <>(ppc = "exit" \/ (npackets = 0 /\ ntransmitted >= NSEND))

\* bsdping.c:132, "max packets to transmit".
MaxPackets == npackets > 0 => ntransmitted <= npackets
=============================================================================
