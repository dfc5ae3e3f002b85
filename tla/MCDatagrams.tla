---------------------------- MODULE MCDatagrams -----------------------------
(***************************************************************************)
(* The programs on datagrams and raw sockets for TLC: the signal-driven    *)
(* echo server, the versions of dg_cli(), the ICMP daemon, traceroute and  *)
(* ping.  One of them runs, the others stay in their initial state.        *)
(***************************************************************************)
EXTENDS SigioEcho

CONSTANTS
  NREQ, NREPLY, NQUEUE, Waits, RoundTrips,
  ClientIds, NSLOT, Ports, NERR,
  Protos, MAXTTL, NPROBES, HOPS, NRAW,
  Counts, PreLoads, SEQMOD, NSEND

\* Clients are numbered and -1 is none of them; select()'s table has a size; a
\* sequence number has some bits; time is counted in whole milliseconds.
ASSUME DatagramsAssumption ==
  /\ ClientIds \subseteq Nat /\ NSLOT \in Nat /\ HOPS \in Nat
  /\ SEQMOD \in Nat \ {0} /\ RoundTrips \subseteq Nat

VARIABLES
  which,
  cliprog, dpc, req, net, dup, inq, got, al, jmpbuf, pipe, printed, rtt,
  cli, backlog, client, maxi, icmp, nerr, ipc, rdy, pos, nready, stream, shown,
  pr, tpc, ttl, probe, seq, done, code, gotalarm, talarm, under, raw,
  pp, npackets, preload, ppc, handler, itimer, ntransmitted, nreceived, nrepeats,
  rcvd_tbl, seen, reg, pnet, ndup

Dg == INSTANCE DgClient WITH dg <- cliprog, shown <- printed
Icmpd == INSTANCE IcmpDaemon
Trace == INSTANCE Traceroute
Ping1 == INSTANCE Ping

dgVars == <<cliprog, dpc, req, net, dup, inq, got, al, jmpbuf, pipe, printed, rtt>>
icmpVars == <<cli, backlog, client, maxi, icmp, nerr, ipc, rdy, pos, nready, stream, shown>>
traceVars == <<pr, tpc, ttl, probe, seq, done, code, gotalarm, talarm, under, raw>>
pingVars == <<pp, npackets, preload, ppc, handler, itimer, ntransmitted, nreceived, nrepeats,
              rcvd_tbl, seen, reg, pnet, ndup>>
MCvars == <<which, vars, dgVars, icmpVars, traceVars, pingVars>>

\* A program that does not run has one initial state.
MCInit ==
  /\ which \in {"sigio", "dgcli", "icmpd", "traceroute", "ping"}
  /\ Init
  /\ Dg!Init /\ (which = "dgcli" \/ cliprog = Dg!dg_cli)
  /\ Icmpd!Init
  /\ Trace!Init /\ (which = "traceroute" \/ pr = "v4")
  /\ Ping1!Init /\ (which = "ping" \/ (pp = "ping" /\ npackets = 0 /\ preload = 0))

Sigio == which = "sigio" /\ UNCHANGED <<which, dgVars, icmpVars, traceVars, pingVars>>
Dgcli == which = "dgcli" /\ UNCHANGED <<which, vars, icmpVars, traceVars, pingVars>>
IcmpRuns == which = "icmpd" /\ UNCHANGED <<which, vars, dgVars, traceVars, pingVars>>
Traces == which = "traceroute" /\ UNCHANGED <<which, vars, dgVars, icmpVars, pingVars>>
Pings == which = "ping" /\ UNCHANGED <<which, vars, dgVars, icmpVars, traceVars>>

MCNext == (Sigio /\ Next) \/ (Dgcli /\ Dg!Next) \/ (IcmpRuns /\ Icmpd!Next)
          \/ (Traces /\ Trace!Next) \/ (Pings /\ Ping1!Next)

\* The fairness of the program that runs.
MCFairness ==
  /\ WF_MCvars((Sigio /\ Main) \/ (Dgcli /\ Dg!ClientStep) \/ (IcmpRuns /\ Icmpd!Daemon)
               \/ (Traces /\ Trace!Trace) \/ (Pings /\ Ping1!Main))
  /\ WF_MCvars((Sigio /\ Handler) \/ (Dgcli /\ Dg!SignalStep)
               \/ (Traces /\ Trace!SigAlrm) \/ (Pings /\ Ping1!SigAlrm))
  /\ \A c \in ClientIds : WF_MCvars(IcmpRuns /\ Icmpd!ReadByte(c))

MCSpec == MCInit /\ [][MCNext]_MCvars /\ MCFairness

-----------------------------------------------------------------------------
\* An answer that is taken answers what was asked, however late, doubled or
\* foreign others are: in the reliable client it belongs to the request
\* (DgClient), traceroute stops only at the destination (Traceroute), and ping
\* counts no more answers than requests (Ping).
OwnAnswer == Dg!OwnAnswer /\ Trace!StopsAtDestination /\ Ping1!CountsAgree

\* The retransmission timeout stays between its bounds (DgClient).
RtoRight == Dg!RtoRight

\* The daemon's table is right, and a client hears of its own errors only
\* (IcmpDaemon).
OwnErrors == Icmpd!TableOK /\ Icmpd!OwnErrors

\* Whatever is lost and whenever the alarm comes, nobody waits for ever: a client
\* with a timeout finishes its round (DgClient), a client of the daemon's is
\* answered (IcmpDaemon), traceroute ends (Traceroute), and so does ping with -c
\* (Ping).
RoundEnds ==
  /\ which = "dgcli" => Dg!RoundEnds
  /\ which = "icmpd" => Icmpd!Registers
  /\ which = "traceroute" => Trace!TraceEnds
  /\ which = "ping" => Ping1!PingEnds
=============================================================================
