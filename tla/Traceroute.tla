----------------------------- MODULE Traceroute -----------------------------
(***************************************************************************)
(* traceroute: probes with growing TTL, each answered by an ICMP error of  *)
(* a router or of the destination, late or never.  The raw socket also     *)
(* gets ICMP messages that other programs caused.  recv_v4() and recv_v6() *)
(* wait for the answer with an alarm whose handler sets gotalarm.          *)
(***************************************************************************)
EXTENDS Integers, Sequences

CONSTANTS
  Protos,      \* which of "v4" and "v6" run
  MAXTTL,      \* max_ttl
  NPROBES,     \* nprobes
  HOPS,        \* the TTL with which the destination is reached
  NRAW         \* room in the raw socket's buffer

VARIABLES
  pr, tpc,                 \* the protocol, the program's place
  ttl, probe, seq, done,   \* traceloop()'s variables
  code, gotalarm, talarm,  \* recv()'s result, the handler's flag, the alarm
  under, raw               \* answers under way, answers received

tlVars == <<ttl, probe, seq, done>>
trvars == <<pr, tpc, tlVars, code, gotalarm, talarm, under, raw>>

\* An answer: for which probe, and what it says: -2 time exceeded, -1 port
\* unreachable, 0 another unreachable code.  Those of other programs have seq 0.
Says(t) == IF t < HOPS THEN {-2, 0} ELSE {-1}
Strays == {[seq |-> 0, says |-> s] : s \in {-2, -1}}

Init ==
  /\ pr \in Protos /\ tpc = "probe"
  /\ ttl = 1 /\ probe = 0 /\ seq = 0 /\ done = 0
  /\ code = -3 /\ gotalarm = TRUE /\ talarm = FALSE    \* sig_alrm(SIGALRM)
  /\ under = {} /\ raw = <<>>

Arrive(a) ==
  /\ a \in under \cup Strays /\ Len(raw) < NRAW
  /\ raw' = Append(raw, a) /\ under' = under \ {a}
  /\ UNCHANGED <<pr, tpc, tlVars, code, gotalarm, talarm>>

\* sig_alrm(); a recvfrom() that waits returns with EINTR.
SigAlrm ==
  /\ talarm /\ talarm' = FALSE /\ gotalarm' = TRUE
  /\ tpc' = IF tpc = "in" /\ raw = <<>> THEN "test" ELSE tpc
  /\ UNCHANGED <<pr, tlVars, code, under, raw>>

\* Sendto(); the probe or its answer may be lost.  recv() clears the flag
\* and sets the alarm.
Probe ==
  /\ tpc = "probe" /\ tpc' = "test"
  /\ seq' = seq + 1
  /\ under' \in {under} \cup {under \cup {[seq |-> seq + 1, says |-> s]} : s \in Says(ttl)}
  /\ gotalarm' = FALSE /\ talarm' = TRUE
  /\ UNCHANGED <<pr, ttl, probe, done, code, raw>>

\* if (gotalarm) return(-3); otherwise recvfrom() is about to be called: an
\* alarm that comes in "enter" is not seen by it.
Test ==
  /\ tpc = "test"
  /\ \/ gotalarm /\ tpc' = "result" /\ code' = -3
     \/ ~gotalarm /\ tpc' = "enter" /\ UNCHANGED code
  /\ UNCHANGED <<pr, tlVars, gotalarm, talarm, under, raw>>
Enter ==
  /\ tpc = "enter" /\ tpc' = "in"
  /\ UNCHANGED <<pr, tlVars, code, gotalarm, talarm, under, raw>>

\* What recv() may return for an answer; {} when it reads on.  In recv_v6() the
\* break after the time exceeded test is not part of the if: ret has no value.
Takes(a) ==
  IF a.seq = seq THEN {a.says}
  ELSE IF pr = "v6" /\ a.says = -2 THEN {-3, -2, -1, 0} ELSE {}

Receive ==
  /\ tpc = "in" /\ raw # <<>> /\ raw' = Tail(raw)
  /\ LET ret == Takes(Head(raw))
     IN  \/ ret = {} /\ tpc' = "test" /\ UNCHANGED <<code, talarm>>
         \/ ret # {} /\ tpc' = "result" /\ code' \in ret /\ talarm' = FALSE
  /\ UNCHANGED <<pr, tlVars, gotalarm, under>>

\* The rest of the loop's body, and the loops' tests.
Result ==
  LET d == IF code = -1 THEN done + 1 ELSE done
      last == probe + 1 = NPROBES
  IN  /\ tpc = "result" /\ done' = d
      /\ probe' = (IF last THEN 0 ELSE probe + 1) /\ ttl' = (IF last THEN ttl + 1 ELSE ttl)
      /\ tpc' = IF last /\ (ttl = MAXTTL \/ d > 0) THEN "end" ELSE "probe"
      /\ UNCHANGED <<pr, seq, code, gotalarm, talarm, under, raw>>

Trace == Probe \/ Test \/ Enter \/ Receive \/ Result

Next == Trace \/ SigAlrm \/ \E a \in under \cup Strays : Arrive(a)

\* The alarm goes off in the end.
Fairness == WF_trvars(Trace) /\ WF_trvars(SigAlrm)
Spec == Init /\ [][Next]_trvars /\ Fairness

-----------------------------------------------------------------------------
\* traceloop.c, "port unreachable; at destination": the destination is taken
\* as reached only by a probe that could reach it, whatever late answers and
\* answers of others come.  This is recv_v4(); recv_v6() does not keep to it.
StopsAtDestination == tpc = "result" /\ code = -1 /\ pr = "v4" => ttl >= HOPS

\* recv_v6.c, "Some other ICMP error, recvfrom() again".
ReadsOn == tpc = "result" /\ code = -1 => ttl >= HOPS

\* traceloop.c ends, on a host where ICMP messages keep coming in: without
\* them an alarm between the test of gotalarm and recvfrom() is missed.
TraceEnds == ([]<>(raw # <<>>)) => <>(tpc = "end")
=============================================================================
