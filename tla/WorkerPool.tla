----------------------------- MODULE WorkerPool -----------------------------
(***************************************************************************)
(* What the preallocated servers of src/server/ promise: a connection that *)
(* has come in is served by one worker, once, and a worker serves one      *)
(* connection at a time.                                                   *)
(***************************************************************************)
EXTENDS Naturals

CONSTANTS Conns, Workers, NoOne

VARIABLES
  stage,    \* "coming", "waiting", "serving" or "done"
  worker    \* the worker that serves a connection, or NoOne

Init ==
  /\ stage = [c \in Conns |-> "coming"]
  /\ worker = [c \in Conns |-> NoOne]

Arrive(c) ==
  /\ stage[c] = "coming"
  /\ stage' = [stage EXCEPT ![c] = "waiting"]
  /\ UNCHANGED worker

\* The client gives up before anybody serves it.
Abort(c) ==
  /\ stage[c] = "waiting"
  /\ stage' = [stage EXCEPT ![c] = "done"]
  /\ UNCHANGED worker

Take(c, w) ==
  /\ stage[c] = "waiting"
  /\ \A d \in Conns : worker[d] # w
  /\ stage' = [stage EXCEPT ![c] = "serving"]
  /\ worker' = [worker EXCEPT ![c] = w]

Finish(c) ==
  /\ stage[c] = "serving"
  /\ stage' = [stage EXCEPT ![c] = "done"]
  /\ worker' = [worker EXCEPT ![c] = NoOne]

Next == \E c \in Conns :
  Arrive(c) \/ Abort(c) \/ Finish(c) \/ \E w \in Workers : Take(c, w)

Spec == Init /\ [][Next]_<<stage, worker>>
=============================================================================
