----------------------------- MODULE ServPassFd -----------------------------
(***************************************************************************)
(* src/server/serv05.c with child05.c: the parent accepts connections and  *)
(* passes each over a stream pipe to a child it believes to be free; a     *)
(* child writes a byte into its pipe when it is ready again.  The child's  *)
(* end of the pipe is its standard error, so what a dying child has to say *)
(* goes to the parent, too.  Connections are numbered as they come in.     *)
(***************************************************************************)
EXTENDS Integers, FiniteSets, FiniteSetsExt

CONSTANTS
  NCHILD,     \* number of children
  NCONN,      \* bound: connections that come in
  MsgLen      \* bytes of the message of a child that ends with err_quit()

Children == 0 .. NCHILD - 1
Listen == -1

VARIABLES
  arrived, pending, done,    \* connections: last one, not accepted, finished
  pc, rset, nsel, navail, child_status,                    \* the parent
  passed,     \* the descriptor in the pipe to a child, 0 if there is none
  bytes,      \* bytes in the pipe from a child
  cpc, conn   \* a child's place and the connection it serves

clients == <<arrived, pending, done>>
parent == <<pc, rset, nsel, navail, child_status>>
passVars == <<parent, passed, bytes, cpc, conn>>

Init ==
  /\ arrived = 0 /\ pending = {} /\ done = {}
  /\ pc = "select" /\ rset = {} /\ nsel = 0 /\ navail = NCHILD
  /\ child_status = [w \in Children |-> 0]
  /\ passed = [w \in Children |-> 0] /\ bytes = [w \in Children |-> 0]
  /\ cpc = [w \in Children |-> "read"] /\ conn = [w \in Children |-> 0]

-----------------------------------------------------------------------------
(* The clients.                                                            *)

Arrive ==
  /\ arrived < NCONN
  /\ arrived' = arrived + 1 /\ pending' = pending \cup {arrived + 1}
  /\ UNCHANGED <<done, passVars>>

\* A client resets its connection before accept() has returned it.
Abort(c) ==
  /\ c \in pending
  /\ pending' = pending \ {c} /\ done' = done \cup {c}
  /\ UNCHANGED <<arrived, passVars>>

-----------------------------------------------------------------------------
(* The parent.                                                             *)

\* Mutant: the listening socket is never turned off.
SelectAlways ==
  /\ pc = "select"
  /\ LET ready == {w \in Children : bytes[w] > 0 \/ cpc[w] = "dead"}
                    \cup {l \in {Listen} : pending # {}}
     IN /\ ready # {} /\ rset' = ready /\ nsel' = Cardinality(ready)
        /\ pc' = IF Listen \in ready THEN "accept" ELSE "scan"
  /\ UNCHANGED <<clients, navail, child_status, passed, bytes, cpc, conn>>

\* The listening socket is looked at only if a child is free.
Select ==
  /\ pc = "select"
  /\ LET ready == {w \in Children : bytes[w] > 0 \/ cpc[w] = "dead"}
                    \cup {l \in {Listen} : navail > 0 /\ pending # {}}
     IN /\ ready # {} /\ rset' = ready /\ nsel' = Cardinality(ready)
        /\ pc' = IF Listen \in ready THEN "accept" ELSE "scan"
  /\ UNCHANGED <<clients, navail, child_status, passed, bytes, cpc, conn>>

\* accept() waits if the connection select() saw is gone.  The first child
\* marked free gets the descriptor; writing to one that is dead ends the
\* parent.
Accept ==
  /\ pc = "accept" /\ pending # {}
  /\ LET c == Min(pending)
         free == {w \in Children : child_status[w] = 0}
         w == Min(free)
     IN /\ pending' = pending \ {c}
        /\ IF free = {}
           THEN pc' = "quit" /\ UNCHANGED <<nsel, navail, child_status, passed>>
           ELSE /\ child_status' = [child_status EXCEPT ![w] = 1]
                /\ navail' = navail - 1 /\ nsel' = nsel - 1
                /\ passed' = [passed EXCEPT ![w] = c]
                /\ pc' = IF cpc[w] = "dead" THEN "quit"
                         ELSE IF nsel = 1 THEN "select" ELSE "scan"
  /\ UNCHANGED <<arrived, done, rset, bytes, cpc, conn>>

\* The pipes read: in the order of the children, as many as select() counted.
ReadPipes ==
  {w \in Children \cap rset : Cardinality({x \in Children \cap rset : x < w}) < nsel}

\* One byte is read from each; the end of a pipe ends the parent.
Scan ==
  /\ pc = "scan"
  /\ IF \E w \in ReadPipes : bytes[w] = 0
     THEN pc' = "quit" /\ UNCHANGED <<navail, child_status, bytes>>
     ELSE /\ child_status' = [w \in Children |-> IF w \in ReadPipes THEN 0 ELSE child_status[w]]
          /\ navail' = navail + Cardinality(ReadPipes)
          /\ bytes' = [w \in Children |-> IF w \in ReadPipes THEN bytes[w] - 1 ELSE bytes[w]]
          /\ pc' = "select"
  /\ UNCHANGED <<clients, rset, nsel, passed, cpc, conn>>

-----------------------------------------------------------------------------
(* A child.                                                                *)

ReadFd(w) ==
  /\ cpc[w] = "read" /\ passed[w] # 0
  /\ conn' = [conn EXCEPT ![w] = passed[w]] /\ passed' = [passed EXCEPT ![w] = 0]
  /\ cpc' = [cpc EXCEPT ![w] = "serve"]
  /\ UNCHANGED <<clients, parent, bytes>>

Finish(w) ==
  /\ cpc[w] = "serve"
  /\ done' = done \cup {conn[w]} /\ conn' = [conn EXCEPT ![w] = 0]
  /\ cpc' = [cpc EXCEPT ![w] = "ready"]
  /\ UNCHANGED <<arrived, pending, parent, passed, bytes>>

Ready(w) ==
  /\ cpc[w] = "ready"
  /\ bytes' = [bytes EXCEPT ![w] = @ + 1]
  /\ cpc' = [cpc EXCEPT ![w] = "read"]
  /\ UNCHANGED <<clients, parent, passed, conn>>

\* web_child() ends the child over a bad request or a connection that fails.
Die(w) ==
  /\ cpc[w] = "serve"
  /\ done' = done \cup {conn[w]} /\ conn' = [conn EXCEPT ![w] = 0]
  /\ bytes' = [bytes EXCEPT ![w] = @ + MsgLen]
  /\ cpc' = [cpc EXCEPT ![w] = "dead"]
  /\ UNCHANGED <<arrived, pending, parent, passed>>

Next ==
  \/ Arrive \/ (\E c \in pending : Abort(c))
  \/ Select \/ Accept \/ Scan
  \/ \E w \in Children : ReadFd(w) \/ Finish(w) \/ Ready(w) \/ Die(w)

vars == <<clients, passVars>>

ParentStep == Select \/ Accept \/ Scan
ChildStep(w) == ReadFd(w) \/ Finish(w) \/ Ready(w)

\* Every process goes on when it can.
Fairness == WF_vars(ParentStep) /\ \A w \in Children : WF_vars(ChildStep(w))

Spec == Init /\ [][Next]_vars /\ Fairness

\* The abstract state: see WorkerPool.
Worker(c) ==
  IF \E w \in Children : conn[w] = c THEN CHOOSE w \in Children : conn[w] = c ELSE -1

-----------------------------------------------------------------------------
(* Properties.                                                             *)

NobodyDied == \A w \in Children : cpc[w] # "dead"

\* While no child has died, the parent's table is right although it learns of
\* everything late: navail counts the children marked free, a child marked
\* free has nothing to do and nothing in its pipes, and a connection is never
\* accepted with no child to give it to.
TableRight ==
  NobodyDied =>
    /\ pc # "quit"
    /\ navail = Cardinality({w \in Children : child_status[w] = 0})
    /\ \A w \in Children : child_status[w] = 0 =>
         cpc[w] = "read" /\ passed[w] = 0 /\ bytes[w] = 0

\* A child marked free, child_status 0, is there to take a connection.  The
\* message of a child that died, read as a sign of life, breaks it.
FreeIsAlive == pc # "quit" => \A w \in Children : child_status[w] = 0 => cpc[w] # "dead"
=============================================================================
