------------------------------ MODULE UnoTurn -------------------------------
(***************************************************************************)
(* Who is next and who was first: the two searches over the seats of a     *)
(* game in src/tcpcliserv/final_server.c.  num is hand_num[], -1 for a     *)
(* seat whose player is not in the game.                                   *)
(***************************************************************************)
EXTENDS Integers, FiniteSetsExt

CONSTANT NSEAT          \* seats of a room: 10

Seats == 0 .. NSEAT - 1
None == -1

\* The seat k places on from seat w.
Onward(w, k, dir) == IF dir = 0 THEN (w + k) % NSEAT ELSE (w + NSEAT - k) % NSEAT

\* Mutant: who has left gets a turn.
SwitchToNextSeat(w, num, dir) == Onward(w, 1, dir)

\* SwitchToNextPlayer(): the nearest other player in the direction of play.
SwitchToNextPlayer(w, num, dir) ==
  LET steps == {k \in 1 .. NSEAT - 1 : num[Onward(w, k, dir)] # -1}
  IN IF steps = {} THEN w ELSE Onward(w, Min(steps), dir)

Skipped(w, num, dir) == SwitchToNextPlayer(SwitchToNextPlayer(w, num, dir), num, dir)

\* Mutant: the direction is counted on.
ReversedNoWrap(dir) == dir + 1

\* The direction of play after a reverse card.
Reversed(dir) == (dir + 1) % 2

\* Mutant: the lower seat wins a tie.
FastestFirstSeat(num, stamp, called) ==
  LET best[i \in Seats] ==
        IF i = 0 THEN 0
        ELSE IF num[i] # -1 /\ stamp[i] < stamp[best[i - 1]] THEN i ELSE best[i - 1]
  IN best[NSEAT - 1]

\* The earliest caller of a sweep; whoever is called wins a tie.
Fastest(num, stamp, called) ==
  LET Better(i, best) ==
        /\ num[i] # -1
        /\ stamp[i] < stamp[best] \/ (stamp[i] = stamp[best] /\ i = called)
      best[i \in Seats] ==
        IF i = 0 THEN 0 ELSE IF Better(i, best[i - 1]) THEN i ELSE best[i - 1]
  IN best[NSEAT - 1]
=============================================================================
