----------------------------- MODULE MCUnoGame -----------------------------
(***************************************************************************)
(* Small games for TLC: GameStart() with cards, sweeps and any lines       *)
(* (UnoGame), or both sides of a game with lines on their way (UnoTable).  *)
(* One of the two is played, the other stays in its initial state.         *)
(***************************************************************************)
EXTENDS UnoGame, Sequences

CONSTANTS
  Played,          \* which of the two
  Kinds, TableHand, TableCards, TableLongMax, MaxTyped

ASSUME TableAssumption ==
  TableHand \in Nat \ {0} /\ TableCards \in Int /\ TableLongMax \in Nat \ {0}

VARIABLES
  which,           \* the roster, used, is the same for both
  tplayer_num, thand_num, tcard_num, twhose_round, tturn, tcard, tis_uno, thave_uno, ttime_stamp, tpos, tover,
  up, down, playing, remain, card_remain, whos_turn, n_remain, uno, moved, stray, misnamed, blurred, trevived, typed

Table == INSTANCE UnoTable WITH
  HAND <- TableHand, NCARD <- TableCards, LONG_MAX <- TableLongMax,
  player_num <- tplayer_num, hand_num <- thand_num, card_num <- tcard_num, whose_round <- twhose_round, turn <- tturn,
  card <- tcard, is_uno <- tis_uno, have_uno <- thave_uno, time_stamp <- ttime_stamp,
  pos <- tpos, over <- tover, revived <- trevived
tableVars ==
  <<tplayer_num, thand_num, tcard_num, twhose_round, tturn, tcard, tis_uno, thave_uno, ttime_stamp, tpos, tover,
    up, down, playing, remain, card_remain, whos_turn, n_remain, uno, moved, stray, misnamed, blurred, trevived, typed>>
mcvars == <<which, vars, tableVars>>

Roster(a, b, c) == [s \in 0 .. 2 |-> CASE s = 0 -> a [] s = 1 -> b [] s = 2 -> c]

\* Three players of whom two sit in the seats with each other's numbers; two or one
\* in the seats with their own, with joiners that are not admitted.
Mixed == {Roster(1, 0, 2), Roster(0, 1, None), Roster(0, None, None)}

\* One deal of a deck with one card of each kind; the draw-four stays in the pile.
\* The first seat begins; with seats 0 and 1 taken and a joiner waiting, the number
\* drawn is nobody's.
MCInit ==
  /\ which \in Played
  /\ Init /\ 4 \in pile
  /\ IF used[2] # None THEN whose_round = 0 /\ waiting = 0
     ELSE whose_round = IF used[1] = None THEN 0 ELSE 2
  /\ \A s \in Taken : hand[s] = {s + 1}
  /\ Table!Init /\ tcard = "reverse" /\ tplayer_num = player_num /\ twhose_round = whose_round
MCNext ==
  \/ which = "game" /\ Next /\ UNCHANGED <<which, tableVars>>
  \/ which = "table" /\ Table!Next /\ UNCHANGED <<which, vars>>
MCSpec == MCInit /\ [][MCNext]_mcvars

\* What is read again: not the game that is not played, nor one that has ended,
\* nor the copy of a client that has gone back to the lobby, nor of a call that its
\* sender holds to be wrong more than that.
Heard(line) == IF line.k \in {"11", "12"} /\ ~line.valid THEN <<line.k>> ELSE line
LiveGame ==
  IF over \/ tover THEN <<which>>
  ELSE IF which = "game" THEN vars
  ELSE <<used, tplayer_num, thand_num, tcard_num, twhose_round, tturn, tcard, tis_uno, thave_uno, ttime_stamp, tpos,
         [c \in Seats |-> [n \in DOMAIN up[c] |-> Heard(up[c][n])]], playing, stray, misnamed, blurred, trevived, typed,
         [c \in playing |-> <<c \in moved, down[c], remain[c], card_remain[c], whos_turn[c],
                              n_remain[c], uno[c]>>]>>

-----------------------------------------------------------------------------
\* A client shows the table as the server has it (UnoTable).
CopiesAgree == which = "table" => Table!CopiesAgree

\* A first move arrives in its sender's turn (UnoTable).
MovesInTurn == [][Table!FirstMoveInTurn]_tableVars
=============================================================================
