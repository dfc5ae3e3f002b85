------------------------------ MODULE UnoGame ------------------------------
(***************************************************************************)
(* One game of the UNO server: GameStart() of                              *)
(* src/tcpcliserv/final_server.c with GiveCardToPlayer(), shuffle() and    *)
(* SwitchToNextPlayer().  A room thread sweeps over the players' sockets,  *)
(* reads one line from each that is ready, and settles the UNO calls of    *)
(* the sweep at its end.  What is sent to the clients is left out; clients *)
(* may send any line at any time, since the server does not test whose     *)
(* turn it is.  The order of the pile is chosen as it is drawn from, which *)
(* a random permutation does not tell apart.                               *)
(***************************************************************************)
EXTENDS UnoTurn, FiniteSets

CONSTANTS
  Rosters,        \* used[] as RoomProcess() hands it over: who sits where
  ROOMCAP,        \* players a room counts at most: 9
  HAND,           \* cards dealt to each player: 7
  SKIP, REVERSE, DRAW2, WILD, DRAW4, NCARD,
                  \* first card of each kind, 76, 84, 92, 100, 104, and 108
  LONG_MAX,       \* "has not called": later than every time stamp
  MaxReshuffle    \* bound: how often the pile is made again

ASSUME GameAssumption ==
  /\ NSEAT \in Nat \ {0, 1} /\ ROOMCAP \in 2 .. NSEAT /\ HAND \in Nat \ {0}
  /\ LONG_MAX \in Nat \ {0} /\ MaxReshuffle \in Nat
ASSUME RosterAssumption == \A u \in Rosters :
  /\ u \in [0 .. NSEAT - 1 -> Nat \cup {-1}]
  /\ \E s \in DOMAIN u : u[s] # -1
  /\ \A s, t \in DOMAIN u : u[s] = u[t] /\ u[s] # -1 => s = t
ASSUME DeckAssumption ==
  /\ SKIP \in Nat /\ REVERSE \in SKIP .. DRAW2 /\ DRAW2 \in REVERSE .. WILD
  /\ WILD \in Nat \ {0} /\ DRAW4 \in WILD .. NCARD /\ NCARD \in Nat

Cards == 0 .. NCARD - 1

VARIABLES
  used,         \* used[s]: the connection in seat s, None in an empty seat
  waiting,      \* how many the room has counted in player_num and not admitted
                \* when the game began: they are not in used[]
  hand,         \* hand[s]: the cards whose entry in hand[s][] is 1
  hand_num,     \* hand_num[s]: -1 for who is not (any more) in the game
  pile,         \* card_seq[0 .. card_num - 1]
  card_id,      \* the card found last; None stands for its uninitialized value
  whose_round, turn, player_num,
  is_uno, have_uno, time_stamp,
  pos,          \* the sweep goes on with this seat
  give,         \* GiveCardToPlayer() under way: to whom, how many cards
  over,         \* GameStart() has returned
  reshuffled,   \* history: how often the pile was made again
  revived       \* history: cards were given to somebody who had left

seating == <<used, waiting>>
callVars == <<is_uno, have_uno, time_stamp>>
turnVars == <<whose_round, turn>>
cardVars == <<hand, hand_num, pile>>
history == <<reshuffled, revived>>
vars == <<seating, cardVars, card_id, turnVars, player_num, callVars, pos, give,
          over, history>>

Taken == {s \in Seats : used[s] # None}
Playing == {s \in Seats : hand_num[s] # -1}
Nothing == [to |-> None, left |-> 0, then |-> FALSE]

\* Every deal: HAND cards for each player, and of the rest a table card; the
\* wild cards turned up before it are gone.  player_num is the room's count when
\* somebody was admitted or left last, and a joiner is counted first and admitted
\* later.  A number below it is drawn; the player with that number begins, and if
\* there is none, the number itself remains in whose_round.
Init ==
  /\ used \in Rosters
  /\ hand \in {h \in [Seats -> SUBSET Cards] :
                 \A s \in Seats :
                   /\ Cardinality(h[s]) = IF used[s] = None THEN 0 ELSE HAND
                   /\ \A t \in Seats \ {s} : h[s] \cap h[t] = {}}
  /\ hand_num = [s \in Seats |-> IF used[s] = None THEN -1 ELSE HAND]
  /\ LET undealt == Cards \ UNION {hand[s] : s \in Seats}
     IN \E first \in undealt, gone \in SUBSET undealt :
          /\ first < WILD /\ \A c \in gone : c >= WILD
          /\ pile = undealt \ (gone \cup {first})
  /\ card_id = None   \* not initialized
  /\ player_num \in Cardinality(Taken) .. ROOMCAP /\ player_num >= 2
  /\ waiting = player_num - Cardinality(Taken)
  /\ whose_round \in Taken \cup (Cardinality(Taken) .. player_num - 1) /\ turn = 0
  /\ is_uno = [s \in Seats |-> FALSE] /\ have_uno = None
  /\ time_stamp = [s \in Seats |-> LONG_MAX]
  /\ pos = 0 /\ give = Nothing /\ over = FALSE
  /\ reshuffled = 0 /\ revived = FALSE

-----------------------------------------------------------------------------
(* GiveCardToPlayer(), one card at a time.  give.then: the turn passes on  *)
(* when it is done.                                                        *)

Give(to, n, then) ==
  /\ give' = [to |-> to, left |-> n, then |-> then]
  /\ revived' = (revived \/ hand_num[to] = -1)

\* The pile is empty: it is made of as many cards as nobody holds; shuffle()
\* numbers them 0, 1, 2 and so on.
Reshuffle ==
  /\ give.left > 0 /\ pile = {} /\ reshuffled < MaxReshuffle
  /\ LET adopted == UNION {hand[s] : s \in Playing}
     IN pile' = 0 .. NCARD - Cardinality(adopted) - 1
  /\ reshuffled' = reshuffled + 1
  /\ UNCHANGED <<seating, hand, hand_num, card_id, turnVars, player_num, callVars,
                 pos, give, over, revived>>

Draw(c) ==
  /\ give.left > 0 /\ c \in pile
  /\ hand' = [hand EXCEPT ![give.to] = @ \cup {c}]
  /\ hand_num' = [hand_num EXCEPT ![give.to] = @ + 1]
  /\ pile' = pile \ {c}
  /\ is_uno' = [is_uno EXCEPT ![give.to] = FALSE]
  /\ give' = IF give.left = 1 THEN Nothing ELSE [give EXCEPT !.left = @ - 1]
  /\ whose_round' = IF give.left = 1 /\ give.then
                    THEN SwitchToNextPlayer(whose_round, hand_num', turn)
                    ELSE whose_round
  /\ UNCHANGED <<seating, card_id, turn, player_num, have_uno, time_stamp, pos,
                 over, history>>

-----------------------------------------------------------------------------
(* The lines the server reads from player i.                               *)

\* The sweep reads the line of player i.
Reads(i) ==
  /\ ~over /\ give.left = 0
  /\ i \in Playing /\ used[i] # None /\ i >= pos
  /\ pos' = i + 1

\* "8" or the end of the connection: the last one left wins, if the count says
\* that there is but one.
Leave(i) ==
  /\ Reads(i)
  /\ hand_num' = [hand_num EXCEPT ![i] = -1]
  /\ player_num' = player_num - 1
  /\ over' = (player_num' < 2)
  /\ whose_round' = IF i = whose_round /\ ~over'
                    THEN SwitchToNextPlayer(i, hand_num', turn) ELSE whose_round
  /\ UNCHANGED <<seating, hand, pile, card_id, turn, callVars, give, history>>

\* What the card on the table does.
Effect(card) ==
  LET next == SwitchToNextPlayer(whose_round, hand_num', turn)
      Pass == give' = Nothing /\ UNCHANGED revived
      Fine(n) == whose_round' = next /\ Give(next, n, TRUE) /\ UNCHANGED turn
  IN \/ /\ card \in SKIP .. REVERSE - 1 /\ Pass
        /\ whose_round' = Skipped(whose_round, hand_num', turn) /\ UNCHANGED turn
     \/ /\ card \in REVERSE .. DRAW2 - 1 /\ Pass
        /\ turn' = Reversed(turn)
        /\ whose_round' = IF player_num > 2
                          THEN SwitchToNextPlayer(whose_round, hand_num', Reversed(turn))
                          ELSE whose_round
     \/ card \in DRAW2 .. WILD - 1 /\ Fine(2)
     \/ card \in DRAW4 .. NCARD - 1 /\ Fine(4)
     \/ /\ card \in 0 .. SKIP - 1 \/ card \in WILD .. DRAW4 - 1
        /\ whose_round' = next /\ UNCHANGED turn /\ Pass

\* Mutant: the card stays in the hand.
FoundAndKept(i, c) ==
  /\ hand_num' = [hand_num EXCEPT ![i] = @ - 1]
  /\ card_id' = c /\ UNCHANGED hand

\* The card leaves the hand.
Found(i, c) ==
  /\ hand' = [hand EXCEPT ![i] = @ \ {c}]
  /\ hand_num' = [hand_num EXCEPT ![i] = @ - 1]
  /\ card_id' = c

\* "9 card": if the card is not in the hand, card_id still names the one found
\* last, or nothing in particular.  An empty hand wins.
Play(i, c) ==
  /\ Reads(i)
  /\ \/ c \in hand[i] /\ Found(i, c)
     \/ /\ c \notin hand[i]
        /\ card_id' \in IF card_id = None THEN Cards ELSE {card_id}
        /\ UNCHANGED <<hand, hand_num>>
  /\ over' = (hand_num'[i] <= 0)
  /\ IF over' THEN UNCHANGED <<turnVars, give, revived>> ELSE Effect(card_id')
  /\ UNCHANGED <<seating, pile, player_num, callVars, reshuffled>>

\* "10": whoever's turn it is draws a card and the turn passes on.
Skip(i) ==
  /\ Reads(i)
  /\ Give(whose_round, 1, TRUE)
  /\ UNCHANGED <<seating, cardVars, card_id, turnVars, player_num, callVars, over,
                 reshuffled>>

\* "11 valid stamp" and "12 valid name stamp", found invalid by the client:
\* two cards for the caller.
FalseCall(i) ==
  /\ Reads(i)
  /\ Give(i, 2, FALSE)
  /\ UNCHANGED <<seating, cardVars, card_id, turnVars, player_num, callVars, over,
                 reshuffled>>

\* A player's first time stamp of a sweep counts.
Stamp(i, t) == time_stamp' = [time_stamp EXCEPT ![i] = IF @ = LONG_MAX THEN t ELSE @]

OneCardLeft(s) == ~is_uno[s] /\ hand_num[s] = 1

\* "11 1 stamp": i calls UNO.
CallUno(i, t) ==
  /\ Reads(i)
  /\ IF OneCardLeft(i) THEN have_uno' = i /\ Stamp(i, t) ELSE UNCHANGED <<have_uno, time_stamp>>
  /\ UNCHANGED <<seating, cardVars, card_id, turnVars, player_num, is_uno, give, over,
                 history>>

\* The players who may be found for the name of seat v: the seat j whose number is
\* the index of a connection of that name, conns[j].name.  There is none if nobody
\* plays there; and once v has left, the connection may be another's.
Named(v) ==
  ({used[v]} \cap Playing)
    \cup (IF v \in Playing /\ used[v] \in Playing THEN {} ELSE {None})

\* "12 1 name stamp": i catches the player in seat v, unless somebody is
\* being caught already.  With nobody found the code reads is_uno[-1] and
\* hand_num[-1], so that i's stamp may be taken or not.
Catch(i, v, t) ==
  /\ Reads(i) /\ used[v] # None
  /\ \E h \in IF have_uno = None THEN Named(v) ELSE {have_uno} :
       \/ (h # None => OneCardLeft(h)) /\ have_uno' = h /\ Stamp(i, t)
       \/ (h # None => ~OneCardLeft(h)) /\ have_uno' = None /\ UNCHANGED time_stamp
  /\ UNCHANGED <<seating, cardVars, card_id, turnVars, player_num, is_uno, give, over,
                 history>>

\* Who was first in the sweep.
First == Fastest(hand_num, time_stamp, have_uno)

\* The sweep is over: who was called first is settled, and select() waits for
\* the next lines.
EndSweep ==
  /\ ~over /\ give.left = 0 /\ pos > 0
  /\ IF have_uno = None THEN UNCHANGED <<is_uno, give, revived>>
     ELSE IF First = have_uno
     THEN is_uno' = [is_uno EXCEPT ![have_uno] = TRUE] /\ UNCHANGED <<give, revived>>
     ELSE Give(have_uno, 2, FALSE) /\ UNCHANGED is_uno
  /\ have_uno' = None
  /\ time_stamp' = [s \in Seats |-> LONG_MAX]
  /\ pos' = 0
  /\ UNCHANGED <<seating, cardVars, card_id, turnVars, player_num, over, reshuffled>>

Next ==
  \/ Reshuffle \/ EndSweep
  \/ \E c \in Cards : Draw(c)
  \/ \E i \in Seats :
       \/ Leave(i) \/ Skip(i) \/ FalseCall(i)
       \/ \E c \in Cards : Play(i, c)
       \/ \E t \in 0 .. LONG_MAX - 1 :
            CallUno(i, t) \/ \E v \in Seats : Catch(i, v, t)

Spec == Init /\ [][Next]_vars

-----------------------------------------------------------------------------
(* Properties.                                                             *)

\* Every variable of the game keeps the range its declaration and use give it.
TypeOK ==
  /\ used \in Rosters /\ waiting \in 0 .. ROOMCAP
  /\ hand \in [Seats -> SUBSET Cards] /\ hand_num \in [Seats -> Int]
  /\ pile \subseteq Cards /\ card_id \in Cards \cup {None}
  /\ whose_round \in Seats /\ turn \in {0, 1} /\ player_num \in 0 .. NSEAT
  /\ is_uno \in [Seats -> BOOLEAN] /\ have_uno \in Seats \cup {None}
  /\ time_stamp \in [Seats -> 0 .. LONG_MAX]
  /\ pos \in 0 .. NSEAT /\ over \in BOOLEAN
  /\ give \in [to : Seats \cup {None}, left : 0 .. 4, then : BOOLEAN]
  /\ reshuffled \in 0 .. MaxReshuffle /\ revived \in BOOLEAN

\* As long as nobody who left was dealt cards, the counter player_num is the
\* number of players and it is the turn of one of them, whoever leaves,
\* skips or reverses in whatever order: otherwise GameStart() would never end,
\* or wait for somebody who is gone.  Joiners that the room had counted but not
\* admitted are the exception: they stay in the count, the game ends that many
\* leaves late or never, and until a card is played the turn may be an empty
\* seat's.
RoundIsPlayable ==
  ~over /\ ~revived =>
    /\ player_num = Cardinality(Playing) + waiting /\ player_num >= 2
    /\ \/ whose_round \in Playing
       \/ waiting > 0 /\ (whose_round \notin Taken \/ Playing = {})

\* Until the pile is made again, a card is in one hand or in the pile, never
\* in two places, and hand_num[] counts what hand[][] marks.
CardsInOnePlace ==
  reshuffled = 0 =>
    /\ \A s, t \in Seats : s # t => hand[s] \cap hand[t] = {}
    /\ \A s \in Seats : hand[s] \cap pile = {}
    /\ ~revived => \A s \in Playing : hand_num[s] = Cardinality(hand[s])

\* The loop that settles a sweep, which starts from seat 0 whether or not
\* somebody plays there, decides for the player called exactly when nobody
\* who plays was earlier.
FastestWins ==
  have_uno \in Playing =>
    (First = have_uno <=> \A s \in Playing : time_stamp[have_uno] <= time_stamp[s])

\* Who has left the game stays out of it: hand_num is -1 for good.  The sweep
\* that catches a player who leaves later in the same sweep breaks it.
LeftStaysOut == [][\A s \in Taken : hand_num[s] = -1 => hand_num'[s] = -1]_vars

\* When i catches another player, it is the player whose name was sent.  The
\* look-up by conns[j].name instead of conns[used[j]].name breaks it.
CaughtIsNamed ==
  [][\A i, v \in Seats, t \in 0 .. LONG_MAX - 1 :
       Catch(i, v, t) /\ have_uno = None /\ have_uno' \notin {None, i}
       => have_uno' = v]_vars
=============================================================================
