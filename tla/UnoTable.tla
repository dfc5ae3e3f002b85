------------------------------ MODULE UnoTable ------------------------------
(***************************************************************************)
(* A game of UNO as both sides see it: game() of                           *)
(* src/tcpcliserv/final_cli.c with its copy of the table, and GameStart()  *)
(* of final_server.c, with lines on their way in both directions.  Here    *)
(* cards are counted; which cards they are, and making the pile again, is  *)
(* UnoGame's subject.  A line names a player by the seat; where the server *)
(* takes a seat for the index of a connection, the name is that of whoever *)
(* has that connection.  Talk and the screen are left out.                 *)
(***************************************************************************)
EXTENDS UnoTurn, FiniteSets, Sequences, SequencesExt

CONSTANTS
  Rosters, ROOMCAP,   \* as in UnoGame
  HAND, NCARD,    \* cards dealt to each player, cards of the deck
  Kinds,          \* of "plain", "skip", "reverse", "draw2" and "draw4"
  LONG_MAX,       \* "has not called"
  MaxTyped        \* bound: lines that the clients send

VARIABLES
  used,                                          \* used[s]: the connection in seat s
  player_num,                                    \* may count joiners not admitted
  hand_num, card_num, whose_round, turn, card,   \* the server's game; card: the
                                                 \* kind of the card found last
  is_uno, have_uno, time_stamp, pos, over,
  up, down,       \* lines on their way to the server, to each client
  playing,        \* the client is in game()
  remain, card_remain, whos_turn, n_remain, uno, \* the client's copy of the table
  moved,          \* history: the client has made a move in the round it sees
  stray,          \* history: a second move in a round was carried out
  misnamed,       \* history: in this round "13" named somebody else
  blurred,        \* history: that has happened, or UNO was granted to somebody
                  \* with more than a card
  revived,        \* history: cards were given to somebody who had left
  typed

serverVars == <<player_num, hand_num, card_num, whose_round, turn, card>>
callVars == <<is_uno, have_uno, time_stamp, pos>>
copyVars == <<remain, card_remain, whos_turn, n_remain, uno>>
tvars == <<used, serverVars, callVars, over, up, down, playing, copyVars, moved,
           stray, misnamed, blurred, revived, typed>>

Fine(kind) == CASE kind = "draw2" -> 2 [] kind = "draw4" -> 4 [] OTHER -> 0
Taken == {s \in Seats : used[s] # None}
Playing(num) == {s \in Seats : num[s] # -1}

\* An empty seat's connection is conns[-1]: what its name is read as is nobody's.
Shown(w) == IF used[w] = None THEN None ELSE w

\* Whose name is in conns[k]: the player's with that connection.  It is nobody's
\* at this table if there is none, or may be when that player has left.
Names(k) ==
  {s \in Seats : used[s] = k}
    \cup (IF \E s \in Playing(hand_num) : used[s] = k THEN {} ELSE {None})

\* Lines to a client: what it is, whom it names, and the table.
Line(k, who) == [k |-> k, who |-> who]
Round(num, cards, who) == [k |-> "10", who |-> Shown(who), num |-> num, cards |-> cards]
Copies(n, line) == [i \in 1 .. n |-> line]

\* The cards have been dealt, "9" has been read and the first round sent.  Who
\* plays, the count and who begins are as in UnoGame.
Init ==
  /\ used \in Rosters
  /\ player_num \in Cardinality(Taken) .. ROOMCAP /\ player_num >= 2
  /\ hand_num = [s \in Seats |-> IF used[s] = None THEN -1 ELSE HAND]
  /\ card_num = NCARD - Cardinality(Taken) * HAND - 1
  /\ whose_round \in Taken \cup (Cardinality(Taken) .. player_num - 1) /\ turn = 0 /\ card \in Kinds
  /\ is_uno = [s \in Seats |-> FALSE] /\ have_uno = None
  /\ time_stamp = [s \in Seats |-> LONG_MAX] /\ pos = 0 /\ over = FALSE
  /\ up = [s \in Seats |-> <<>>]
  /\ down = [s \in Seats |->
               IF used[s] = None THEN <<>> ELSE <<Round(hand_num, card_num, whose_round)>>]
  /\ playing = Taken
  /\ remain = [s \in Seats |-> [t \in Seats |-> 0]] /\ card_remain = [s \in Seats |-> 0]
  /\ whos_turn = [s \in Seats |-> None] /\ n_remain = [s \in Seats |-> Cardinality(Taken)]
  /\ uno = [s \in Seats |-> {}]
  /\ moved = {} /\ stray = FALSE /\ misnamed = FALSE /\ blurred = FALSE /\ revived = FALSE /\ typed = 0

-----------------------------------------------------------------------------
(* The client: what is typed.                                              *)

Type(c, line) ==
  /\ c \in playing /\ typed < MaxTyped /\ typed' = typed + 1
  /\ up' = [up EXCEPT ![c] = Append(@, line)]
  /\ UNCHANGED <<used, serverVars, callVars, over, down, copyVars, stray, misnamed, blurred, revived>>
Move(c, line) ==
  /\ Type(c, line) /\ moved' = moved \cup {c} /\ UNCHANGED playing
Again(c) == c \in moved

\* A card, or "skip", or the time is over, every second: only in one's own turn.
TypeCard(c, kind) ==
  /\ whos_turn[c] = c /\ remain[c][c] > 0
  /\ Move(c, [k |-> "9", kind |-> kind, again |-> Again(c)])

\* Mutant: the time is over for everybody.
TypeSkipAnytime(c) == Move(c, [k |-> "10", again |-> Again(c)])

TypeSkip(c) ==
  /\ whos_turn[c] = c
  /\ Move(c, [k |-> "10", again |-> Again(c)])

\* "UNO", "UNO name": the client tells whether it believes it.
TypeUno(c, t) ==
  /\ Type(c, [k |-> "11", valid |-> remain[c][c] = 1, stamp |-> t])
  /\ UNCHANGED <<playing, moved>>
TypeCatch(c, v, t) ==
  /\ used[v] # None
  /\ Type(c, [k |-> "12", valid |-> remain[c][v] = 1, who |-> v, stamp |-> t])
  /\ UNCHANGED <<playing, moved>>

\* "gg": the client goes back to the lobby.
TypeGg(c) ==
  /\ Type(c, [k |-> "8"]) /\ playing' = playing \ {c} /\ UNCHANGED moved

-----------------------------------------------------------------------------
(* The client: what is read.                                               *)

\* Two cards for a player other than oneself, if the name is a player's.
Fined(c, who) ==
  IF who \in {c, None} THEN UNCHANGED <<remain, card_remain, uno>>
  ELSE /\ remain' = [remain EXCEPT ![c][who] = @ + 2]
       /\ card_remain' = [card_remain EXCEPT ![c] = @ - 2]
       /\ uno' = [uno EXCEPT ![c] = IF remain[c][who] = 1 THEN @ \ {who} ELSE @]

\* Mutant: who was dealt cards is still shown as having called.
ReadRoundKept(c, line) ==
  /\ remain' = [remain EXCEPT ![c] = line.num] /\ card_remain' = [card_remain EXCEPT ![c] = line.cards]
  /\ whos_turn' = [whos_turn EXCEPT ![c] = line.who]
  /\ moved' = moved \ {c} /\ UNCHANGED <<n_remain, playing, uno>>

\* "10": the table as the round begins.
ReadRound(c, line) ==
  /\ remain' = [remain EXCEPT ![c] = line.num] /\ card_remain' = [card_remain EXCEPT ![c] = line.cards]
  /\ whos_turn' = [whos_turn EXCEPT ![c] = line.who]
  /\ uno' = [uno EXCEPT ![c] = {s \in @ : line.num[s] < 2}]
  /\ moved' = moved \ {c} /\ UNCHANGED <<n_remain, playing>>
\* "12": one card for oneself.
ReadCard(c) ==
  /\ remain' = [remain EXCEPT ![c][c] = @ + 1] /\ card_remain' = [card_remain EXCEPT ![c] = @ - 1]
  /\ uno' = [uno EXCEPT ![c] = IF remain[c][c] = 1 THEN @ \ {c} ELSE @]
  /\ UNCHANGED <<whos_turn, n_remain, moved, playing>>
\* "7": somebody has left.
ReadLeft(c, who) ==
  n_remain' = [n_remain EXCEPT ![c] = @ - 1] /\ remain' = [remain EXCEPT ![c][who] = -1]

Read(c) ==
  LET line == Head(down[c]) IN
  /\ c \in playing /\ down[c] # <<>>
  /\ down' = [down EXCEPT ![c] = Tail(@)]
  /\ \/ line.k = "10" /\ ReadRound(c, line)
     \/ line.k = "12" /\ ReadCard(c)
     \/ /\ line.k \in {"11", "13", "19"} /\ Fined(c, line.who)
        /\ UNCHANGED <<whos_turn, n_remain, moved, playing>>
     \/ /\ line.k = "14" /\ uno' = [uno EXCEPT ![c] = @ \cup {line.who}]
        /\ UNCHANGED <<remain, card_remain, whos_turn, n_remain, moved, playing>>
     \/ /\ line.k = "7" /\ ReadLeft(c, line.who)
        /\ UNCHANGED <<card_remain, whos_turn, uno, moved, playing>>
     \/ line.k = "15" /\ playing' = playing \ {c} /\ UNCHANGED <<copyVars, moved>>
  /\ UNCHANGED <<used, serverVars, callVars, over, up, stray, misnamed, blurred, revived, typed>>

-----------------------------------------------------------------------------
(* The server: a line of player i, read in a sweep over the seats.         *)

\* SendToEveryoneInGame(), after what GiveCardToPlayer() has sent to who.
Tell(who, n, line) ==
  down' = [s \in Seats |->
    down[s] \o (IF s = who THEN Copies(n, Line("12", s)) ELSE <<>>)
            \o (IF hand_num'[s] # -1 THEN <<line>> ELSE <<>>)]
\* GiveCardToPlayer(): n cards for who.
GiveCardToPlayer(num, who, n) ==
  /\ hand_num' = [num EXCEPT ![who] = @ + n]
  /\ card_num' = card_num - n /\ card_num >= n
  /\ is_uno' = IF n > 0 THEN [is_uno EXCEPT ![who] = FALSE] ELSE is_uno
  /\ revived' = (revived \/ (n > 0 /\ num[who] = -1))

\* StartRound(), after n cards for who.
StartRound(who, n) ==
  Tell(who, n, Round(hand_num', card_num', whose_round')) /\ misnamed' = FALSE

Reads(i, k) ==
  /\ ~over /\ i >= pos /\ hand_num[i] # -1 /\ up[i] # <<>> /\ Head(up[i]).k = k
  /\ pos' = i + 1 /\ up' = [up EXCEPT ![i] = Tail(@)]
  /\ UNCHANGED <<used, playing, copyVars, moved, blurred, typed>>

\* A card that was found leaves the hand; a card sent again may not be found, and
\* the kind of the last one then counts once more.
Play(i) ==
  LET line == Head(up[i]) IN
  /\ Reads(i, "9") /\ stray' = (stray \/ line.again)
  /\ \E found \in IF stray' THEN BOOLEAN ELSE {TRUE} :
       LET kind == IF found THEN line.kind ELSE card
           num == IF found THEN [hand_num EXCEPT ![i] = @ - 1] ELSE hand_num
           next == SwitchToNextPlayer(whose_round, num, turn)
       IN  /\ card' = kind /\ over' = (num[i] <= 0)
           /\ IF over'
              THEN /\ hand_num' = num /\ Tell(i, 0, Line("15", i))
                   /\ UNCHANGED <<card_num, whose_round, turn, is_uno, misnamed, revived>>
              ELSE /\ turn' = IF kind = "reverse" THEN Reversed(turn) ELSE turn
                   /\ whose_round' =
                        CASE kind = "plain" -> next
                          [] kind = "reverse" /\ player_num > 2 ->
                               SwitchToNextPlayer(whose_round, num, turn')
                          [] kind = "reverse" /\ player_num <= 2 -> whose_round
                          [] OTHER -> Skipped(whose_round, num, turn)
                   /\ GiveCardToPlayer(num, next, Fine(kind))
                   /\ StartRound(next, Fine(kind))
  /\ UNCHANGED <<player_num, have_uno, time_stamp>>

Skip(i) ==
  /\ Reads(i, "10") /\ stray' = (stray \/ Head(up[i]).again)
  /\ GiveCardToPlayer(hand_num, whose_round, 1)
  /\ whose_round' = SwitchToNextPlayer(whose_round, hand_num, turn)
  /\ StartRound(whose_round, 1)
  /\ UNCHANGED <<player_num, turn, card, have_uno, time_stamp, over>>

\* A call the client itself holds to be wrong: "11" or "19" and two cards.
FalseCall(i, k, told) ==
  /\ Reads(i, k) /\ ~Head(up[i]).valid
  /\ GiveCardToPlayer(hand_num, i, 2) /\ Tell(i, 2, Line(told, i))
  /\ UNCHANGED <<player_num, whose_round, turn, card, have_uno, time_stamp, over, stray,
                 misnamed>>

OneCardLeft(s) == ~is_uno[s] /\ hand_num[s] = 1
Stamp(i, t) == time_stamp' = [time_stamp EXCEPT ![i] = IF @ = LONG_MAX THEN t ELSE @]
CallUno(i) ==
  /\ Reads(i, "11") /\ Head(up[i]).valid
  /\ IF OneCardLeft(i) THEN have_uno' = i /\ Stamp(i, Head(up[i]).stamp)
     ELSE UNCHANGED <<have_uno, time_stamp>>
  /\ UNCHANGED <<serverVars, is_uno, over, down, stray, misnamed, revived>>

\* The seat found for the name is the number of the connection that has it.  With
\* nobody found the code reads entry -1: i's stamp may be taken or not.
Catch(i) ==
  LET line == Head(up[i])
      found == {s \in Playing(hand_num) : line.who \in Names(s)}
               \cup (IF \E s \in Playing(hand_num) : {line.who} = Names(s) THEN {} ELSE {None})
  IN  /\ Reads(i, "12") /\ line.valid
      /\ \E h \in IF have_uno # None THEN {have_uno} ELSE found :
         \E counts \in IF h = None THEN BOOLEAN ELSE {OneCardLeft(h)} :
           /\ have_uno' = IF counts THEN h ELSE None
           /\ IF counts THEN Stamp(i, line.stamp) ELSE UNCHANGED time_stamp
      /\ UNCHANGED <<serverVars, is_uno, over, down, stray, misnamed, revived>>

\* "8": the last one left wins; if it was the leaver's turn, it passes on.
Leave(i) ==
  LET num == [hand_num EXCEPT ![i] = -1]
      left == Playing(num)
      told(s) == <<Line("7", i)>> \o
        (IF over' THEN <<Line("15", s)>>
         ELSE IF i = whose_round THEN <<Round(num, card_num, whose_round')>> ELSE <<>>)
  IN  /\ Reads(i, "8") /\ hand_num' = num
      /\ player_num' = player_num - 1 /\ over' = (player_num' < 2)
      /\ misnamed' = (misnamed /\ (i # whose_round \/ over'))
      /\ whose_round' = IF i = whose_round /\ ~over' THEN SwitchToNextPlayer(i, num, turn)
                        ELSE whose_round
      /\ down' = [s \in Seats |-> IF s \in left THEN down[s] \o told(s) ELSE down[s]]
      /\ UNCHANGED <<card_num, turn, card, is_uno, have_uno, time_stamp, stray, revived>>

\* The calls of the sweep are settled.
EndSweep ==
  LET first == Fastest(hand_num, time_stamp, have_uno) IN
  /\ ~over /\ pos > 0 /\ pos' = 0
  /\ have_uno' = None /\ time_stamp' = [s \in Seats |-> LONG_MAX]
  /\ \/ have_uno = None
        /\ UNCHANGED <<hand_num, card_num, is_uno, down, misnamed, blurred, revived>>
     \/ /\ have_uno # None /\ first = have_uno
        /\ is_uno' = [is_uno EXCEPT ![have_uno] = TRUE]
        /\ blurred' = (blurred \/ hand_num[have_uno] > 1)
        /\ UNCHANGED <<hand_num, card_num, misnamed, revived>>
        /\ Tell(have_uno, 0, Line("14", have_uno))
     \/ /\ have_uno # None /\ first # have_uno
        /\ GiveCardToPlayer(hand_num, have_uno, 2)
        /\ \E who \in Names(have_uno) :
             /\ Tell(have_uno, 2, Line("13", who))
             /\ misnamed' = (misnamed \/ who # have_uno)
             /\ blurred' = (blurred \/ who # have_uno)
  /\ UNCHANGED <<used, player_num, whose_round, turn, card, over, up, playing, copyVars, moved, stray, typed>>

Next ==
  \/ EndSweep
  \/ \E c \in Seats :
       \/ TypeSkip(c) \/ TypeGg(c) \/ Read(c)
       \/ \E kind \in Kinds : TypeCard(c, kind)
       \/ \E t \in 0 .. LONG_MAX - 1 : TypeUno(c, t) \/ \E v \in Seats : TypeCatch(c, v, t)
       \/ Play(c) \/ Skip(c) \/ FalseCall(c, "11", "11") \/ FalseCall(c, "12", "19")
       \/ CallUno(c) \/ Catch(c) \/ Leave(c)

Spec == Init /\ [][Next]_tvars

-----------------------------------------------------------------------------
UpToDate(c) == c \in playing /\ hand_num[c] # -1 /\ down[c] = <<>> /\ ~over

\* A client that has read everything shows whose turn it is and how many still
\* play as the server has it, through plays, fines, catches and leaves in any
\* order.  It also shows how many cards everybody and the pile have, but from a
\* "13" that names somebody else than who was dealt the cards until the next
\* round is sent (misnamed).  And it shows who has called UNO, unless after such a
\* line, or once the server granted a call to somebody who was dealt cards between
\* the call and the end of the sweep: then is_uno stays set for cards that come
\* later, and the client cannot know (blurred).
CopiesAgree ==
  ~revived => \A c \in Seats : UpToDate(c) =>
    /\ whos_turn[c] = Shown(whose_round)
    /\ n_remain[c] = Cardinality(Playing(hand_num))
    /\ ~misnamed => remain[c] = hand_num /\ card_remain[c] = card_num
    /\ ~blurred => \A s \in Playing(hand_num) : s \in uno[c] <=> is_uno[s]

\* The server does not test whose turn it is, and need not as long as nobody
\* makes two moves in one round: a first move arrives in the sender's turn,
\* whatever crosses it.
FirstMoveInTurn ==
  \A i \in Seats :
    /\ Len(up'[i]) < Len(up[i])
    /\ Head(up[i]).k \in {"9", "10"} /\ ~Head(up[i]).again /\ ~stray /\ ~revived
    => i = whose_round
MovesInTurn == [][FirstMoveInTurn]_tvars
=============================================================================
