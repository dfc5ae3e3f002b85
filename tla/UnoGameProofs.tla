--------------------------- MODULE UnoGameProofs ---------------------------
(***************************************************************************)
(* Proofs about the game of final_server.c and final_cli.c, as MCUnoGame   *)
(* has it.  First the server's side, UnoGame: SwitchToNextPlayer() is      *)
(* shown to find a player whenever there is one; from that, the type       *)
(* invariant and RoundIsPlayable follow with Dealing, which says whom      *)
(* GiveCardToPlayer() may be dealing to between two cards.  That the loop  *)
(* at the end of a sweep settles it for the earliest follows from whose    *)
(* time stamps are still LONG_MAX (StampsFresh).  Then a game as both      *)
(* sides see it, UnoTable.                                                 *)
(***************************************************************************)
EXTENDS MCUnoGame, FiniteSetTheorems, WellFoundedInduction, TLAPS

\* A set of numbers of steps has a smallest one.
LEMMA MinOfNaturals ==
  ASSUME NEW T, T \subseteq Nat, T # {}
  PROVE  Min(T) \in T
<1>1. \E x \in T : \A y \in T : ~ (<<y, x>> \in OpToRel(<, Nat))
  BY NatLessThanWellFounded, WFMin, Zenon
<1>2. PICK x \in T : \A y \in T : ~ (<<y, x>> \in OpToRel(<, Nat))
  BY <1>1
<1>3. \A y \in T : x <= y
  <2>1. ASSUME NEW y \in T, ~(x <= y) PROVE FALSE
    <3>1. <<y, x>> \in Nat \X Nat /\ y < x
      BY <2>1
    <3>2. <<y, x>> \in OpToRel(<, Nat)
      BY <3>1 DEF OpToRel
    <3> QED BY <1>2, <3>2, <2>1
  <2> QED BY <2>1
<1> QED BY <1>3 DEF Min

\* Counting on from a seat, modulo the number of seats, gives a seat.
LEMMA SeatsOnward ==
  ASSUME NEW w \in Seats, NEW k \in 1 .. NSEAT - 1, NEW dir
  PROVE  Onward(w, k, dir) \in Seats
BY GameAssumption DEF Seats, Onward

\* Both loops of SwitchToNextPlayer() come by every other seat.
LEMMA OnwardReaches ==
  ASSUME NEW w \in Seats, NEW s \in Seats, s # w, NEW dir
  PROVE  \E k \in 1 .. NSEAT - 1 : Onward(w, k, dir) = s
<1> DEFINE N == NSEAT
<1>0. N \in Nat \ {0, 1} /\ w \in 0 .. N - 1 /\ s \in 0 .. N - 1
  BY GameAssumption DEF Seats
<1>1. \A a \in 0 .. N - 1 : a % N = a /\ (a + N) % N = a
  BY <1>0
<1> HIDE DEF N
<1>2. CASE dir = 0 /\ s > w
  <2>1. s - w \in 1 .. N - 1 /\ w + (s - w) = s BY <1>0, <1>2
  <2> QED BY <2>1, <1>1, <1>0, <1>2 DEF Onward, N
<1>3. CASE dir = 0 /\ s < w
  <2>1. s - w + N \in 1 .. N - 1 /\ w + (s - w + N) = s + N BY <1>0, <1>3
  <2> QED BY <2>1, <1>1, <1>0, <1>3 DEF Onward, N
<1>4. CASE dir # 0 /\ s > w
  <2>1. w - s + N \in 1 .. N - 1 /\ w + N - (w - s + N) = s BY <1>0, <1>4
  <2> QED BY <2>1, <1>1, <1>0, <1>4 DEF Onward, N
<1>5. CASE dir # 0 /\ s < w
  <2>1. w - s \in 1 .. N - 1 /\ w + N - (w - s) = s + N BY <1>0, <1>5
  <2> QED BY <2>1, <1>1, <1>0, <1>5 DEF Onward, N
<1> QED BY <1>0, <1>2, <1>3, <1>4, <1>5

\* As long as anybody plays, the turn passes to somebody who plays.
LEMMA SwitchFindsPlayer ==
  ASSUME NEW w \in Seats, NEW num \in [Seats -> Int], NEW dir
  PROVE  /\ SwitchToNextPlayer(w, num, dir) \in Seats
         /\ (\E s \in Seats : num[s] # -1) => num[SwitchToNextPlayer(w, num, dir)] # -1
<1> DEFINE steps == {k \in 1 .. NSEAT - 1 : num[Onward(w, k, dir)] # -1}
<1>1. CASE steps = {}
  <2>1. SwitchToNextPlayer(w, num, dir) = w
    BY <1>1 DEF SwitchToNextPlayer
  <2>2. ASSUME NEW s \in Seats, num[s] # -1, s # w PROVE FALSE
    <3>1. PICK k \in 1 .. NSEAT - 1 : Onward(w, k, dir) = s
      BY <2>2, OnwardReaches
    <3> QED BY <3>1, <2>2, <1>1
  <2> QED BY <2>1, <2>2
<1>2. CASE steps # {}
  <2>1. steps \subseteq Nat
    BY GameAssumption
  <2>2. Min(steps) \in steps
    BY <1>2, <2>1, MinOfNaturals
  <2>3. SwitchToNextPlayer(w, num, dir) = Onward(w, Min(steps), dir)
    BY <1>2 DEF SwitchToNextPlayer
  <2>4. Onward(w, Min(steps), dir) \in Seats
    BY <2>2, SeatsOnward
  <2> QED BY <2>2, <2>3, <2>4
<1> QED BY <1>1, <1>2

\* The set of players is finite, and a set of seats that holds two different
\* ones has at least two members.
LEMMA SeatsFinite ==
  ASSUME NEW S \in SUBSET Seats
  PROVE  /\ IsFiniteSet(S) /\ Cardinality(S) \in 0 .. NSEAT
         /\ \A s, t \in S : s # t => Cardinality(S) >= 2
         /\ Cardinality(S) >= 1 => S # {}
<1>1. IsFiniteSet(Seats) /\ Cardinality(Seats) = NSEAT
  BY FS_Interval, GameAssumption DEF Seats
<1>2. IsFiniteSet(S) /\ Cardinality(S) \in Nat /\ Cardinality(S) <= NSEAT
  BY <1>1, FS_Subset, FS_CardinalityType
<1>3. ASSUME NEW s \in S, NEW t \in S, s # t PROVE Cardinality(S) >= 2
  <2>1. IsFiniteSet(S \ {s}) /\ Cardinality(S \ {s}) = Cardinality(S) - 1
    BY <1>2, FS_RemoveElement
  <2>2. IsFiniteSet((S \ {s}) \ {t}) /\ Cardinality((S \ {s}) \ {t}) = Cardinality(S) - 2
    BY <1>2, <2>1, <1>3, FS_RemoveElement
  <2>3. Cardinality((S \ {s}) \ {t}) \in Nat
    BY <2>2, FS_CardinalityType
  <2> QED BY <1>2, <2>2, <2>3
<1> QED BY <1>2, <1>3, FS_EmptySet, GameAssumption

-----------------------------------------------------------------------------
(* The inductive invariant.                                                *)

\* hand_num is -1 or a count, and GiveCardToPlayer() has somebody to give to.
Dealing ==
  /\ \A s \in Seats : hand_num[s] >= -1
  /\ give.left > 0 => give.to \in Seats
  /\ give.left > 0 /\ ~revived => hand_num[give.to] # -1
  /\ ~over => player_num >= 2

IInv == TypeOK /\ Dealing /\ RoundIsPlayable

\* The deal of GameStart() establishes the invariant.
LEMMA InitIInv == Init => IInv
<1> SUFFICES ASSUME Init PROVE IInv
  OBVIOUS
<1> USE GameAssumption DEF Init, None, Nothing
<1>1. Playing = Taken
  BY DEF Playing, Taken, Seats
<1>2. Taken \in SUBSET Seats /\ Cardinality(Taken) \in 0 .. NSEAT
  <2>1. Taken \in SUBSET Seats
    BY DEF Taken
  <2> HIDE DEF Init
  <2> QED BY <2>1, SeatsFinite
<1>3. /\ player_num \in 0 .. NSEAT /\ player_num >= 2 /\ waiting \in 0 .. ROOMCAP
      /\ player_num = Cardinality(Taken) + waiting
  BY <1>2
<1>9. whose_round \in Seats /\ (whose_round \in Taken \/ waiting > 0)
  <2>1. whose_round \in Taken \/ whose_round \in Cardinality(Taken) .. player_num - 1
    OBVIOUS
  <2> HIDE DEF Init
  <2>2. CASE whose_round \in Taken
    BY <2>2, <1>2
  <2>3. CASE whose_round \in Cardinality(Taken) .. player_num - 1
    <3>1. /\ whose_round \in Int /\ whose_round >= Cardinality(Taken)
          /\ whose_round <= player_num - 1
      BY <2>3, <1>2, <1>3
    <3>2. waiting > 0
      BY <3>1, <1>2, <1>3, GameAssumption
    <3> QED BY <3>1, <3>2, <1>2, <1>3, GameAssumption DEF Seats
  <2> QED BY <2>1, <2>2, <2>3
<1>4. hand_num \in [Seats -> Int] /\ \A r \in Seats : hand_num[r] >= -1
  OBVIOUS
<1>5. pile \subseteq Cards /\ hand \in [Seats -> SUBSET Cards]
  OBVIOUS
<1>6. TypeOK
  <2>1. give \in [to : Seats \cup {None}, left : 0 .. 4, then : BOOLEAN]
    OBVIOUS
  <2>2. is_uno \in [Seats -> BOOLEAN] /\ have_uno \in Seats \cup {None}
    OBVIOUS
  <2>3. time_stamp \in [Seats -> 0 .. LONG_MAX]
    OBVIOUS
  <2>4. used \in Rosters /\ card_id \in Cards \cup {None} /\ turn \in {0, 1}
    OBVIOUS
  <2>5. pos \in 0 .. NSEAT /\ reshuffled \in 0 .. MaxReshuffle
    OBVIOUS
  <2>6. over \in BOOLEAN /\ revived \in BOOLEAN
    BY Zenon
  <2> QED BY <1>3, <1>4, <1>5, <1>9, <2>1, <2>2, <2>3, <2>4, <2>5, <2>6 DEF TypeOK
<1>7. RoundIsPlayable
  BY <1>1, <1>3, <1>9 DEF RoundIsPlayable
<1> QED BY <1>3, <1>4, <1>6, <1>7 DEF IInv, Dealing

\* A step that leaves hand_num alone leaves the players alone.
LEMMA SamePlayers ==
  ASSUME IInv, UNCHANGED <<seating, hand_num, player_num, over>>,
         ~revived' => ~revived,
         ~revived => hand_num[whose_round'] # -1 \/ whose_round' = whose_round,
         whose_round' \in Seats
  PROVE  RoundIsPlayable'
<1>1. Playing' = Playing /\ Taken' = Taken
  BY DEF Playing, Taken, seating
<1> QED BY <1>1 DEF IInv, RoundIsPlayable, Playing, seating

\* Making the pile again in GiveCardToPlayer() keeps the invariant.
LEMMA ReshuffleKeeps == IInv /\ Reshuffle => IInv'
<1> SUFFICES ASSUME IInv, Reshuffle PROVE IInv'
  OBVIOUS
<1> DEFINE adopted == UNION {hand[s] : s \in Playing}
<1>1. adopted \in SUBSET Cards
  BY DEF IInv, TypeOK, Playing
<1>2. Cardinality(adopted) \in Nat
  <2>1. IsFiniteSet(Cards)
    BY FS_Interval, DeckAssumption DEF Cards
  <2> HIDE DEF adopted
  <2> QED BY <1>1, <2>1, FS_Subset, FS_CardinalityType
<1>3. pile' \subseteq Cards
  <2>1. pile' = 0 .. NCARD - Cardinality(adopted) - 1
    BY DEF Reshuffle
  <2> HIDE DEF adopted
  <2> QED BY <2>1, <1>2, DeckAssumption DEF Cards
<1>4. TypeOK'
  <2>1. UNCHANGED <<used, waiting, hand, hand_num, card_id, whose_round, turn, player_num,
                    is_uno, have_uno, time_stamp, pos, give, over, revived>>
    BY DEF Reshuffle, turnVars, callVars, seating
  <2>2. reshuffled' \in 0 .. MaxReshuffle
    BY GameAssumption DEF IInv, TypeOK, Reshuffle
  <2> HIDE DEF adopted
  <2> QED BY <1>3, <2>1, <2>2 DEF IInv, TypeOK
<1>5. Dealing'
  BY DEF IInv, Dealing, Reshuffle, turnVars
<1>6. RoundIsPlayable'
  BY SamePlayers DEF IInv, TypeOK, Reshuffle, turnVars
<1> QED BY <1>4, <1>5, <1>6 DEF IInv

\* Giving one card in GiveCardToPlayer() keeps the invariant.
LEMMA DrawKeeps == ASSUME NEW c, IInv, Draw(c) PROVE IInv'
<1> USE DEF None, Nothing, history
<1>1. give.to \in Seats /\ give.left \in 1 .. 4 /\ give.then \in BOOLEAN /\ c \in Cards
  BY DEF IInv, TypeOK, Dealing, Draw
<1>2. hand_num' \in [Seats -> Int] /\ hand_num'[give.to] = hand_num[give.to] + 1
  BY <1>1 DEF IInv, TypeOK, Draw
<1>3. /\ \A s \in Seats : hand_num'[s] >= -1
      /\ hand_num'[give.to] >= 0
      /\ \A s \in Seats \ {give.to} : hand_num'[s] = hand_num[s]
  BY <1>1, <1>2 DEF IInv, TypeOK, Dealing, Draw
<1>4. /\ SwitchToNextPlayer(whose_round, hand_num', turn) \in Seats
      /\ hand_num'[SwitchToNextPlayer(whose_round, hand_num', turn)] # -1
  BY <1>1, <1>2, <1>3, SwitchFindsPlayer DEF IInv, TypeOK
<1>5. whose_round' \in Seats
  BY <1>4 DEF Draw, IInv, TypeOK
<1>6. give' \in [to : Seats \cup {None}, left : 0 .. 4, then : BOOLEAN]
  BY <1>1 DEF Draw, IInv, TypeOK
<1>7. TypeOK'
  <2>1. hand' \in [Seats -> SUBSET Cards] /\ pile' \subseteq Cards
    BY <1>1 DEF IInv, TypeOK, Draw
  <2>2. is_uno' \in [Seats -> BOOLEAN]
    BY DEF IInv, TypeOK, Draw
  <2> QED BY <1>2, <1>5, <1>6, <2>1, <2>2 DEF IInv, TypeOK, Draw, seating
<1>8. Dealing'
  BY <1>1, <1>3 DEF IInv, TypeOK, Dealing, Draw
<1>9. RoundIsPlayable'
  <2> SUFFICES ASSUME ~over', ~revived' PROVE RoundIsPlayable'
    BY DEF RoundIsPlayable
  <2>1. hand_num[give.to] # -1 /\ ~over /\ ~revived
    BY DEF IInv, Dealing, Draw
  <2>2. Playing' = Playing /\ Taken' = Taken /\ UNCHANGED <<player_num, waiting>>
    BY <1>1, <1>3, <2>1 DEF Playing, Taken, Draw, seating
  <2>3. whose_round' \in Playing' \/ whose_round' = whose_round
    BY <1>4, <1>5 DEF Playing, Draw
  <2> QED BY <2>1, <2>2, <2>3 DEF IInv, RoundIsPlayable
<1> QED BY <1>7, <1>8, <1>9 DEF IInv

\* Reading a line moves the sweep on.
LEMMA ReadsFrom ==
  ASSUME NEW i \in Seats, IInv, Reads(i)
  PROVE  pos' \in 0 .. NSEAT /\ i \in Playing /\ ~over /\ give.left = 0 /\ player_num >= 2
BY GameAssumption DEF Reads, IInv, Dealing, TypeOK, Seats

\* The branch of GameStart() for who leaves keeps the invariant.
LEMMA LeaveKeeps == ASSUME NEW i \in Seats, IInv, Leave(i) PROVE IInv'
<1>1. pos' \in 0 .. NSEAT /\ i \in Playing /\ ~over /\ give.left = 0 /\ player_num >= 2
  BY ReadsFrom DEF Leave
<1>2. /\ hand_num' \in [Seats -> Int] /\ hand_num'[i] = -1
      /\ \A s \in Seats : hand_num'[s] >= -1
      /\ \A s \in Seats \ {i} : hand_num'[s] = hand_num[s]
  BY DEF IInv, TypeOK, Dealing, Leave
<1>3. SwitchToNextPlayer(i, hand_num', turn) \in Seats
  BY <1>2, SwitchFindsPlayer
<1>8. over' \in BOOLEAN /\ (~over' => player_num' >= 2)
  <2>1. player_num' \in Int /\ (player_num' < 2) \in BOOLEAN
    BY DEF Leave, IInv, TypeOK
  <2>2. over' = (player_num' < 2)
    BY DEF Leave
  <2>3. over' \in BOOLEAN /\ (~over' => ~(player_num' < 2))
    BY <2>1, <2>2, Zenon
  <2> QED BY <2>1, <2>3
<1>4. TypeOK'
  <2>2. player_num' \in 0 .. NSEAT
    BY <1>1, GameAssumption DEF Leave, IInv, TypeOK
  <2> QED BY <1>1, <1>2, <1>3, <1>8, <2>2 DEF IInv, TypeOK, Leave, callVars, history, seating
<1>5. Dealing'
  BY <1>1, <1>2, <1>8 DEF IInv, TypeOK, Dealing, Leave, history
<1>6. RoundIsPlayable'
  <2> SUFFICES ASSUME ~over', ~revived' PROVE RoundIsPlayable'
    BY DEF RoundIsPlayable
  <2>1. /\ player_num = Cardinality(Playing) + waiting
        /\ \/ whose_round \in Playing
           \/ waiting > 0 /\ (whose_round \notin Taken \/ Playing = {})
    BY <1>1 DEF IInv, RoundIsPlayable, Leave, history
  <2>2. Playing' = Playing \ {i} /\ Taken' = Taken /\ waiting' = waiting
    BY <1>2 DEF Playing, Taken, Leave, seating
  <2>3. IsFiniteSet(Playing) /\ Playing' \in SUBSET Seats /\ Cardinality(Playing) \in Int
    BY SeatsFinite DEF Playing
  <2>4. Cardinality(Playing') = Cardinality(Playing) - 1
    BY <1>1, <2>2, <2>3, FS_RemoveElement
  <2>5. player_num' = player_num - 1 /\ player_num' >= 2
    BY <1>8 DEF Leave
  <2>6. waiting \in Nat /\ (waiting = 0 => Playing' # {})
    <3>1. waiting \in Nat
      BY GameAssumption DEF IInv, TypeOK
    <3> QED BY <3>1, <2>1, <2>3, <2>4, <2>5, SeatsFinite
  <2>7. Playing' # {} => SwitchToNextPlayer(i, hand_num', turn) \in Playing'
    BY <1>2, SwitchFindsPlayer DEF Playing
  <2>8. whose_round' = IF i = whose_round THEN SwitchToNextPlayer(i, hand_num', turn)
                       ELSE whose_round
    BY DEF Leave
  <2>9. \/ whose_round' \in Playing'
        \/ waiting > 0 /\ (whose_round' \notin Taken \/ Playing' = {})
    BY <1>1, <2>1, <2>2, <2>6, <2>7, <2>8
  <2>10. player_num' = Cardinality(Playing') + waiting
    BY <2>1, <2>3, <2>4, <2>5, <2>6
  <2> QED BY <2>2, <2>5, <2>9, <2>10 DEF RoundIsPlayable
<1> QED BY <1>4, <1>5, <1>6 DEF IInv

\* What a card does keeps the turn with the players and gives to a player.
LEMMA EffectKeeps ==
  ASSUME IInv, NEW card, Effect(card), hand_num' \in [Seats -> Int],
         Playing' = Playing, Playing # {}
  PROVE  /\ whose_round' \in Seats /\ turn' \in {0, 1}
         /\ give' \in [to : Seats \cup {None}, left : 0 .. 4, then : BOOLEAN]
         /\ give'.left > 0 => give'.to \in Seats
         /\ revived' \in BOOLEAN /\ (~revived' => ~revived)
         /\ give'.left > 0 /\ ~revived' => hand_num[give'.to] # -1
         /\ whose_round' \in Playing \/ whose_round' = whose_round
<1> DEFINE next == SwitchToNextPlayer(whose_round, hand_num', turn)
           back == SwitchToNextPlayer(whose_round, hand_num', Reversed(turn))
           skip == SwitchToNextPlayer(next, hand_num', turn)
<1>1. whose_round \in Seats /\ turn \in {0, 1} /\ revived \in BOOLEAN
  BY DEF IInv, TypeOK
<1>2. Reversed(turn) \in {0, 1}
  BY <1>1 DEF Reversed
<1>3. next \in Seats /\ back \in Seats
  BY <1>1, SwitchFindsPlayer
<1>4. skip \in Seats
  BY <1>3, SwitchFindsPlayer
<1>5. \A s \in Seats : s \in Playing <=> hand_num'[s] # -1
  BY DEF Playing
<1>10. \E s \in Seats : hand_num'[s] # -1
  BY <1>5 DEF Playing
<1>6. next \in Playing /\ back \in Playing /\ skip \in Playing
  <2>1. hand_num'[next] # -1 /\ hand_num'[back] # -1
    BY <1>1, <1>10, SwitchFindsPlayer
  <2>2. hand_num'[skip] # -1
    BY <1>3, <1>10, SwitchFindsPlayer
  <2> QED BY <2>1, <2>2, <1>3, <1>4, <1>5
<1> HIDE DEF next, back, skip
<1>7. ASSUME whose_round' = next, turn' = turn, NEW n \in {2, 4}, Give(next, n, TRUE)
      PROVE  /\ whose_round' \in Seats /\ turn' \in {0, 1}
             /\ give' \in [to : Seats \cup {None}, left : 0 .. 4, then : BOOLEAN]
             /\ give'.left > 0 => give'.to \in Seats
             /\ revived' \in BOOLEAN /\ (~revived' => ~revived)
             /\ give'.left > 0 /\ ~revived' => hand_num[give'.to] # -1
             /\ whose_round' \in Playing \/ whose_round' = whose_round
  <2>1. revived' \in BOOLEAN /\ (~revived' => ~revived /\ hand_num[next] # -1)
    BY <1>7, Zenon DEF Give
  <2> QED BY <2>1, <1>7, <1>1, <1>3, <1>6 DEF Give
<1>8. ASSUME whose_round' \in {next, back, skip, whose_round}, turn' \in {0, 1},
             give' = Nothing, revived' = revived
      PROVE  /\ whose_round' \in Seats /\ turn' \in {0, 1}
             /\ give' \in [to : Seats \cup {None}, left : 0 .. 4, then : BOOLEAN]
             /\ give'.left > 0 => give'.to \in Seats
             /\ revived' \in BOOLEAN /\ (~revived' => ~revived)
             /\ give'.left > 0 /\ ~revived' => hand_num[give'.to] # -1
             /\ whose_round' \in Playing \/ whose_round' = whose_round
  BY <1>8, <1>1, <1>3, <1>4, <1>6 DEF Nothing, None
<1>9. \/ \E n \in {2, 4} : whose_round' = next /\ turn' = turn /\ Give(next, n, TRUE)
      \/ /\ whose_round' \in {next, back, skip, whose_round} /\ turn' \in {0, 1}
         /\ give' = Nothing /\ revived' = revived
  BY <1>1, <1>2, Zenon DEF Effect, Skipped, next, back, skip
<1> QED BY <1>7, <1>8, <1>9, Zenon

\* The '9' branch keeps the invariant.
LEMMA PlayKeeps ==
  ASSUME NEW i \in Seats, NEW c \in Cards, IInv, Play(i, c) PROVE IInv'
<1>1. pos' \in 0 .. NSEAT /\ i \in Playing /\ ~over /\ give.left = 0 /\ player_num >= 2
  BY ReadsFrom DEF Play
<1>2. /\ hand' \in [Seats -> SUBSET Cards] /\ card_id' \in Cards \cup {None}
      /\ hand_num' \in [Seats -> Int]
      /\ hand_num'[i] = hand_num[i] \/ hand_num'[i] = hand_num[i] - 1
      /\ \A s \in Seats \ {i} : hand_num'[s] = hand_num[s]
  <2>1. CASE Found(i, c)
    BY <2>1 DEF Found, IInv, TypeOK
  <2>2. CASE hand' = hand /\ hand_num' = hand_num /\ card_id' \in IF card_id = None THEN Cards ELSE {card_id}
    BY <2>2 DEF IInv, TypeOK
  <2> QED BY <2>1, <2>2 DEF Play
<1>3. hand_num[i] >= 0 /\ \A s \in Seats : hand_num'[s] >= -1
  BY <1>1, <1>2 DEF IInv, TypeOK, Dealing, Playing
<1>4. over' \in BOOLEAN /\ (~over' => hand_num'[i] > 0)
  <2>1. (hand_num'[i] <= 0) \in BOOLEAN
    BY <1>2
  <2>2. over' = (hand_num'[i] <= 0)
    BY DEF Play
  <2>3. over' \in BOOLEAN /\ (~over' => ~(hand_num'[i] <= 0))
    BY <2>1, <2>2, Zenon
  <2> QED BY <1>2, <2>3
<1> DEFINE Goal == /\ whose_round' \in Seats /\ turn' \in {0, 1}
                   /\ give' \in [to : Seats \cup {None}, left : 0 .. 4, then : BOOLEAN]
                   /\ revived' \in BOOLEAN /\ Dealing' /\ RoundIsPlayable'
<1>5. ASSUME over' PROVE Goal
  <2>1. /\ whose_round' = whose_round /\ turn' = turn /\ give' = give
        /\ revived' = revived
    BY <1>5 DEF Play, turnVars
  <2>2. RoundIsPlayable'
    BY <1>5 DEF RoundIsPlayable
  <2>3. Dealing'
    BY <1>1, <1>3, <1>5, <2>1 DEF Dealing
  <2> QED BY <2>1, <2>2, <2>3 DEF IInv, TypeOK
<1>6. ASSUME ~over' PROVE Goal
  <2>1. Playing' = Playing /\ Taken' = Taken /\ waiting' = waiting
    BY <1>2, <1>3, <1>4, <1>6 DEF Playing, Taken, Play, seating
  <2>2. Effect(card_id') /\ player_num' = player_num
    BY <1>6 DEF Play
  <2>3. /\ whose_round' \in Seats /\ turn' \in {0, 1}
        /\ give' \in [to : Seats \cup {None}, left : 0 .. 4, then : BOOLEAN]
        /\ give'.left > 0 => give'.to \in Seats
        /\ revived' \in BOOLEAN /\ (~revived' => ~revived)
        /\ give'.left > 0 /\ ~revived' => hand_num[give'.to] # -1
        /\ whose_round' \in Playing \/ whose_round' = whose_round
    BY <1>1, <1>2, <2>1, <2>2, EffectKeeps
  <2>4. give'.left > 0 /\ ~revived' => hand_num'[give'.to] # -1
    BY <2>1, <2>3 DEF Playing
  <2>5. Dealing'
    BY <1>1, <1>3, <2>2, <2>3, <2>4 DEF Dealing
  <2>6. RoundIsPlayable'
    BY <1>1, <2>1, <2>2, <2>3 DEF RoundIsPlayable, IInv
  <2> QED BY <2>3, <2>5, <2>6
<1>7. Goal
  BY <1>4, <1>5, <1>6
<1>8. TypeOK'
  BY <1>1, <1>2, <1>4, <1>7 DEF IInv, TypeOK, Play, callVars, seating
<1> QED BY <1>7, <1>8 DEF IInv

\* The steps that only start to give cards: who draws is a player, or
\* somebody who has left is back in the game.
LEMMA GiveKeeps ==
  ASSUME NEW to \in Seats, NEW n \in 1 .. 4, NEW then \in BOOLEAN,
         IInv, ~over, Give(to, n, then),
         UNCHANGED <<seating, hand_num, player_num, over, whose_round>>
  PROVE  /\ give' \in [to : Seats \cup {None}, left : 0 .. 4, then : BOOLEAN]
         /\ revived' \in BOOLEAN /\ Dealing' /\ RoundIsPlayable'
<1>1. give' = [to |-> to, left |-> n, then |-> then]
  BY DEF Give
<1>2. revived' \in BOOLEAN /\ (~revived' => ~revived /\ hand_num[to] # -1)
  BY Zenon DEF Give
<1>3. Dealing'
  BY <1>1, <1>2 DEF Dealing, IInv
<1>4. RoundIsPlayable'
  BY <1>2, SamePlayers DEF IInv, TypeOK
<1> QED BY <1>1, <1>2, <1>3, <1>4

\* The '10' branch keeps the invariant.
LEMMA SkipKeeps == ASSUME NEW i \in Seats, IInv, Skip(i) PROVE IInv'
<1>1. pos' \in 0 .. NSEAT /\ ~over /\ whose_round \in Seats
  BY ReadsFrom DEF Skip, IInv, TypeOK
<1>2. /\ give' \in [to : Seats \cup {None}, left : 0 .. 4, then : BOOLEAN]
      /\ revived' \in BOOLEAN /\ Dealing' /\ RoundIsPlayable'
  <2>1. Give(whose_round, 1, TRUE) /\ TRUE \in BOOLEAN
    BY Zenon DEF Skip
  <2>2. 1 \in 1 .. 4 /\ UNCHANGED <<seating, hand_num, player_num, over, whose_round>>
    BY DEF Skip, cardVars, turnVars
  <2> QED BY <1>1, <2>1, <2>2, GiveKeeps, Zenon
<1> QED BY <1>1, <1>2 DEF Skip, IInv, TypeOK, cardVars, turnVars, callVars, seating

\* The fine for an invalid UNO call keeps the invariant.
LEMMA FalseCallKeeps == ASSUME NEW i \in Seats, IInv, FalseCall(i) PROVE IInv'
<1>1. pos' \in 0 .. NSEAT /\ ~over
  BY ReadsFrom DEF FalseCall
<1>2. /\ give' \in [to : Seats \cup {None}, left : 0 .. 4, then : BOOLEAN]
      /\ revived' \in BOOLEAN /\ Dealing' /\ RoundIsPlayable'
  <2>1. Give(i, 2, FALSE) /\ FALSE \in BOOLEAN
    BY Zenon DEF FalseCall
  <2>2. 2 \in 1 .. 4 /\ UNCHANGED <<seating, hand_num, player_num, over, whose_round>>
    BY DEF FalseCall, cardVars, turnVars
  <2> QED BY <1>1, <2>1, <2>2, GiveKeeps, Zenon
<1> QED BY <1>1, <1>2 DEF FalseCall, IInv, TypeOK, cardVars, turnVars, callVars, seating

\* Noting a valid UNO call or catch keeps the invariant.
LEMMA CallsKeep ==
  ASSUME NEW i \in Seats, NEW t \in 0 .. LONG_MAX - 1, IInv,
         CallUno(i, t) \/ \E v \in Seats : Catch(i, v, t)
  PROVE  IInv'
<1>1. Reads(i)
  BY DEF CallUno, Catch
<1>2. pos' \in 0 .. NSEAT
  BY <1>1, ReadsFrom
<1>3. UNCHANGED <<seating, cardVars, card_id, turnVars, player_num, is_uno, give, over, history>>
  BY DEF CallUno, Catch
<1>4. time_stamp' \in [Seats -> 0 .. LONG_MAX]
  <2>1. time_stamp' = time_stamp \/ Stamp(i, t)
    BY DEF CallUno, Catch
  <2> QED BY <2>1, GameAssumption DEF Stamp, IInv, TypeOK
<1>5. have_uno' \in Seats \cup {None}
  BY DEF CallUno, Catch, Named, Playing, IInv, TypeOK
<1>6. RoundIsPlayable'
  BY <1>3, SamePlayers DEF IInv, TypeOK, cardVars, turnVars, history
<1>7. Dealing'
  BY <1>3 DEF IInv, Dealing, cardVars, history
<1> QED BY <1>2, <1>3, <1>4, <1>5, <1>6, <1>7
        DEF IInv, TypeOK, cardVars, turnVars, history, seating

\* Settling the UNO calls of a sweep keeps the invariant.
LEMMA EndSweepKeeps == IInv /\ EndSweep => IInv'
<1> SUFFICES ASSUME IInv, EndSweep PROVE IInv'
  OBVIOUS
<1>1. /\ UNCHANGED <<seating, cardVars, card_id, turnVars, player_num, over, reshuffled>>
      /\ ~over /\ have_uno' = None /\ pos' = 0
      /\ time_stamp' = [s \in Seats |-> LONG_MAX]
  BY DEF EndSweep
<1>2. /\ give' \in [to : Seats \cup {None}, left : 0 .. 4, then : BOOLEAN]
      /\ revived' \in BOOLEAN /\ Dealing' /\ RoundIsPlayable'
      /\ is_uno' \in [Seats -> BOOLEAN]
  <2>1. CASE give' = give /\ revived' = revived
    <3>1. is_uno' \in [Seats -> BOOLEAN]
      BY DEF EndSweep, IInv, TypeOK
    <3>2. Dealing'
      BY <1>1, <2>1 DEF Dealing, IInv, cardVars
    <3>3. RoundIsPlayable'
      BY <1>1, <2>1, SamePlayers DEF IInv, TypeOK, cardVars, turnVars
    <3> QED BY <2>1, <3>1, <3>2, <3>3 DEF IInv, TypeOK
  <2>2. CASE have_uno # None /\ Give(have_uno, 2, FALSE) /\ is_uno' = is_uno
    <3>1. have_uno \in Seats
      BY <2>2 DEF IInv, TypeOK
    <3>2. /\ 2 \in 1 .. 4 /\ FALSE \in BOOLEAN
          /\ UNCHANGED <<seating, hand_num, player_num, over, whose_round>>
      BY <1>1 DEF cardVars, turnVars
    <3>3. is_uno' \in [Seats -> BOOLEAN]
      BY <2>2 DEF IInv, TypeOK
    <3> QED BY <1>1, <2>2, <3>1, <3>2, <3>3, GiveKeeps, Zenon
  <2> QED BY <2>1, <2>2 DEF EndSweep
<1> QED BY <1>1, <1>2, GameAssumption
        DEF IInv, TypeOK, cardVars, turnVars, seating

\* Every step of the game keeps the invariant.
LEMMA StepKeeps == IInv /\ [Next]_vars => IInv'
<1> SUFFICES ASSUME IInv, [Next]_vars PROVE IInv'
  OBVIOUS
<1>1. CASE Reshuffle
  BY <1>1, ReshuffleKeeps
<1>2. CASE EndSweep
  BY <1>2, EndSweepKeeps
<1>3. ASSUME NEW c \in Cards, Draw(c) PROVE IInv'
  BY <1>3, DrawKeeps
<1>4. ASSUME NEW i \in Seats, Leave(i) PROVE IInv'
  BY <1>4, LeaveKeeps
<1>5. ASSUME NEW i \in Seats, Skip(i) PROVE IInv'
  BY <1>5, SkipKeeps
<1>6. ASSUME NEW i \in Seats, FalseCall(i) PROVE IInv'
  BY <1>6, FalseCallKeeps
<1>7. ASSUME NEW i \in Seats, NEW c \in Cards, Play(i, c) PROVE IInv'
  BY <1>7, PlayKeeps
<1>8. ASSUME NEW i \in Seats, NEW t \in 0 .. LONG_MAX - 1,
             CallUno(i, t) \/ \E v \in Seats : Catch(i, v, t)
      PROVE IInv'
  BY <1>8, CallsKeep
<1>9. CASE UNCHANGED vars
  <2>1. /\ UNCHANGED <<seating, hand, hand_num, pile, card_id, whose_round, turn, player_num>>
        /\ UNCHANGED <<is_uno, have_uno, time_stamp, pos, give, over, reshuffled, revived>>
    BY <1>9 DEF vars, cardVars, turnVars, callVars, history
  <2> QED BY <2>1 DEF IInv, TypeOK, Dealing, RoundIsPlayable, Playing, Taken, seating
<1> QED BY <1>1, <1>2, <1>3, <1>4, <1>5, <1>6, <1>7, <1>8, <1>9 DEF Next

\* Every variable of GameStart() keeps its range, for every number of seats and
\* every deck.
THEOREM TypeCorrect == Spec => []TypeOK
<1>1. IInv => TypeOK
  BY DEF IInv
<1> QED BY <1>1, InitIInv, StepKeeps, PTL DEF Spec

\* player_num counts the players, and the joiners that were not admitted, and the
\* turn is with a player after every leave, skip, reverse and draw of GameStart(),
\* for every number of seats; only with such joiners may it be an empty seat's, or
\* a game go on in which nobody plays.
THEOREM TurnStaysWithPlayers == Spec => []RoundIsPlayable
<1>1. IInv => RoundIsPlayable
  BY DEF IInv
<1> QED BY <1>1, InitIInv, StepKeeps, PTL DEF Spec

-----------------------------------------------------------------------------
(* Cards are in one place.                                                 *)

\* A hand is finite.
LEMMA HandsFinite ==
  ASSUME NEW S \in SUBSET Cards
  PROVE  IsFiniteSet(S) /\ Cardinality(S) \in Nat
<1>1. IsFiniteSet(Cards)
  BY FS_Interval, DeckAssumption DEF Cards
<1> QED BY <1>1, FS_Subset, FS_CardinalityType

\* Giving one card moves it from the pile to one hand.
LEMMA DrawKeepsCards ==
  ASSUME NEW c \in Cards, IInv, CardsInOnePlace, Draw(c) PROVE CardsInOnePlace'
<1> SUFFICES ASSUME reshuffled = 0 PROVE
      /\ \A s, t \in Seats : s # t => hand'[s] \cap hand'[t] = {}
      /\ \A s \in Seats : hand'[s] \cap pile' = {}
      /\ ~revived => \A s \in Playing' : hand_num'[s] = Cardinality(hand'[s])
  BY DEF CardsInOnePlace, Draw, history
<1>1. /\ give.to \in Seats /\ c \in pile /\ hand \in [Seats -> SUBSET Cards]
      /\ hand_num \in [Seats -> Int] /\ (~revived => give.to \in Playing)
  BY DEF IInv, TypeOK, Dealing, Draw, Playing
<1>2. /\ hand'[give.to] = hand[give.to] \cup {c} /\ hand_num'[give.to] = hand_num[give.to] + 1
      /\ \A s \in Seats \ {give.to} : hand'[s] = hand[s] /\ hand_num'[s] = hand_num[s]
      /\ pile' = pile \ {c}
  BY <1>1 DEF Draw
<1>3. /\ \A s, t \in Seats : s # t => hand[s] \cap hand[t] = {}
      /\ \A s \in Seats : hand[s] \cap pile = {}
      /\ ~revived => \A s \in Playing : hand_num[s] = Cardinality(hand[s])
  BY DEF CardsInOnePlace
<1>4. c \notin hand[give.to] /\ \A s \in Seats : c \notin hand[s]
  BY <1>1, <1>3
<1>5. Cardinality(hand[give.to] \cup {c}) = Cardinality(hand[give.to]) + 1
  BY <1>1, <1>4, HandsFinite, FS_AddElement
<1>6. ASSUME ~revived, NEW s \in Playing' PROVE hand_num'[s] = Cardinality(hand'[s])
  <2>1. CASE s = give.to
    BY <1>1, <1>2, <1>3, <1>5, <1>6, <2>1
  <2>2. CASE s # give.to
    BY <1>1, <1>2, <1>3, <1>6, <2>2 DEF Playing
  <2> QED BY <2>1, <2>2
<1>7. \A s, t \in Seats : s # t => hand'[s] \cap hand'[t] = {}
  BY <1>1, <1>2, <1>3, <1>4
<1>8. \A s \in Seats : hand'[s] \cap pile' = {}
  BY <1>1, <1>2, <1>3
<1> QED BY <1>6, <1>7, <1>8

\* Playing a card takes it from the one hand it is in.
LEMMA PlayKeepsCards ==
  ASSUME NEW i \in Seats, NEW c \in Cards, IInv, CardsInOnePlace, Play(i, c)
  PROVE CardsInOnePlace'
<1>1. /\ pile' = pile /\ reshuffled' = reshuffled /\ i \in Playing
      /\ hand \in [Seats -> SUBSET Cards] /\ hand_num \in [Seats -> Int]
      /\ \A s \in Seats : hand_num[s] >= -1
  BY DEF Play, Reads, IInv, TypeOK, Dealing
<1>2. ~revived' => ~revived
  <2>1. CASE over'
    BY <2>1 DEF Play
  <2>2. CASE ~over'
    <3>1. Effect(card_id')
      BY <2>2 DEF Play
    <3>2. revived' = revived \/ \E x, n : Give(x, n, TRUE)
      BY <3>1, Zenon DEF Effect
    <3> QED BY <3>2, Zenon DEF Give
  <2> QED BY <2>1, <2>2
<1>3. CASE hand' = hand /\ hand_num' = hand_num
  BY <1>1, <1>2, <1>3 DEF CardsInOnePlace, Playing
<1>4. CASE c \in hand[i] /\ Found(i, c)
  <2>1. /\ hand'[i] = hand[i] \ {c} /\ hand_num'[i] = hand_num[i] - 1
        /\ \A s \in Seats \ {i} : hand'[s] = hand[s] /\ hand_num'[s] = hand_num[s]
    BY <1>1, <1>4 DEF Found
  <2>2. Cardinality(hand[i] \ {c}) = Cardinality(hand[i]) - 1
    BY <1>1, <1>4, HandsFinite, FS_RemoveElement
  <2>3. ASSUME reshuffled = 0 PROVE
          /\ \A s, t \in Seats : s # t => hand'[s] \cap hand'[t] = {}
          /\ \A s \in Seats : hand'[s] \cap pile' = {}
    BY <1>1, <2>1, <2>3 DEF CardsInOnePlace
  <2>4. ASSUME reshuffled = 0, ~revived, NEW s \in Playing'
        PROVE  hand_num'[s] = Cardinality(hand'[s])
    <3>1. s \in Playing
      BY <1>1, <2>1 DEF Playing
    <3>2. hand_num[s] = Cardinality(hand[s])
      BY <2>4, <3>1 DEF CardsInOnePlace
    <3>3. CASE s = i
      BY <2>1, <2>2, <3>2, <3>3
    <3>4. CASE s # i
      BY <2>1, <3>1, <3>2, <3>4 DEF Playing
    <3> QED BY <3>3, <3>4
  <2> QED BY <1>1, <1>2, <2>3, <2>4 DEF CardsInOnePlace
<1> QED BY <1>3, <1>4 DEF Play

\* No step before the first reshuffle duplicates a card.
LEMMA StepKeepsCards == IInv /\ CardsInOnePlace /\ [Next]_vars => CardsInOnePlace'
<1> SUFFICES ASSUME IInv, CardsInOnePlace, [Next]_vars PROVE CardsInOnePlace'
  OBVIOUS
<1>1. CASE Reshuffle
  BY <1>1 DEF Reshuffle, CardsInOnePlace, IInv, TypeOK
<1>2. ASSUME NEW c \in Cards, Draw(c) PROVE CardsInOnePlace'
  BY <1>2, DrawKeepsCards
<1>3. ASSUME NEW i \in Seats, NEW c \in Cards, Play(i, c) PROVE CardsInOnePlace'
  BY <1>3, PlayKeepsCards
<1>4. ASSUME NEW i \in Seats, Leave(i) PROVE CardsInOnePlace'
  <2>1. /\ hand' = hand /\ pile' = pile /\ UNCHANGED <<reshuffled, revived>>
        /\ hand_num'[i] = -1 /\ \A s \in Seats \ {i} : hand_num'[s] = hand_num[s]
    BY <1>4 DEF Leave, history, IInv, TypeOK
  <2> QED BY <2>1 DEF CardsInOnePlace, Playing
<1>5. ASSUME UNCHANGED <<cardVars, reshuffled>>, ~revived' => ~revived
      PROVE CardsInOnePlace'
  BY <1>5 DEF CardsInOnePlace, Playing, cardVars
<1>6. ASSUME NEW i \in Seats, Skip(i) \/ FalseCall(i) PROVE CardsInOnePlace'
  <2>1. UNCHANGED <<cardVars, reshuffled>>
    BY <1>6 DEF Skip, FalseCall
  <2>2. ~revived' => ~revived
    BY <1>6, Zenon DEF Skip, FalseCall, Give
  <2> QED BY <1>5, <2>1, <2>2
<1>7. ASSUME NEW i \in Seats, NEW t \in 0 .. LONG_MAX - 1,
             CallUno(i, t) \/ \E v \in Seats : Catch(i, v, t)
      PROVE CardsInOnePlace'
  <2>1. UNCHANGED <<cardVars, reshuffled>> /\ revived' = revived
    BY <1>7 DEF CallUno, Catch, history
  <2> QED BY <1>5, <2>1
<1>8. CASE EndSweep
  <2>1. UNCHANGED <<cardVars, reshuffled>>
    BY <1>8 DEF EndSweep
  <2>2. ~revived' => ~revived
    BY <1>8, Zenon DEF EndSweep, Give
  <2> QED BY <1>5, <2>1, <2>2
<1>9. CASE UNCHANGED vars
  <2>1. UNCHANGED <<cardVars, reshuffled>> /\ revived' = revived
    BY <1>9 DEF vars, history
  <2> QED BY <1>5, <2>1
<1> QED BY <1>1, <1>2, <1>3, <1>4, <1>6, <1>7, <1>8, <1>9 DEF Next

\* The deal puts no card into two places.
LEMMA InitCards == Init => CardsInOnePlace
<1> SUFFICES ASSUME Init PROVE CardsInOnePlace
  OBVIOUS
<1>1. \A s, t \in Seats : s # t => hand[s] \cap hand[t] = {}
  BY DEF Init
<1>2. \A s \in Seats : hand[s] \cap pile = {}
  BY DEF Init
<1>3. \A s \in Playing : hand_num[s] = Cardinality(hand[s])
  BY GameAssumption DEF Init, Playing, None
<1> QED BY <1>1, <1>2, <1>3 DEF CardsInOnePlace

\* Before the first reshuffle GiveCardToPlayer() and the '9' branch never
\* duplicate a card, however many players, cards and lines there are.
THEOREM NoCardTwice == Spec => []CardsInOnePlace
<1> QED BY InitIInv, StepKeeps, InitCards, StepKeepsCards, PTL DEF Spec

-----------------------------------------------------------------------------
(* Who was first in a sweep.                                               *)

\* Induction for a set of numbers.
LEMMA AllNaturals ==
  ASSUME NEW S, 0 \in S, \A n \in Nat : n \in S => n + 1 \in S
  PROVE  Nat \subseteq S
<1> DEFINE T == Nat \ S
<1>1. ASSUME T # {} PROVE FALSE
  <2>1. PICK x \in T : \A y \in T : ~ (<<y, x>> \in OpToRel(<, Nat))
    BY <1>1, NatLessThanWellFounded, WFMin, Zenon
  <2>2. x \in Nat /\ x \notin S /\ x # 0 /\ x - 1 \in Nat /\ x - 1 < x
    OBVIOUS
  <2>3. <<x - 1, x>> \in OpToRel(<, Nat)
    BY <2>2 DEF OpToRel
  <2>4. x - 1 \in S
    BY <2>1, <2>2, <2>3, Zenon
  <2>5. (x - 1) + 1 \in S
    BY <2>2, <2>4
  <2> QED BY <2>2, <2>5
<1> QED BY <1>1

\* The test of the loop that looks for the earliest caller of a sweep.
Earlier(num, stamp, called, i, b) ==
  /\ num[i] # -1
  /\ stamp[i] < stamp[b] \/ (stamp[i] = stamp[b] /\ i = called)

\* best[i] is what the loop has found when it has come to seat i.
BestUpTo(num, stamp, called, best, n) ==
  /\ best \in [0 .. n -> 0 .. n] /\ best[0] = 0
  /\ \A i \in 1 .. n :
       best[i] = IF Earlier(num, stamp, called, i, best[i - 1]) THEN i ELSE best[i - 1]

\* The loop comes to every seat.
LEMMA LoopRuns ==
  ASSUME NEW num, NEW stamp, NEW called
  PROVE  \A n \in Nat : \E best : BestUpTo(num, stamp, called, best, n)
<1> DEFINE S == {n \in Nat : \E best : BestUpTo(num, stamp, called, best, n)}
<1>1. 0 \in S
  <2>1. BestUpTo(num, stamp, called, [i \in 0 .. 0 |-> 0], 0)
    BY DEF BestUpTo
  <2> QED BY <2>1
<1>2. ASSUME NEW n \in Nat, n \in S PROVE n + 1 \in S
  <2>1. PICK best : BestUpTo(num, stamp, called, best, n)
    BY <1>2
  <2>2. PICK b : b = IF Earlier(num, stamp, called, n + 1, best[n]) THEN n + 1 ELSE best[n]
    OBVIOUS
  <2> DEFINE more == [i \in 0 .. n + 1 |-> IF i = n + 1 THEN b ELSE best[i]]
  <2>3. best \in [0 .. n -> 0 .. n] /\ best[n] \in 0 .. n /\ b \in 0 .. n + 1
    BY <2>1, <2>2 DEF BestUpTo
  <2>4. more \in [0 .. n + 1 -> 0 .. n + 1] /\ more[0] = 0
    BY <2>1, <2>3 DEF BestUpTo
  <2>5. ASSUME NEW i \in 1 .. n + 1
        PROVE  more[i] = IF Earlier(num, stamp, called, i, more[i - 1]) THEN i ELSE more[i - 1]
    <3>1. CASE i = n + 1
      <4>1. more[i] = b /\ more[i - 1] = best[n]
        BY <3>1
      <4> QED BY <2>2, <3>1, <4>1
    <3>2. CASE i \in 1 .. n
      <4>1. more[i] = best[i] /\ more[i - 1] = best[i - 1]
        BY <3>2
      <4> QED BY <2>1, <3>2, <4>1 DEF BestUpTo
    <3> QED BY <3>1, <3>2
  <2> HIDE DEF more
  <2>6. BestUpTo(num, stamp, called, more, n + 1)
    BY <2>4, <2>5 DEF BestUpTo
  <2> QED BY <2>6
<1> HIDE DEF S
<1>3. Nat \subseteq S
  BY <1>1, <1>2, AllNaturals
<1> QED BY <1>3 DEF S

\* Fastest() is what the loop has found when it has come to the last seat.
LEMMA FastestIsLast ==
  ASSUME NEW num, NEW stamp, NEW called
  PROVE  \E best : /\ BestUpTo(num, stamp, called, best, NSEAT - 1)
                   /\ Fastest(num, stamp, called) = best[NSEAT - 1]
<1> DEFINE body(g) == [i \in Seats |->
             IF i = 0 THEN 0
             ELSE IF /\ num[i] # -1
                     /\ stamp[i] < stamp[g[i - 1]] \/ (stamp[i] = stamp[g[i - 1]] /\ i = called)
             THEN i ELSE g[i - 1]]
           the == CHOOSE g : g = body(g)
<1>0. NSEAT - 1 \in Nat /\ Seats = 0 .. NSEAT - 1 /\ NSEAT \in Nat
  BY GameAssumption DEF Seats
<1>1. PICK best : BestUpTo(num, stamp, called, best, NSEAT - 1)
  BY <1>0, LoopRuns
<1>2. best = body(best)
  <2>1. \A i \in Seats : best[i] = body(best)[i]
    BY <1>0, <1>1 DEF BestUpTo, Earlier
  <2>2. best \in [Seats -> Seats]
    BY <1>0, <1>1 DEF BestUpTo
  <2> QED BY <2>1, <2>2
<1>3. the = body(the)
  <2> HIDE DEF body
  <2> QED BY <1>2
<1>4. Fastest(num, stamp, called) = the[NSEAT - 1]
  BY DEF Fastest
<1> HIDE DEF the
<1>5. /\ the[0] = 0
      /\ \A i \in 1 .. NSEAT - 1 :
           the[i] = IF Earlier(num, stamp, called, i, the[i - 1]) THEN i ELSE the[i - 1]
  BY <1>0, <1>3 DEF Earlier
<1> DEFINE S == {n \in Nat : n \in Seats => the[n] \in 0 .. n}
<1>6. 0 \in S
  BY <1>5
<1>7. ASSUME NEW n \in Nat, n \in S PROVE n + 1 \in S
  <2>1. CASE n + 1 \in Seats
    <3>1. n \in Seats /\ n + 1 \in 1 .. NSEAT - 1 /\ (n + 1) - 1 = n
      BY <1>0, <2>1
    <3>2. the[n + 1] \in {n + 1, the[n]}
      BY <1>5, <3>1
    <3> QED BY <1>7, <3>1, <3>2
  <2> QED BY <2>1
<1> HIDE DEF S
<1>8. Nat \subseteq S
  BY <1>6, <1>7, AllNaturals
<1>9. the \in [Seats -> Seats]
  <2>1. \A n \in Seats : the[n] \in Seats
    BY <1>0, <1>8 DEF S
  <2>2. DOMAIN the = Seats /\ the = [n \in DOMAIN the |-> the[n]]
    BY <1>3
  <2> QED BY <2>1, <2>2
<1>10. BestUpTo(num, stamp, called, the, NSEAT - 1)
  BY <1>0, <1>5, <1>9 DEF BestUpTo
<1> QED BY <1>4, <1>10
\* Among the seats up to n the loop has found the earliest one of seat 0 and of
\* those that play; who is called and not later than any of them is found.
LEMMA LoopFindsEarliest ==
  ASSUME NEW num \in [Seats -> Int], NEW stamp \in [Seats -> Nat], NEW called \in Seats,
         num[called] # -1,
         NEW best, BestUpTo(num, stamp, called, best, NSEAT - 1)
  PROVE  LET b == best[NSEAT - 1]
             rivals == {s \in Seats : num[s] # -1 \/ s = 0}
         IN  /\ b \in rivals /\ \A s \in rivals : stamp[b] <= stamp[s]
             /\ (\A s \in rivals : stamp[called] <= stamp[s]) => b = called
<1> DEFINE rivals == {s \in Seats : num[s] # -1 \/ s = 0}
           S == {n \in Nat : n \in Seats =>
                   /\ best[n] \in rivals
                   /\ \A s \in rivals : s <= n => stamp[best[n]] <= stamp[s]
                   /\ called <= n /\ (\A s \in rivals : stamp[called] <= stamp[s])
                      => best[n] = called}
<1>0. NSEAT - 1 \in Nat /\ Seats = 0 .. NSEAT - 1 /\ NSEAT - 1 \in Seats /\ called <= NSEAT - 1
  BY GameAssumption DEF Seats
<1>1. 0 \in S
  BY <1>0 DEF BestUpTo
<1>2. ASSUME NEW n \in Nat, n \in S PROVE n + 1 \in S
  <2> SUFFICES ASSUME n + 1 \in Seats
               PROVE  /\ best[n + 1] \in rivals
                      /\ \A s \in rivals : s <= n + 1 => stamp[best[n + 1]] <= stamp[s]
                      /\ called <= n + 1 /\ (\A s \in rivals : stamp[called] <= stamp[s])
                         => best[n + 1] = called
    OBVIOUS
  <2>1. n \in Seats /\ n + 1 \in 1 .. NSEAT - 1 /\ (n + 1) - 1 = n
    BY <1>0
  <2>2. PICK m : m = n + 1
    OBVIOUS
  <2>3. PICK b, a : b = best[n] /\ a = best[m]
    OBVIOUS
  <2>4. a = IF Earlier(num, stamp, called, m, b) THEN m ELSE b
    BY <2>1, <2>2, <2>3 DEF BestUpTo
  <2>5. /\ b \in rivals
        /\ \A s \in rivals : s <= n => stamp[b] <= stamp[s]
        /\ called <= n /\ (\A s \in rivals : stamp[called] <= stamp[s]) => b = called
    BY <1>2, <2>1, <2>3
  <2>6. m \in Seats /\ m # 0 /\ b \in Seats /\ \A s \in Seats : s <= m <=> s <= n \/ s = m
    BY <1>0, <2>2, <2>5
  <2>7. /\ \A s \in Seats : stamp[s] \in Nat
        /\ \A s \in rivals : s \in Seats
        /\ \A s \in Seats : s \in rivals <=> num[s] # -1 \/ s = 0
    OBVIOUS
  <2> HIDE DEF rivals
  <2>8. CASE Earlier(num, stamp, called, m, b)
    <3>1. a = m /\ m \in rivals /\ stamp[m] <= stamp[b] /\ (stamp[m] = stamp[b] => m = called)
      BY <2>4, <2>6, <2>7, <2>8 DEF Earlier
    <3>2. \A s \in rivals : s <= m => stamp[m] <= stamp[s]
      BY <2>5, <2>6, <2>7, <3>1
    <3>3. ASSUME called <= m, \A s \in rivals : stamp[called] <= stamp[s] PROVE m = called
      <4>1. CASE called <= n
        BY <2>5, <2>6, <2>7, <3>1, <3>3, <4>1
      <4> QED BY <2>6, <3>3, <4>1
    <3> QED BY <2>2, <2>3, <3>1, <3>2, <3>3
  <2>9. CASE ~ Earlier(num, stamp, called, m, b)
    <3>1. a = b
      BY <2>4, <2>9
    <3>2. m \in rivals => stamp[b] <= stamp[m] /\ ~(stamp[m] = stamp[b] /\ m = called)
      BY <2>6, <2>7, <2>9 DEF Earlier
    <3>3. \A s \in rivals : s <= m => stamp[b] <= stamp[s]
      BY <2>5, <2>6, <2>7, <3>2
    <3>4. ASSUME called <= m, \A s \in rivals : stamp[called] <= stamp[s] PROVE b = called
      <4>1. CASE called = m
        <5>1. m \in rivals
          BY <2>7, <4>1
        <5> QED BY <2>5, <2>6, <2>7, <3>2, <3>4, <4>1, <5>1
      <4> QED BY <2>5, <2>6, <3>4, <4>1
    <3> QED BY <2>2, <2>3, <2>5, <3>1, <3>3, <3>4
  <2> QED BY <2>8, <2>9
<1> HIDE DEF S
<1>3. Nat \subseteq S
  BY <1>1, <1>2, AllNaturals
<1>4. NSEAT - 1 \in S
  BY <1>0, <1>3
<1> QED BY <1>0, <1>4 DEF S

\* Whose line the sweep has not come to yet, and who does not play, has not
\* called: only a player's own line sets the stamp, and the sweep is then past
\* the seat.
StampsFresh ==
  \A s \in Seats : s >= pos \/ hand_num[s] = -1 => time_stamp[s] = LONG_MAX

\* Every line read from a player keeps the stamps fresh.
LEMMA ReadsKeepStamps ==
  ASSUME IInv, StampsFresh, NEW i \in Seats, Reads(i),
         \/ time_stamp' = time_stamp
         \/ \E t : Stamp(i, t) /\ hand_num' = hand_num,
         \A s \in Seats \ {i} : hand_num'[s] = -1 => hand_num[s] = -1
  PROVE  StampsFresh'
<1>1. /\ pos' = i + 1 /\ pos \in Nat /\ i >= pos /\ hand_num[i] # -1
      /\ time_stamp \in [Seats -> 0 .. LONG_MAX] /\ Seats \subseteq Nat
  BY DEF Reads, Playing, IInv, TypeOK, Seats
<1>2. time_stamp[i] = LONG_MAX /\ \A s \in Seats \ {i} : time_stamp'[s] = time_stamp[s]
  BY <1>1 DEF StampsFresh, Stamp
<1>3. ASSUME NEW s \in Seats, s >= pos' \/ hand_num'[s] = -1
      PROVE  time_stamp'[s] = LONG_MAX
  <2>1. CASE s = i
    <3>1. hand_num'[i] = -1 /\ time_stamp' = time_stamp
      BY <1>1, <1>3, <2>1
    <3> QED BY <1>2, <2>1, <3>1
  <2>2. CASE s # i
    <3>1. s >= pos \/ hand_num[s] = -1
      BY <1>1, <1>3, <2>2
    <3> QED BY <1>2, <2>2, <3>1 DEF StampsFresh
  <2> QED BY <2>1, <2>2
<1> QED BY <1>3 DEF StampsFresh

\* Every step of the game keeps the stamps fresh.
LEMMA StepKeepsStamps == IInv /\ StampsFresh /\ [Next]_vars => StampsFresh'
<1> SUFFICES ASSUME IInv, StampsFresh, [Next]_vars PROVE StampsFresh'
  OBVIOUS
<1>1. ASSUME UNCHANGED <<hand_num, time_stamp, pos>> PROVE StampsFresh'
  BY <1>1 DEF StampsFresh
<1>2. CASE Reshuffle
  BY <1>1, <1>2 DEF Reshuffle, callVars
<1>3. CASE EndSweep
  BY <1>3 DEF EndSweep, StampsFresh
<1>4. ASSUME NEW c \in Cards, Draw(c) PROVE StampsFresh'
  <2>1. /\ give.to \in Seats /\ hand_num'[give.to] = hand_num[give.to] + 1
        /\ hand_num[give.to] \in Int /\ hand_num[give.to] >= -1
        /\ \A s \in Seats \ {give.to} : hand_num'[s] = hand_num[s]
    BY <1>4 DEF Draw, IInv, TypeOK, Dealing
  <2>2. \A s \in Seats : hand_num'[s] = -1 => hand_num[s] = -1
    BY <2>1
  <2> QED BY <1>4, <2>2 DEF Draw, StampsFresh
<1>5. ASSUME NEW i \in Seats, Leave(i) PROVE StampsFresh'
  BY <1>5, ReadsKeepStamps DEF Leave, callVars, IInv, TypeOK
<1>6. ASSUME NEW i \in Seats, Skip(i) \/ FalseCall(i) PROVE StampsFresh'
  BY <1>6, ReadsKeepStamps DEF Skip, FalseCall, callVars, cardVars
<1>7. ASSUME NEW i \in Seats, NEW c \in Cards, Play(i, c) PROVE StampsFresh'
  <2>1. \A s \in Seats \ {i} : hand_num'[s] = hand_num[s]
    BY <1>7 DEF Play, Found, IInv, TypeOK
  <2> QED BY <1>7, <2>1, ReadsKeepStamps DEF Play, callVars
<1>8. ASSUME NEW i \in Seats, NEW t \in 0 .. LONG_MAX - 1,
             CallUno(i, t) \/ \E v \in Seats : Catch(i, v, t)
      PROVE StampsFresh'
  <2>1. Reads(i) /\ hand_num' = hand_num /\ (time_stamp' = time_stamp \/ Stamp(i, t))
    BY <1>8 DEF CallUno, Catch, cardVars
  <2> QED BY <2>1, ReadsKeepStamps
<1>9. CASE UNCHANGED vars
  BY <1>1, <1>9 DEF vars, cardVars, callVars
<1> QED BY <1>2, <1>3, <1>4, <1>5, <1>6, <1>7, <1>8, <1>9 DEF Next

\* When the stamps are fresh, the loop decides for the player called exactly
\* when nobody who plays was earlier.
LEMMA FreshDecides == IInv /\ StampsFresh => FastestWins
<1> SUFFICES ASSUME IInv, StampsFresh, have_uno \in Playing
             PROVE  First = have_uno <=> \A s \in Playing : time_stamp[have_uno] <= time_stamp[s]
  BY DEF FastestWins
<1> DEFINE rivals == {s \in Seats : hand_num[s] # -1 \/ s = 0}
<1>1. /\ hand_num \in [Seats -> Int] /\ time_stamp \in [Seats -> Nat]
      /\ \A s \in Seats : time_stamp[s] <= LONG_MAX
      /\ have_uno \in Seats /\ hand_num[have_uno] # -1 /\ LONG_MAX \in Nat
  BY GameAssumption DEF IInv, TypeOK, Playing
<1>2. PICK best : /\ BestUpTo(hand_num, time_stamp, have_uno, best, NSEAT - 1)
                  /\ First = best[NSEAT - 1]
  BY FastestIsLast DEF First
<1>3. /\ First \in rivals /\ \A s \in rivals : time_stamp[First] <= time_stamp[s]
      /\ (\A s \in rivals : time_stamp[have_uno] <= time_stamp[s]) => First = have_uno
  BY <1>1, <1>2, LoopFindsEarliest
<1>4. \A s \in rivals : s \in Playing \/ time_stamp[s] = LONG_MAX
  BY DEF StampsFresh, Playing
<1>5. Playing \subseteq rivals /\ rivals \subseteq Seats
  BY DEF Playing
<1> HIDE DEF rivals
<1>6. ASSUME First = have_uno
      PROVE  \A s \in Playing : time_stamp[have_uno] <= time_stamp[s]
  BY <1>3, <1>5, <1>6
<1>7. ASSUME \A s \in Playing : time_stamp[have_uno] <= time_stamp[s] PROVE First = have_uno
  <2>1. \A s \in rivals : time_stamp[have_uno] <= time_stamp[s]
    BY <1>1, <1>4, <1>5, <1>7
  <2> QED BY <1>3, <2>1
<1> QED BY <1>6, <1>7

\* The loop of GameStart() that settles a sweep decides for the player called
\* exactly when nobody who plays was earlier, for every number of seats and any
\* time stamps: it finds the earliest caller although it starts from seat 0
\* whether or not somebody plays there.
THEOREM SettledByTheFastest == Spec => []FastestWins
<1>1. Init => StampsFresh
  BY DEF Init, StampsFresh
<1> QED BY <1>1, InitIInv, StepKeeps, StepKeepsStamps, FreshDecides, PTL DEF Spec

-----------------------------------------------------------------------------
(***************************************************************************)
(* A game as both sides see it: a first move arrives in its sender's turn, *)
(* although the server never tests whose turn it is, and a client that has *)
(* read everything shows the server's table.  Both are invariants of the   *)
(* lines on their way.  For the turn, TurnKept says where the right to     *)
(* move is: in the last round on its way to the player, in what the player *)
(* sees, or in the move on its way back.  For the copies, Leads says what  *)
(* the lines on their way to a client will make of what it shows: a view   *)
(* that Fits the table.  Both hold while the game lasts and nobody who     *)
(* left is dealt cards.                                                    *)
(***************************************************************************)


\* The table of UnoTable passes the turn as UnoGame does.
LEMMA TableSwitch ==
  ASSUME NEW w \in Table!Seats, NEW num \in [Table!Seats -> Int], NEW dir
  PROVE  /\ Table!SwitchToNextPlayer(w, num, dir) \in Table!Seats
         /\ (\E s \in Table!Seats : num[s] # -1) =>
              num[Table!SwitchToNextPlayer(w, num, dir)] # -1
<1>1. Table!Seats = Seats
  BY DEF Seats, Table!Seats
<1>2. Table!SwitchToNextPlayer(w, num, dir) = SwitchToNextPlayer(w, num, dir)
  BY Zenon DEF SwitchToNextPlayer, Table!SwitchToNextPlayer, Onward, Table!Onward, Min, Table!Min
<1> QED BY <1>1, <1>2, SwitchFindsPlayer

\* It counts as FiniteSets does.
LEMMA TableCardinality == \A S : Table!Cardinality(S) = Cardinality(S)
BY Zenon DEF Table!Cardinality, Cardinality

\* Its variables are those that MCUnoGame lists.
LEMMA TableVariables == [Table!Next]_(Table!tvars) => [Table!Next]_tableVars
BY DEF Table!tvars, Table!serverVars, Table!callVars, Table!copyVars, tableVars

-----------------------------------------------------------------------------
(* Both sides of a game: first moves arrive in turn.                       *)

\* The lines to the server, and those to a client.
UpLines ==
  [k : {"9"}, kind : Kinds, again : BOOLEAN] \cup [k : {"10"}, again : BOOLEAN] \cup [k : {"8"}]
    \cup [k : {"11"}, valid : BOOLEAN, stamp : Nat]
    \cup [k : {"12"}, valid : BOOLEAN, who : Table!Seats, stamp : Nat]
DownLines ==
  [k : {"7", "11", "12", "14", "15", "19"}, who : Table!Seats]
    \cup [k : {"13"}, who : Table!Seats \cup {Table!None}]
    \cup [k : {"10"}, who : Table!Seats \cup {Table!None}, num : [Table!Seats -> Int], cards : Int]

\* A move that is the sender's first in the round the sender sees.
FirstMove(line) == line.k \in {"9", "10"} /\ ~line.again
Firsts(s) == {j \in DOMAIN s : FirstMove(s[j])}
Rounds(s) == {j \in DOMAIN s : s[j].k = "10"}

\* Of client c, with the lines toServer and toClient on their way: it has moved
\* in its turn and nothing has changed since; or it sees that it has the turn and
\* has not moved yet; or the last round on its way to it tells so.  In all three
\* cases the turn cur of the server is c's.
TurnKept(c, toServer, toClient, cur, seen, mov) ==
  /\ Firsts(toServer) # {} =>
       /\ cur = c /\ Rounds(toClient) = {} /\ c \in mov
       /\ \A j, k \in Firsts(toServer) : j = k
  /\ seen = c /\ c \notin mov => cur = c /\ Rounds(toClient) = {} /\ Firsts(toServer) = {}
  /\ \A j \in Rounds(toClient) : toClient[j].who = c =>
       /\ cur = c /\ Firsts(toServer) = {}
       /\ \A k \in Rounds(toClient) : k <= j

\* A line typed that is not a first move changes nothing.
LEMMA TurnTyped ==
  ASSUME NEW c, NEW S, NEW u \in Seq(S), NEW d, NEW cur, NEW seen, NEW m, NEW m2, NEW x \in S,
         TurnKept(c, u, d, cur, seen, m), ~FirstMove(x), c \in m => c \in m2
  PROVE  TurnKept(c, Append(u, x), d, cur, seen, m2)
<1>1. PICK w : w = Append(u, x)
  OBVIOUS
<1>2. Firsts(w) = Firsts(u)
  <2>1. /\ DOMAIN w = 1 .. Len(u) + 1 /\ DOMAIN u = 1 .. Len(u) /\ Len(u) \in Nat
        /\ w[Len(u) + 1] = x /\ \A j \in 1 .. Len(u) : w[j] = u[j]
    BY <1>1
  <2> QED BY <2>1 DEF Firsts
<1> QED BY <1>1, <1>2 DEF TurnKept

\* A first move is typed in the sender's turn.
LEMMA TurnMoved ==
  ASSUME NEW c, NEW S, NEW u \in Seq(S), NEW d, NEW cur, NEW m, NEW m2, NEW x \in S,
         TurnKept(c, u, d, cur, c, m), c \notin m, c \in m2
  PROVE  TurnKept(c, Append(u, x), d, cur, c, m2)
<1>1. PICK w : w = Append(u, x)
  OBVIOUS
<1>2. cur = c /\ Rounds(d) = {} /\ Firsts(u) = {}
  BY DEF TurnKept
<1>3. \A j \in Firsts(w) : j = Len(u) + 1
  <2>1. /\ DOMAIN w = 1 .. Len(u) + 1 /\ DOMAIN u = 1 .. Len(u) /\ Len(u) \in Nat
        /\ \A j \in 1 .. Len(u) : w[j] = u[j]
    BY <1>1
  <2> QED BY <1>2, <2>1 DEF Firsts
<1> QED BY <1>1, <1>2, <1>3 DEF TurnKept

\* What is left of a sequence when its first line has been read.
LEMMA TailPositions ==
  ASSUME NEW S, NEW s \in Seq(S), s # <<>>
  PROVE  /\ Head(s) = s[1] /\ 1 \in DOMAIN s /\ Tail(s) \in Seq(S)
         /\ \A j \in DOMAIN Tail(s) : j \in Nat \ {0} /\ j + 1 \in DOMAIN s /\ Tail(s)[j] = s[j + 1]
         /\ \A j \in DOMAIN s : j \in Nat /\ (j # 1 => j - 1 \in DOMAIN Tail(s) /\ Tail(s)[j - 1] = s[j])
OBVIOUS

\* A line that is read and is no round leaves the turn.
LEMMA TurnRead ==
  ASSUME NEW c, NEW S, NEW u, NEW d \in Seq(S), NEW cur, NEW seen, NEW m, d # <<>>,
         NEW m2, c \notin m2, TurnKept(c, u, d, cur, seen, m)
  PROVE  /\ Head(d).k # "10" => TurnKept(c, u, Tail(d), cur, seen, m)
         /\ Head(d).k = "10" => TurnKept(c, u, Tail(d), cur, Head(d).who, m2)
<1>1. PICK t : t = Tail(d)
  OBVIOUS
<1>2. /\ Head(d) = d[1] /\ 1 \in DOMAIN d
      /\ \A j \in DOMAIN t : j \in Nat \ {0} /\ j + 1 \in DOMAIN d /\ t[j] = d[j + 1]
  BY <1>1, TailPositions
<1>3. \A j \in Rounds(t) : j \in Nat \ {0} /\ j + 1 \in Rounds(d) /\ t[j] = d[j + 1]
  BY <1>2 DEF Rounds
<1>4. /\ Rounds(d) = {} => Rounds(t) = {}
      /\ \A j \in Rounds(t) : t[j].who = c =>
            /\ cur = c /\ Firsts(u) = {} /\ \A k \in Rounds(t) : k <= j
  <2>1. ASSUME NEW j \in Rounds(t), t[j].who = c
        PROVE  cur = c /\ Firsts(u) = {} /\ \A k \in Rounds(t) : k <= j
    <3>1. cur = c /\ Firsts(u) = {} /\ \A k \in Rounds(d) : k <= j + 1
      BY <1>3, <2>1 DEF TurnKept
    <3>2. \A k \in Rounds(t) : k + 1 <= j + 1
      BY <1>3, <3>1
    <3> QED BY <1>3, <3>1, <3>2
  <2> QED BY <1>3, <2>1
<1>5. CASE Head(d).k # "10"
  BY <1>1, <1>4, <1>5 DEF TurnKept
<1>6. CASE Head(d).k = "10"
  <2>1. 1 \in Rounds(d)
    BY <1>2, <1>6 DEF Rounds
  <2>2. Firsts(u) = {}
    BY <2>1 DEF TurnKept
  <2>3. Head(d).who = c => cur = c /\ Rounds(t) = {}
    <3>1. ASSUME d[1].who = c PROVE cur = c /\ \A k \in Rounds(d) : k <= 1
      BY <2>1, <3>1 DEF TurnKept
    <3>2. ASSUME d[1].who = c PROVE Rounds(t) = {}
      BY <1>3, <3>1, <3>2
    <3> QED BY <1>2, <3>1, <3>2
  <2> QED BY <1>1, <1>4, <1>6, <2>2, <2>3 DEF TurnKept
<1> QED BY <1>5, <1>6

\* The server reads a line that is not a first move.
LEMMA TurnServed ==
  ASSUME NEW c, NEW S, NEW u \in Seq(S), NEW d, NEW cur, NEW seen, NEW m, u # <<>>,
         TurnKept(c, u, d, cur, seen, m)
  PROVE  TurnKept(c, Tail(u), d, cur, seen, m)
<1>1. PICK t : t = Tail(u)
  OBVIOUS
<1>2. \A j \in DOMAIN t : j \in Nat /\ j + 1 \in DOMAIN u /\ t[j] = u[j + 1]
  BY <1>1, TailPositions
<1>3. \A j \in Firsts(t) : j \in Nat /\ j + 1 \in Firsts(u)
  BY <1>2 DEF Firsts
<1>4. Firsts(t) # {} => Firsts(u) # {}
  BY <1>3
<1>5. (\A j, k \in Firsts(u) : j = k) => \A j, k \in Firsts(t) : j = k
  <2>1. ASSUME \A j, k \in Firsts(u) : j = k, NEW j \in Firsts(t), NEW k \in Firsts(t)
        PROVE j = k
    <3>1. j + 1 = k + 1 /\ j \in Nat /\ k \in Nat
      BY <1>3, <2>1
    <3> QED BY <3>1
  <2> QED BY <2>1
<1>6. Firsts(u) = {} => Firsts(t) = {}
  BY <1>4
<1> QED BY <1>1, <1>4, <1>5, <1>6 DEF TurnKept

\* The positions of a sequence that another one is appended to.
LEMMA ConcatPositions ==
  ASSUME NEW S, NEW s \in Seq(S), NEW t \in Seq(S)
  PROVE  /\ s \o t \in Seq(S) /\ Len(s \o t) = Len(s) + Len(t)
         /\ \A j \in DOMAIN s : j \in Nat /\ j <= Len(s) /\ j \in DOMAIN (s \o t) /\ (s \o t)[j] = s[j]
         /\ \A j \in DOMAIN (s \o t) : j \notin DOMAIN s =>
              j \in Nat /\ j > Len(s) /\ j - Len(s) \in DOMAIN t /\ (s \o t)[j] = t[j - Len(s)]
OBVIOUS

\* Lines that are no rounds change nothing.
LEMMA TurnTold ==
  ASSUME NEW c, NEW S, NEW u, NEW d \in Seq(S), NEW cur, NEW seen, NEW m, NEW t \in Seq(S),
         TurnKept(c, u, d, cur, seen, m), Rounds(t) = {}
  PROVE  TurnKept(c, u, d \o t, cur, seen, m)
<1>1. PICK w : w = d \o t
  OBVIOUS
<1>2. Rounds(w) = Rounds(d) /\ \A j \in Rounds(d) : w[j] = d[j]
  <2>1. /\ \A j \in DOMAIN d : j \in DOMAIN w /\ w[j] = d[j]
        /\ \A j \in DOMAIN w : j \notin DOMAIN d =>
             j - Len(d) \in DOMAIN t /\ w[j] = t[j - Len(d)]
    BY <1>1, ConcatPositions
  <2> QED BY <2>1 DEF Rounds
<1> QED BY <1>1, <1>2 DEF TurnKept

\* A new round is told to a client that has no move on its way and is not told
\* by an earlier line that it has the turn.
LEMMA TurnBegun ==
  ASSUME NEW c, NEW S, NEW u, NEW d \in Seq(S), NEW cur, NEW seen, NEW m, NEW x \in S,
         Firsts(u) = {}, seen # c \/ c \in m, \A j \in Rounds(d) : d[j].who # c,
         x.who = c => cur = c
  PROVE  TurnKept(c, u, d \o <<x>>, cur, seen, m)
<1>1. PICK w : w = d \o <<x>>
  OBVIOUS
<1>2. /\ <<x>> \in Seq(S) /\ DOMAIN <<x>> = {1} /\ <<x>>[1] = x /\ Len(d) \in Nat
  OBVIOUS
<1>3. /\ \A j \in DOMAIN d : j \in Nat /\ j <= Len(d) /\ j \in DOMAIN w /\ w[j] = d[j]
      /\ \A j \in DOMAIN w : j \notin DOMAIN d => j = Len(d) + 1 /\ w[j] = x
  <2>1. /\ \A j \in DOMAIN d : j \in Nat /\ j <= Len(d) /\ j \in DOMAIN w /\ w[j] = d[j]
        /\ \A j \in DOMAIN w : j \notin DOMAIN d =>
             j \in Nat /\ j - Len(d) \in DOMAIN <<x>> /\ w[j] = <<x>>[j - Len(d)]
    BY <1>1, <1>2, ConcatPositions
  <2> QED BY <1>2, <2>1
<1>4. ASSUME NEW j \in Rounds(w), w[j].who = c
      PROVE  cur = c /\ \A k \in Rounds(w) : k <= j
  <2>1. j \notin DOMAIN d
    BY <1>3, <1>4 DEF Rounds
  <2>2. j = Len(d) + 1 /\ w[j] = x
    BY <1>3, <1>4, <2>1 DEF Rounds
  <2>3. \A k \in DOMAIN w : k <= Len(d) + 1
    BY <1>2, <1>3
  <2> QED BY <1>4, <2>2, <2>3 DEF Rounds
<1> QED BY <1>1, <1>4 DEF TurnKept

\* No seat has the number of an empty one.
LEMMA SeatTaken == \A s \in Table!Seats : s # Table!None
BY GameAssumption DEF Table!Seats, Table!None

\* Who is shown to have the turn has it, or is nobody.
LEMMA ShownIs == \A w : Table!Shown(w) \in {w, Table!None}
BY DEF Table!Shown

-----------------------------------------------------------------------------
\* Sequences of lines, seats and copies have the form that their use gives them.
Types ==
  /\ thand_num \in [Table!Seats -> Int] /\ tcard_num \in Int /\ twhose_round \in Table!Seats
  /\ tis_uno \in [Table!Seats -> BOOLEAN] /\ thave_uno \in Table!Seats \cup {Table!None}
  /\ playing \subseteq Table!Seats /\ moved \subseteq Table!Seats
  /\ remain \in [Table!Seats -> [Table!Seats -> Int]] /\ card_remain \in [Table!Seats -> Int]
  /\ whos_turn \in [Table!Seats -> Table!Seats \cup {Table!None}] /\ n_remain \in [Table!Seats -> Int]
  /\ uno \in [Table!Seats -> SUBSET Table!Seats]
  /\ up \in [Table!Seats -> Seq(UpLines)] /\ down \in [Table!Seats -> Seq(DownLines)]

TurnsKept ==
  stray \/ \A c \in Table!Seats : thand_num[c] # -1 =>
    TurnKept(c, up[c], down[c], twhose_round, whos_turn[c], moved)

\* While GameStart() runs and nobody who left has been dealt cards.
Lasts == ~tover /\ ~trevived
TableInv == Lasts => Types /\ TurnsKept

\* What a client sends is a line that the server knows.
LEMMA TypedLines ==
  ASSUME NEW b \in BOOLEAN
  PROVE  /\ \A kind \in Kinds : [k |-> "9", kind |-> kind, again |-> b] \in UpLines
         /\ [k |-> "10", again |-> b] \in UpLines /\ [k |-> "8"] \in UpLines
         /\ \A t \in 0 .. TableLongMax - 1 :
              /\ [k |-> "11", valid |-> b, stamp |-> t] \in UpLines
              /\ \A v \in Table!Seats : [k |-> "12", valid |-> b, who |-> v, stamp |-> t] \in UpLines
BY GameAssumption, TableAssumption DEF UpLines

\* Typing a line.
LEMMA TypeStep ==
  ASSUME NEW c \in Table!Seats, NEW x \in UpLines, Types, TurnsKept, Table!Type(c, x),
         moved' = moved \/ moved' = moved \cup {c}, playing' \subseteq playing,
         FirstMove(x) => whos_turn[c] = c /\ c \notin moved /\ c \in moved'
  PROVE  Types' /\ TurnsKept'
<1>1. /\ UNCHANGED <<thand_num, tcard_num, twhose_round, tis_uno, thave_uno, tover, down>>
      /\ UNCHANGED <<remain, card_remain, whos_turn, n_remain, uno, stray, trevived>>
      /\ up' = [up EXCEPT ![c] = Append(@, x)]
  BY DEF Table!Type, Table!serverVars, Table!callVars, Table!copyVars
<1>2. PICK u, z : u = up[c] /\ z = Append(u, x)
  OBVIOUS
<1>3. /\ up \in [Table!Seats -> Seq(UpLines)] /\ u \in Seq(UpLines) /\ z \in Seq(UpLines)
      /\ up'[c] = z /\ \A s \in Table!Seats \ {c} : up'[s] = up[s]
  BY <1>1, <1>2 DEF Types
<1>4. up' \in [Table!Seats -> Seq(UpLines)]
  <2>1. up' = [up EXCEPT ![c] = z]
    BY <1>1, <1>2
  <2> QED BY <1>3, <2>1
<1>5. Types'
  BY <1>1, <1>4 DEF Types
<1>6. ASSUME ~stray', NEW s \in Table!Seats, thand_num'[s] # -1
      PROVE  TurnKept(s, up'[s], down'[s], twhose_round', whos_turn'[s], moved')
  <2>1. TurnKept(s, up[s], down[s], twhose_round, whos_turn[s], moved)
    BY <1>1, <1>6 DEF TurnsKept
  <2>2. CASE s # c
    <3>1. up'[s] = up[s] /\ (s \in moved' <=> s \in moved)
      BY <1>3, <2>2
    <3> QED BY <1>1, <2>1, <3>1 DEF TurnKept
  <2>3. CASE s = c /\ FirstMove(x)
    <3>1. TurnKept(c, u, down[c], twhose_round, c, moved) /\ c \notin moved /\ c \in moved'
      BY <1>2, <2>1, <2>3
    <3>2. TurnKept(c, z, down[c], twhose_round, c, moved')
      BY <1>2, <1>3, <3>1, TurnMoved
    <3> QED BY <1>1, <1>3, <2>3, <3>2
  <2>4. CASE s = c /\ ~FirstMove(x)
    <3>1. c \in moved => c \in moved'
      OBVIOUS
    <3>2. TurnKept(c, z, down[c], twhose_round, whos_turn[c], moved')
      BY <1>2, <1>3, <2>1, <2>4, <3>1, TurnTyped
    <3> QED BY <1>1, <1>3, <2>4, <3>2
  <2> QED BY <2>2, <2>3, <2>4
<1> QED BY <1>5, <1>6 DEF TurnsKept

\* What a client types is a line that the server knows; a first move is typed
\* in the client's own turn.
LEMMA TypedIs ==
  ASSUME NEW c \in Table!Seats,
         \/ Table!TypeSkip(c) \/ Table!TypeGg(c)
         \/ \E kind \in Kinds : Table!TypeCard(c, kind)
         \/ \E t \in 0 .. TableLongMax - 1 : Table!TypeUno(c, t) \/ \E v \in Table!Seats : Table!TypeCatch(c, v, t)
  PROVE  \E x : /\ Table!Type(c, x) /\ x \in UpLines
                /\ moved' = moved \/ moved' = moved \cup {c}
                /\ playing' \subseteq playing
                /\ FirstMove(x) => whos_turn[c] = c /\ c \notin moved /\ c \in moved'
<1>1. PICK kind, t, v :
        \/ Table!TypeSkip(c) \/ Table!TypeGg(c) \/ (kind \in Kinds /\ Table!TypeCard(c, kind))
        \/ t \in 0 .. TableLongMax - 1 /\ Table!TypeUno(c, t)
        \/ t \in 0 .. TableLongMax - 1 /\ v \in Table!Seats /\ Table!TypeCatch(c, v, t)
  BY Zenon
<1>2. CASE Table!TypeSkip(c)
  <2>0. (c \in moved) \in BOOLEAN
    OBVIOUS
  <2>1. PICK b \in BOOLEAN : b = (c \in moved)
    BY <2>0, Zenon
  <2>2. PICK x : x = [k |-> "10", again |-> b]
    OBVIOUS
  <2>3. x \in UpLines /\ (FirstMove(x) => ~b)
    BY <2>2, TypedLines DEF FirstMove
  <2>4. Table!Type(c, x) /\ moved' = moved \cup {c} /\ playing' = playing /\ whos_turn[c] = c
    BY <1>2, <2>1, <2>2 DEF Table!TypeSkip, Table!Move, Table!Again
  <2> QED BY <2>1, <2>3, <2>4
<1>3. CASE Table!TypeGg(c)
  BY <1>3 DEF Table!TypeGg, UpLines, FirstMove
<1>4. CASE kind \in Kinds /\ Table!TypeCard(c, kind)
  <2>0. (c \in moved) \in BOOLEAN
    OBVIOUS
  <2>1. PICK b \in BOOLEAN : b = (c \in moved)
    BY <2>0, Zenon
  <2>2. PICK x : x = [k |-> "9", kind |-> kind, again |-> b]
    OBVIOUS
  <2>3. x \in UpLines /\ (FirstMove(x) => ~b)
    BY <1>4, <2>2, TypedLines DEF FirstMove
  <2>4. Table!Type(c, x) /\ moved' = moved \cup {c} /\ playing' = playing /\ whos_turn[c] = c
    BY <1>4, <2>1, <2>2 DEF Table!TypeCard, Table!Move, Table!Again
  <2> QED BY <2>1, <2>3, <2>4
<1>5. CASE t \in 0 .. TableLongMax - 1 /\ Table!TypeUno(c, t)
  <2>1. PICK b \in BOOLEAN : b = (remain[c][c] = 1)
    BY Zenon
  <2>2. PICK x : x = [k |-> "11", valid |-> b, stamp |-> t]
    OBVIOUS
  <2>3. x \in UpLines /\ ~FirstMove(x)
    BY <1>5, <2>2, TypedLines DEF FirstMove
  <2>4. Table!Type(c, x) /\ moved' = moved /\ playing' = playing
    BY <1>5, <2>1, <2>2 DEF Table!TypeUno
  <2> QED BY <2>3, <2>4
<1>6. CASE t \in 0 .. TableLongMax - 1 /\ v \in Table!Seats /\ Table!TypeCatch(c, v, t)
  <2>1. PICK b \in BOOLEAN : b = (remain[c][v] = 1)
    BY Zenon
  <2>2. PICK x : x = [k |-> "12", valid |-> b, who |-> v, stamp |-> t]
    OBVIOUS
  <2>3. x \in UpLines /\ ~FirstMove(x)
    BY <1>6, <2>2, TypedLines DEF FirstMove
  <2>4. Table!Type(c, x) /\ moved' = moved /\ playing' = playing
    BY <1>6, <2>1, <2>2 DEF Table!TypeCatch
  <2> QED BY <2>3, <2>4
<1> QED BY <1>1, <1>2, <1>3, <1>4, <1>5, <1>6

\* What a client types keeps the invariant.
LEMMA TypingKeeps ==
  ASSUME NEW c \in Table!Seats, TableInv,
         \/ Table!TypeSkip(c) \/ Table!TypeGg(c)
         \/ \E kind \in Kinds : Table!TypeCard(c, kind)
         \/ \E t \in 0 .. TableLongMax - 1 : Table!TypeUno(c, t) \/ \E v \in Table!Seats : Table!TypeCatch(c, v, t)
  PROVE  TableInv'
<1> SUFFICES ASSUME Lasts' PROVE Types' /\ TurnsKept'
  BY DEF TableInv
<1>1. PICK x : /\ Table!Type(c, x) /\ x \in UpLines
               /\ moved' = moved \/ moved' = moved \cup {c}
               /\ playing' \subseteq playing
               /\ FirstMove(x) => whos_turn[c] = c /\ c \notin moved /\ c \in moved'
  BY TypedIs
<1>2. Types /\ TurnsKept
  BY <1>1 DEF TableInv, Table!Type, Lasts
<1> QED BY <1>1, <1>2, TypeStep

\* The server's reading of a line of player i.
LEMMA ReadsIs ==
  ASSUME NEW i \in Table!Seats, NEW k, Types, Table!Reads(i, k)
  PROVE  /\ up' \in [Table!Seats -> Seq(UpLines)] /\ up[i] # <<>> /\ up'[i] = Tail(up[i])
         /\ \A s \in Table!Seats \ {i} : up'[s] = up[s]
         /\ Head(up[i]) \in UpLines /\ Head(up[i]).k = k /\ ~tover /\ thand_num[i] # -1
         /\ UNCHANGED <<playing, remain, card_remain, whos_turn, n_remain, uno, moved, blurred>>
<1>1. PICK u, z : u = up[i] /\ z = Tail(u)
  OBVIOUS
<1>2. up \in [Table!Seats -> Seq(UpLines)] /\ u \in Seq(UpLines) /\ u # <<>> /\ up' = [up EXCEPT ![i] = z]
  BY <1>1 DEF Types, Table!Reads
<1>3. z \in Seq(UpLines) /\ Head(u) \in UpLines
  BY <1>1, <1>2
<1> QED BY <1>1, <1>2, <1>3 DEF Table!Reads, Table!copyVars

\* GiveCardToPlayer(), as long as only players are dealt cards.
LEMMA GiveIs ==
  ASSUME Types, NEW num \in [Table!Seats -> Int], NEW who \in Table!Seats, NEW n \in Nat,
         Table!GiveCardToPlayer(num, who, n), ~trevived'
  PROVE  /\ thand_num' \in [Table!Seats -> Int] /\ thand_num'[who] = num[who] + n
         /\ \A s \in Table!Seats \ {who} : thand_num'[s] = num[s]
         /\ tcard_num' \in Int /\ tcard_num' = tcard_num - n
         /\ tis_uno' \in [Table!Seats -> BOOLEAN] /\ (n > 0 => ~tis_uno'[who])
         /\ \A s \in Table!Seats : s # who \/ n = 0 => tis_uno'[s] = tis_uno[s]
         /\ ~trevived /\ (n > 0 => num[who] # -1)
<1>1. thand_num' = [num EXCEPT ![who] = @ + n] /\ tcard_num' = tcard_num - n
  BY DEF Table!GiveCardToPlayer
<1>2. tis_uno' = IF n > 0 THEN [tis_uno EXCEPT ![who] = FALSE] ELSE tis_uno
  BY DEF Table!GiveCardToPlayer
<1>3. ~trevived /\ (n > 0 => num[who] # -1)
  BY Zenon DEF Table!GiveCardToPlayer
<1>4. tis_uno \in [Table!Seats -> BOOLEAN] /\ tcard_num \in Int
  BY DEF Types
<1>5. /\ tis_uno' \in [Table!Seats -> BOOLEAN] /\ (n > 0 => ~tis_uno'[who])
      /\ \A s \in Table!Seats : s # who \/ n = 0 => tis_uno'[s] = tis_uno[s]
  <2>1. CASE n > 0
    <3>1. tis_uno' = [tis_uno EXCEPT ![who] = FALSE] /\ n # 0
      BY <1>2, <2>1
    <3> QED BY <1>4, <3>1
  <2>2. CASE ~(n > 0)
    <3>1. tis_uno' = tis_uno
      BY <1>2, <2>2
    <3> QED BY <1>4, <2>2, <3>1
  <2> QED BY <2>1, <2>2
<1>6. /\ thand_num' \in [Table!Seats -> Int] /\ thand_num'[who] = num[who] + n
      /\ \A s \in Table!Seats \ {who} : thand_num'[s] = num[s]
      /\ tcard_num' \in Int
  BY <1>1, <1>4
<1> QED BY <1>1, <1>3, <1>5, <1>6

\* Lines telling of cards are no rounds.
LEMMA CopiesAre ==
  ASSUME NEW who \in Table!Seats, NEW n \in Nat
  PROVE  /\ Table!Copies(n, Table!Line("12", who)) \in Seq(DownLines)
         /\ Rounds(Table!Copies(n, Table!Line("12", who))) = {}
         /\ Len(Table!Copies(n, Table!Line("12", who))) = n
         /\ \A j \in 1 .. n : Table!Copies(n, Table!Line("12", who))[j] = Table!Line("12", who)
<1>1. PICK x : x = Table!Line("12", who)
  OBVIOUS
<1>2. x \in DownLines /\ x.k = "12"
  BY <1>1 DEF Table!Line, DownLines
<1>3. PICK t : t = [j \in 1 .. n |-> x]
  OBVIOUS
<1>4. t \in Seq(DownLines) /\ Len(t) = n /\ DOMAIN t = 1 .. n /\ \A j \in 1 .. n : t[j] = x
  BY <1>2, <1>3
<1>5. t = Table!Copies(n, Table!Line("12", who))
  BY <1>1, <1>3 DEF Table!Copies
<1>6. Rounds(t) = {}
  BY <1>2, <1>4 DEF Rounds
<1> QED BY <1>1, <1>4, <1>5, <1>6

\* What GiveCardToPlayer() has told player s.
Dealt(s, who, n) == IF s = who THEN Table!Copies(n, Table!Line("12", s)) ELSE <<>>

\* SendToEveryoneInGame().
LEMMA TellIs ==
  ASSUME Types, NEW who \in Table!Seats, NEW n \in Nat, NEW x \in DownLines, Table!Tell(who, n, x)
  PROVE  /\ down' \in [Table!Seats -> Seq(DownLines)]
         /\ \A s \in Table!Seats : thand_num'[s] # -1 =>
              /\ Dealt(s, who, n) \in Seq(DownLines) /\ Rounds(Dealt(s, who, n)) = {}
              /\ down'[s] = (down[s] \o Dealt(s, who, n)) \o <<x>>
<1>1. PICK b \in [Table!Seats -> BOOLEAN] : \A s \in Table!Seats : b[s] <=> thand_num'[s] # -1
  <2>1. \A s \in Table!Seats : (thand_num'[s] # -1) \in BOOLEAN
    OBVIOUS
  <2>2. [s \in Table!Seats |-> thand_num'[s] # -1] \in [Table!Seats -> BOOLEAN]
    BY <2>1
  <2> QED BY <2>2
<1>2. PICK t \in [Table!Seats -> Seq(DownLines)] :
        \A s \in Table!Seats : t[s] = Dealt(s, who, n) /\ Rounds(t[s]) = {}
  <2>1. PICK y : y = Table!Copies(n, Table!Line("12", who))
    OBVIOUS
  <2>2. y \in Seq(DownLines) /\ Rounds(y) = {}
    BY <2>1, CopiesAre
  <2>3. <<>> \in Seq(DownLines) /\ Rounds(<<>>) = {}
    BY DEF Rounds
  <2>4. PICK e : e = <<>>
    OBVIOUS
  <2> DEFINE f == [s \in Table!Seats |-> IF s = who THEN y ELSE e]
  <2>5. f \in [Table!Seats -> Seq(DownLines)]
    BY <2>2, <2>3, <2>4
  <2>6. \A s \in Table!Seats : f[s] = Dealt(s, who, n) /\ Rounds(f[s]) = {}
    BY <2>1, <2>2, <2>3, <2>4 DEF Dealt
  <2> QED BY <2>5, <2>6
<1>3. PICK d, d2 : d = down /\ d2 = down'
  OBVIOUS
<1>4. /\ d \in [Table!Seats -> Seq(DownLines)] /\ DOMAIN d2 = Table!Seats
      /\ \A s \in Table!Seats : d2[s] = (d[s] \o t[s]) \o (IF b[s] THEN <<x>> ELSE <<>>)
  BY <1>1, <1>2, <1>3 DEF Types, Table!Tell, Dealt
<1>5. \A s \in Table!Seats : d2[s] \in Seq(DownLines)
  <2>1. PICK y : y = <<x>>
    OBVIOUS
  <2>2. y \in Seq(DownLines)
    BY <2>1
  <2> TAKE s \in Table!Seats
  <2>3. PICK v : v = d[s] \o t[s]
    OBVIOUS
  <2>4. d[s] \in Seq(DownLines) /\ t[s] \in Seq(DownLines)
    BY <1>2, <1>4
  <2>5. v \in Seq(DownLines)
    BY <2>3, <2>4, ConcatPositions
  <2>6. v \o y \in Seq(DownLines) /\ v \o <<>> = v
    BY <2>2, <2>5, ConcatPositions
  <2> QED BY <1>4, <2>1, <2>3, <2>5, <2>6
<1>6. d2 \in [Table!Seats -> Seq(DownLines)]
  <2>1. d2 = [s \in Table!Seats |-> d2[s]]
    BY <1>3 DEF Table!Tell
  <2> QED BY <1>5, <2>1
<1>7. ASSUME NEW s \in Table!Seats, thand_num'[s] # -1
      PROVE  /\ d2[s] = (d[s] \o t[s]) \o <<x>> /\ t[s] = Dealt(s, who, n)
             /\ t[s] \in Seq(DownLines) /\ Rounds(t[s]) = {}
  BY <1>1, <1>2, <1>4, <1>7
<1>8. down' \in [Table!Seats -> Seq(DownLines)]
  BY <1>3, <1>6
<1>9. ASSUME NEW s \in Table!Seats, thand_num'[s] # -1
      PROVE  /\ Dealt(s, who, n) \in Seq(DownLines) /\ Rounds(Dealt(s, who, n)) = {}
             /\ down'[s] = (down[s] \o Dealt(s, who, n)) \o <<x>>
  BY <1>3, <1>7, <1>9
<1> QED BY <1>8, <1>9

\* The server has read a line and has told no round.
LEMMA TurnsQuiet ==
  ASSUME Types, TurnsKept, twhose_round' = twhose_round, UNCHANGED <<whos_turn, moved, stray>>,
         \A s \in Table!Seats : thand_num'[s] # -1 => thand_num[s] # -1,
         \A s \in Table!Seats :
           \/ up'[s] = up[s]
           \/ up[s] # <<>> /\ up'[s] = Tail(up[s]),
         \A s \in Table!Seats : thand_num'[s] # -1 =>
           \/ down'[s] = down[s]
           \/ \E t \in Seq(DownLines) : Rounds(t) = {} /\ down'[s] = down[s] \o t
  PROVE  TurnsKept'
<1> SUFFICES ASSUME ~stray, NEW s \in Table!Seats, thand_num'[s] # -1
             PROVE  TurnKept(s, up'[s], down'[s], twhose_round, whos_turn[s], moved)
  BY DEF TurnsKept
<1>1. PICK u, u2, d, d2, cur, seen, m :
        /\ u = up[s] /\ u2 = up'[s] /\ d = down[s] /\ d2 = down'[s]
        /\ cur = twhose_round /\ seen = whos_turn[s] /\ m = moved
  OBVIOUS
<1>2. u \in Seq(UpLines) /\ d \in Seq(DownLines)
  BY <1>1 DEF Types
<1>3. TurnKept(s, u, d, cur, seen, m)
  BY <1>1 DEF TurnsKept
<1>4. TurnKept(s, u2, d, cur, seen, m)
  <2>1. CASE u2 = u
    BY <1>3, <2>1
  <2>2. CASE u # <<>> /\ u2 = Tail(u)
    BY <1>2, <1>3, <2>2, TurnServed
  <2> QED BY <1>1, <2>1, <2>2
<1>5. TurnKept(s, u2, d2, cur, seen, m)
  <2>1. CASE d2 = d
    BY <1>4, <2>1
  <2>2. ASSUME NEW t \in Seq(DownLines), Rounds(t) = {}, d2 = d \o t
        PROVE  TurnKept(s, u2, d2, cur, seen, m)
    BY <1>2, <1>4, <2>2, TurnTold
  <2> QED BY <1>1, <2>1, <2>2
<1> QED BY <1>1, <1>5

\* The server has read the first move of the player whose turn it is, or that
\* this player leaves, and has told everybody else's turn.
LEMMA TurnsPass ==
  ASSUME Types, TurnsKept, ~stray, UNCHANGED <<whos_turn, moved>>, NEW i \in Table!Seats,
         i = twhose_round, thand_num[i] # -1, up[i] # <<>>, up'[i] = Tail(up[i]),
         \A s \in Table!Seats \ {i} : up'[s] = up[s],
         FirstMove(Head(up[i])) \/ thand_num'[i] = -1,
         \A s \in Table!Seats : thand_num'[s] # -1 => thand_num[s] # -1,
         \A s \in Table!Seats : thand_num'[s] # -1 =>
           \E t \in Seq(DownLines), x \in DownLines :
             /\ Rounds(t) = {} /\ x.who \in {twhose_round', Table!None}
             /\ down'[s] = (down[s] \o t) \o <<x>>
  PROVE  TurnsKept'
<1> SUFFICES ASSUME NEW s \in Table!Seats, thand_num'[s] # -1
             PROVE  TurnKept(s, up'[s], down'[s], twhose_round', whos_turn[s], moved)
  BY DEF TurnsKept
<1>1. PICK u, u2, d, d2, cur, seen, m :
        /\ u = up[s] /\ u2 = up'[s] /\ d = down[s] /\ d2 = down'[s]
        /\ cur = twhose_round /\ seen = whos_turn[s] /\ m = moved
  OBVIOUS
<1>2. u \in Seq(UpLines) /\ d \in Seq(DownLines)
  BY <1>1 DEF Types
<1>3. TurnKept(s, u, d, cur, seen, m)
  BY <1>1 DEF TurnsKept
<1>4. PICK t \in Seq(DownLines), x \in DownLines :
        Rounds(t) = {} /\ x.who \in {twhose_round', Table!None} /\ d2 = (d \o t) \o <<x>>
  BY <1>1
<1>5. Firsts(u2) = {} /\ (seen # s \/ s \in m) /\ \A j \in Rounds(d) : d[j].who # s
  <2>1. CASE s # i
    BY <1>1, <1>3, <2>1 DEF TurnKept
  <2>2. CASE s = i
    <3>1. u # <<>> /\ u2 = Tail(u) /\ FirstMove(Head(u))
      BY <1>1, <2>2
    <3>2. /\ Head(u) = u[1] /\ 1 \in DOMAIN u
          /\ \A j \in DOMAIN u2 : j \in Nat \ {0} /\ j + 1 \in DOMAIN u /\ u2[j] = u[j + 1]
      BY <1>2, <3>1, TailPositions
    <3>3. 1 \in Firsts(u)
      BY <3>1, <3>2 DEF Firsts
    <3>4. /\ Rounds(d) = {} /\ s \in m /\ \A j \in Firsts(u) : j = 1
      BY <1>3, <3>3 DEF TurnKept
    <3>5. Firsts(u2) = {}
      BY <3>2, <3>4 DEF Firsts
    <3> QED BY <3>4, <3>5
  <2> QED BY <2>1, <2>2
<1>6. PICK v : v = d \o t
  OBVIOUS
<1>7. v \in Seq(DownLines) /\ \A j \in Rounds(v) : v[j].who # s
  <2>1. /\ v \in Seq(DownLines) /\ \A j \in DOMAIN d : j \in DOMAIN v /\ v[j] = d[j]
        /\ \A j \in DOMAIN v : j \notin DOMAIN d =>
             j - Len(d) \in DOMAIN t /\ v[j] = t[j - Len(d)]
    BY <1>2, <1>6, ConcatPositions
  <2> QED BY <1>4, <1>5, <2>1 DEF Rounds
<1>9. x.who = s => twhose_round' = s
  BY <1>4, SeatTaken
<1>8. TurnKept(s, u2, v \o <<x>>, twhose_round', seen, m)
  BY <1>5, <1>7, <1>9, TurnBegun
<1> QED BY <1>1, <1>4, <1>6, <1>8

-----------------------------------------------------------------------------
\* What a client shows, and how a line changes it.
Views == [remain : [Table!Seats -> Int], cards : Int, turn : Table!Seats \cup {Table!None}, n : Int,
          uno : SUBSET Table!Seats]
ViewOf(rem, cards, turned, n, called) ==
  [remain |-> rem, cards |-> cards, turn |-> turned, n |-> n, uno |-> called]
View(c) == ViewOf(remain[c], card_remain[c], whos_turn[c], n_remain[c], uno[c])

\* Two cards for somebody else.
FinedView(v, who) ==
  ViewOf([v.remain EXCEPT ![who] = @ + 2], v.cards - 2, v.turn, v.n,
         IF v.remain[who] = 1 THEN v.uno \ {who} ELSE v.uno)

Shows(c, v, line, w) ==
  \/ /\ line.k = "10"
     /\ w = ViewOf(line.num, line.cards, line.who, v.n, {s \in v.uno : line.num[s] < 2})
  \/ /\ line.k = "12"
     /\ w = ViewOf([v.remain EXCEPT ![c] = @ + 1], v.cards - 1, v.turn, v.n,
                   IF v.remain[c] = 1 THEN v.uno \ {c} ELSE v.uno)
  \/ line.k \in {"11", "13", "19"} /\ line.who \in {c, Table!None} /\ w = v
  \/ /\ line.k \in {"11", "13", "19"} /\ line.who \notin {c, Table!None}
     /\ w = FinedView(v, line.who)
  \/ /\ line.k = "14"
     /\ w = ViewOf(v.remain, v.cards, v.turn, v.n, v.uno \cup {line.who})
  \/ /\ line.k = "7"
     /\ w = ViewOf([v.remain EXCEPT ![line.who] = -1], v.cards, v.turn, v.n - 1, v.uno)
  \/ line.k = "15" /\ w = v

\* What a line makes of a view is a view.
LEMMA ShowsView ==
  ASSUME NEW c \in Table!Seats, NEW v \in Views, NEW line \in DownLines, NEW w,
         Shows(c, v, line, w)
  PROVE  w \in Views
<1>1. /\ line.who \in Table!Seats \cup {Table!None}
      /\ line.k \notin {"10", "13"} => line.who \in Table!Seats
      /\ line.k = "10" => line.num \in [Table!Seats -> Int] /\ line.cards \in Int
  BY DEF DownLines
<1>2. PICK rem, cards, turned, n, called :
        /\ rem = v.remain /\ cards = v.cards /\ turned = v.turn /\ n = v.n /\ called = v.uno
  OBVIOUS
<1>3. /\ rem \in [Table!Seats -> Int] /\ cards \in Int /\ turned \in Table!Seats \cup {Table!None} /\ n \in Int
      /\ called \in SUBSET Table!Seats
  BY <1>2 DEF Views
<1>4. \A a \in [Table!Seats -> Int], b \in Int, e \in Table!Seats \cup {Table!None}, f \in Int, g \in SUBSET Table!Seats :
        ViewOf(a, b, e, f, g) \in Views
  BY DEF ViewOf, Views
<1>5. PICK who : who = line.who
  OBVIOUS
<1>7. CASE line.k = "10" /\ w = ViewOf(line.num, line.cards, line.who, v.n, {s \in v.uno : line.num[s] < 2})
  <2>1. {s \in v.uno : line.num[s] < 2} \in SUBSET Table!Seats
    BY <1>2, <1>3
  <2> QED BY <1>1, <1>2, <1>3, <1>4, <1>7, <2>1
<1>8. CASE w = ViewOf([v.remain EXCEPT ![c] = @ + 1], v.cards - 1, v.turn, v.n,
                      IF v.remain[c] = 1 THEN v.uno \ {c} ELSE v.uno)
  <2>1. [rem EXCEPT ![c] = @ + 1] \in [Table!Seats -> Int] /\ cards - 1 \in Int
    BY <1>3
  <2>2. (IF rem[c] = 1 THEN called \ {c} ELSE called) \in SUBSET Table!Seats
    BY <1>3
  <2> QED BY <1>2, <1>3, <1>4, <1>8, <2>1, <2>2
<1>9. CASE line.who \notin {c, Table!None} /\ w = FinedView(v, line.who)
  <2>0. who \in Table!Seats
    BY <1>1, <1>5, <1>9
  <2>1. [rem EXCEPT ![who] = @ + 2] \in [Table!Seats -> Int] /\ cards - 2 \in Int
    BY <1>3, <2>0
  <2>2. (IF rem[who] = 1 THEN called \ {who} ELSE called) \in SUBSET Table!Seats
    BY <1>3
  <2> QED BY <1>2, <1>3, <1>4, <1>5, <1>9, <2>1, <2>2 DEF FinedView
<1>10. CASE line.k = "14" /\ w = ViewOf(v.remain, v.cards, v.turn, v.n, v.uno \cup {line.who})
  <2>1. called \cup {who} \in SUBSET Table!Seats
    BY <1>1, <1>3, <1>5, <1>10
  <2> QED BY <1>2, <1>3, <1>4, <1>5, <1>10, <2>1
<1>11. CASE line.k = "7" /\ w = ViewOf([v.remain EXCEPT ![line.who] = -1], v.cards, v.turn, v.n - 1, v.uno)
  <2>0. who \in Table!Seats
    BY <1>1, <1>5, <1>11
  <2>1. [rem EXCEPT ![who] = -1] \in [Table!Seats -> Int] /\ n - 1 \in Int
    BY <1>3, <2>0
  <2> QED BY <1>2, <1>3, <1>4, <1>5, <1>11, <2>1
<1>12. CASE w = v
  BY <1>12
<1> QED BY <1>7, <1>8, <1>9, <1>10, <1>11, <1>12 DEF Shows

\* The copy of client c is now w.
CopyIs(c, w) ==
  /\ remain' = [remain EXCEPT ![c] = w.remain] /\ card_remain' = [card_remain EXCEPT ![c] = w.cards]
  /\ whos_turn' = [whos_turn EXCEPT ![c] = w.turn] /\ n_remain' = [n_remain EXCEPT ![c] = w.n]
  /\ uno' = [uno EXCEPT ![c] = w.uno]

\* The copy of a client is a view.
LEMMA CopyIsView ==
  ASSUME Types, NEW c \in Table!Seats
  PROVE  View(c) \in Views
BY DEF Types, View, ViewOf, Views

\* A copy that is given as it was.
LEMMA SameCopy ==
  ASSUME Types, NEW c \in Table!Seats
  PROVE  /\ remain = [remain EXCEPT ![c] = remain[c]]
         /\ card_remain = [card_remain EXCEPT ![c] = card_remain[c]]
         /\ whos_turn = [whos_turn EXCEPT ![c] = whos_turn[c]]
         /\ n_remain = [n_remain EXCEPT ![c] = n_remain[c]]
         /\ uno = [uno EXCEPT ![c] = uno[c]]
BY DEF Types

\* What game() of final_cli.c does with a line.
LEMMA ReadIs ==
  ASSUME Types, NEW c \in Table!Seats, Table!Read(c)
  PROVE  /\ down[c] # <<>> /\ c \in playing /\ Head(down[c]) \in DownLines
         /\ down' \in [Table!Seats -> Seq(DownLines)] /\ down'[c] = Tail(down[c])
         /\ \A s \in Table!Seats \ {c} : down'[s] = down[s]
         /\ \E w : Shows(c, View(c), Head(down[c]), w) /\ CopyIs(c, w)
         /\ moved' = IF Head(down[c]).k = "10" THEN moved \ {c} ELSE moved
         /\ playing' = IF Head(down[c]).k = "15" THEN playing \ {c} ELSE playing
         /\ UNCHANGED <<thand_num, tcard_num, twhose_round, tis_uno, thave_uno, tover, up, stray,
                        misnamed, blurred, trevived>>
<1>1. PICK d, z, line : d = down[c] /\ z = Tail(d) /\ line = Head(d)
  OBVIOUS
<1>2. /\ down \in [Table!Seats -> Seq(DownLines)] /\ d \in Seq(DownLines) /\ d # <<>>
      /\ down' = [down EXCEPT ![c] = z] /\ c \in playing
  BY <1>1 DEF Types, Table!Read
<1>3. z \in Seq(DownLines) /\ line \in DownLines
  BY <1>1, <1>2
<1>4. UNCHANGED <<thand_num, tcard_num, twhose_round, tis_uno, thave_uno, tover, up, stray, misnamed, blurred, trevived>>
  BY DEF Table!Read, Table!serverVars, Table!callVars
<1>5. PICK rem, cards, turned, n, called, who :
        /\ rem = remain[c] /\ cards = card_remain[c] /\ turned = whos_turn[c]
        /\ n = n_remain[c] /\ called = uno[c] /\ who = line.who
  OBVIOUS
<1>6. PICK v : v = ViewOf(rem, cards, turned, n, called)
  OBVIOUS
<1>7. /\ v.remain = rem /\ v.cards = cards /\ v.turn = turned /\ v.n = n /\ v.uno = called
      /\ v = View(c)
  BY <1>5, <1>6 DEF ViewOf, View
<1>8. \A a, b, e, f, g : LET w == ViewOf(a, b, e, f, g) IN
        w.remain = a /\ w.cards = b /\ w.turn = e /\ w.n = f /\ w.uno = g
  BY DEF ViewOf
<1> DEFINE Goal == /\ \E w : Shows(c, v, line, w) /\ CopyIs(c, w)
                   /\ moved' = IF line.k = "10" THEN moved \ {c} ELSE moved
                   /\ playing' = IF line.k = "15" THEN playing \ {c} ELSE playing
<1>9. ASSUME line.k = "10", Table!ReadRound(c, line) PROVE Goal
  <2>1. PICK w : w = ViewOf(line.num, line.cards, line.who, v.n, {s \in v.uno : line.num[s] < 2})
    OBVIOUS
  <2>2. /\ w.remain = line.num /\ w.cards = line.cards /\ w.turn = line.who /\ w.n = n
        /\ w.uno = {s \in called : line.num[s] < 2}
    BY <1>7, <2>1 DEF ViewOf
  <2>3. Shows(c, v, line, w)
    BY <1>9, <2>1 DEF Shows
  <2>4. CopyIs(c, w)
    BY <1>5, <1>9, <2>2, SameCopy DEF CopyIs, Table!ReadRound
  <2> QED BY <1>9, <2>3, <2>4 DEF Table!ReadRound
<1>10. ASSUME line.k = "12", Table!ReadCard(c) PROVE Goal
  <2>1. PICK w : w = ViewOf([v.remain EXCEPT ![c] = @ + 1], v.cards - 1, v.turn, v.n,
                            IF v.remain[c] = 1 THEN v.uno \ {c} ELSE v.uno)
    OBVIOUS
  <2>2. /\ w.remain = [rem EXCEPT ![c] = @ + 1] /\ w.cards = cards - 1 /\ w.turn = turned /\ w.n = n
        /\ w.uno = IF rem[c] = 1 THEN called \ {c} ELSE called
    BY <1>7, <2>1 DEF ViewOf
  <2>3. Shows(c, v, line, w)
    BY <1>10, <2>1 DEF Shows
  <2>4. CopyIs(c, w)
    BY <1>5, <1>10, <2>2, SameCopy DEF CopyIs, Table!ReadCard
  <2> QED BY <1>10, <2>3, <2>4 DEF Table!ReadCard
<1>11. ASSUME line.k \in {"11", "13", "19"}, Table!Fined(c, line.who),
              UNCHANGED <<whos_turn, n_remain, moved, playing>>
       PROVE  Goal
  <2>1. CASE who \in {c, Table!None}
    <3>1. Shows(c, v, line, v)
      BY <1>5, <1>11, <2>1 DEF Shows
    <3>2. CopyIs(c, v)
      BY <1>5, <1>7, <1>11, <2>1, SameCopy DEF CopyIs, Table!Fined
    <3> QED BY <1>11, <3>1, <3>2
  <2>2. CASE who \notin {c, Table!None}
    <3>1. PICK w : w = FinedView(v, line.who)
      OBVIOUS
    <3>2. /\ w.remain = [rem EXCEPT ![who] = @ + 2] /\ w.cards = cards - 2 /\ w.turn = turned
          /\ w.n = n /\ w.uno = IF rem[who] = 1 THEN called \ {who} ELSE called
      BY <1>5, <1>7, <3>1 DEF ViewOf, FinedView
    <3>3. Shows(c, v, line, w)
      BY <1>5, <1>11, <2>2, <3>1 DEF Shows
    <3>4. CopyIs(c, w)
      BY <1>5, <1>11, <2>2, <3>2, SameCopy DEF CopyIs, Table!Fined
    <3> QED BY <1>11, <3>3, <3>4
  <2> QED BY <2>1, <2>2
<1>12. ASSUME line.k = "14", uno' = [uno EXCEPT ![c] = @ \cup {line.who}],
              UNCHANGED <<remain, card_remain, whos_turn, n_remain, moved, playing>>
       PROVE  Goal
  <2>1. PICK w : w = ViewOf(v.remain, v.cards, v.turn, v.n, v.uno \cup {line.who})
    OBVIOUS
  <2>2. /\ w.remain = rem /\ w.cards = cards /\ w.turn = turned /\ w.n = n
        /\ w.uno = called \cup {line.who}
    BY <1>7, <2>1 DEF ViewOf
  <2>3. Shows(c, v, line, w)
    BY <1>12, <2>1 DEF Shows
  <2>4. CopyIs(c, w)
    BY <1>5, <1>12, <2>2, SameCopy DEF CopyIs
  <2> QED BY <1>12, <2>3, <2>4
<1>13. ASSUME line.k = "7", Table!ReadLeft(c, line.who),
              UNCHANGED <<card_remain, whos_turn, uno, moved, playing>>
       PROVE  Goal
  <2>1. PICK w : w = ViewOf([v.remain EXCEPT ![line.who] = -1], v.cards, v.turn, v.n - 1, v.uno)
    OBVIOUS
  <2>2. /\ w.remain = [rem EXCEPT ![line.who] = -1] /\ w.cards = cards /\ w.turn = turned
        /\ w.n = n - 1 /\ w.uno = called
    BY <1>7, <2>1 DEF ViewOf
  <2>3. Shows(c, v, line, w)
    BY <1>13, <2>1 DEF Shows
  <2>4. CopyIs(c, w)
    BY <1>5, <1>13, <2>2, SameCopy DEF CopyIs, Table!ReadLeft
  <2> QED BY <1>13, <2>3, <2>4
<1>14. ASSUME line.k = "15", playing' = playing \ {c}, UNCHANGED <<Table!copyVars, moved>>
       PROVE  Goal
  <2>1. Shows(c, v, line, v)
    BY <1>14 DEF Shows
  <2>2. CopyIs(c, v)
    BY <1>5, <1>7, <1>14, SameCopy DEF CopyIs, Table!copyVars
  <2> QED BY <1>14, <2>1, <2>2
<1>15. Goal
  <2> HIDE DEF Goal
  <2> QED BY <1>1, <1>9, <1>10, <1>11, <1>12, <1>13, <1>14 DEF Table!Read
<1>16. /\ down' \in [Table!Seats -> Seq(DownLines)] /\ down'[c] = z
       /\ \A s \in Table!Seats \ {c} : down'[s] = down[s]
  BY <1>2, <1>3
<1> QED BY <1>1, <1>2, <1>3, <1>4, <1>7, <1>15, <1>16

\* Reading keeps what is kept of the turn.
LEMMA ReadKeepsTurns ==
  ASSUME Types, TurnsKept, NEW c \in Table!Seats, Table!Read(c)
  PROVE  Types' /\ TurnsKept'
<1>1. PICK w : Shows(c, View(c), Head(down[c]), w) /\ CopyIs(c, w)
  BY ReadIs
<1>2. /\ down[c] # <<>> /\ c \in playing /\ Head(down[c]) \in DownLines
      /\ down' \in [Table!Seats -> Seq(DownLines)] /\ down'[c] = Tail(down[c])
      /\ \A s \in Table!Seats \ {c} : down'[s] = down[s]
      /\ moved' = IF Head(down[c]).k = "10" THEN moved \ {c} ELSE moved
      /\ playing' = IF Head(down[c]).k = "15" THEN playing \ {c} ELSE playing
      /\ UNCHANGED <<thand_num, tcard_num, twhose_round, tis_uno, thave_uno, tover, up, stray, misnamed, blurred, trevived>>
  BY ReadIs
<1>3. w \in Views
  BY <1>1, <1>2, CopyIsView, ShowsView
<1>4. /\ remain' \in [Table!Seats -> [Table!Seats -> Int]] /\ card_remain' \in [Table!Seats -> Int]
      /\ whos_turn' \in [Table!Seats -> Table!Seats \cup {Table!None}] /\ n_remain' \in [Table!Seats -> Int]
      /\ uno' \in [Table!Seats -> SUBSET Table!Seats]
  <2>1. /\ w.remain \in [Table!Seats -> Int] /\ w.cards \in Int /\ w.turn \in Table!Seats \cup {Table!None}
        /\ w.n \in Int /\ w.uno \in SUBSET Table!Seats
    BY <1>3 DEF Views
  <2>2. remain' \in [Table!Seats -> [Table!Seats -> Int]] /\ uno' \in [Table!Seats -> SUBSET Table!Seats]
    BY <1>1, <2>1 DEF CopyIs, Types
  <2> QED BY <1>1, <2>1, <2>2 DEF CopyIs, Types
<1>5. Types'
  BY <1>2, <1>4 DEF Types
<1>6. ASSUME ~stray, NEW s \in Table!Seats, thand_num[s] # -1
      PROVE  TurnKept(s, up[s], down'[s], twhose_round, whos_turn'[s], moved')
  <2>1. TurnKept(s, up[s], down[s], twhose_round, whos_turn[s], moved)
    BY <1>6 DEF TurnsKept
  <2>2. CASE s # c
    <3>1. down'[s] = down[s] /\ whos_turn'[s] = whos_turn[s] /\ (s \in moved' <=> s \in moved)
      BY <1>1, <1>2, <2>2 DEF CopyIs, Types
    <3> QED BY <2>1, <3>1 DEF TurnKept
  <2>3. CASE s = c
    <3>1. PICK u, d, cur, seen, m, m2 :
            /\ u = up[c] /\ d = down[c] /\ cur = twhose_round /\ seen = whos_turn[c]
            /\ m = moved /\ m2 = moved \ {c}
      OBVIOUS
    <3>2. d \in Seq(DownLines) /\ d # <<>> /\ c \notin m2 /\ TurnKept(c, u, d, cur, seen, m)
      BY <1>2, <2>1, <2>3, <3>1 DEF Types
    <3>3. /\ Head(d).k # "10" => TurnKept(c, u, Tail(d), cur, seen, m)
          /\ Head(d).k = "10" => TurnKept(c, u, Tail(d), cur, Head(d).who, m2)
      BY <3>2, TurnRead
    <3>4. whos_turn'[c] = w.turn
      BY <1>1 DEF CopyIs, Types
    <3>5. w.turn = IF Head(d).k = "10" THEN Head(d).who ELSE seen
      BY <1>1, <3>1 DEF Shows, View, ViewOf, FinedView
    <3> QED BY <1>2, <2>3, <3>1, <3>3, <3>4, <3>5
  <2> QED BY <2>2, <2>3
<1> QED BY <1>2, <1>5, <1>6 DEF TurnsKept

-----------------------------------------------------------------------------
\* What the server's steps have in common.

\* A move: it is found or not, somebody may be dealt cards, and the next round
\* is told to everybody.
Moves(i, num, who, n) ==
  /\ num \in [Table!Seats -> Int] /\ who \in Table!Seats /\ n \in Nat
  /\ \A s \in Table!Seats \ {i} : num[s] = thand_num[s]
  /\ num[i] = thand_num[i] \/ (num[i] = thand_num[i] - 1 /\ num[i] > 0)
  /\ Table!GiveCardToPlayer(num, who, n) /\ Table!StartRound(who, n)
  /\ Table!Reads(i, "9") \/ Table!Reads(i, "10")
  /\ stray \/ Head(up[i]).again => stray'
  /\ ~tover' /\ twhose_round' \in Table!Seats /\ UNCHANGED thave_uno

\* Two cards for who, of which everybody is told, if by another's name.
Fines(who, told, named) ==
  /\ who \in Table!Seats /\ told \in {"11", "13", "19"}
  /\ IF told = "13" THEN named \in Table!Seats \cup {Table!None} ELSE named = who
  /\ Table!GiveCardToPlayer(thand_num, who, 2) /\ Table!Tell(who, 2, Table!Line(told, named))
  /\ (misnamed' <=> misnamed \/ named # who) /\ (blurred' <=> blurred \/ named # who)
  /\ UNCHANGED <<twhose_round, stray, tover>> /\ thave_uno' \in {thave_uno, Table!None}
  /\ UNCHANGED <<playing, remain, card_remain, whos_turn, n_remain, uno, moved>>
  /\ \/ up' = up
     \/ \E i \in Table!Seats : Table!Reads(i, "11") \/ Table!Reads(i, "12")

\* The branch for a card played is a move, or the end of the game.
LEMMA PlayMoves ==
  ASSUME Types, NEW i \in Table!Seats, Table!Play(i), ~tover'
  PROVE  \E num, who, n : Moves(i, num, who, n)
<1>1. PICK line : line = Head(up[i])
  OBVIOUS
<1>2. Table!Reads(i, "9") /\ stray' = (stray \/ line.again) /\ UNCHANGED thave_uno
  BY <1>1 DEF Table!Play
<1>3. thand_num[i] # -1 /\ i \in Table!Seats
  BY <1>2, ReadsIs
<1>4. PICK found \in BOOLEAN :
       LET kind == IF found THEN line.kind ELSE tcard
           num == IF found THEN [thand_num EXCEPT ![i] = @ - 1] ELSE thand_num
           next == Table!SwitchToNextPlayer(twhose_round, num, tturn)
       IN  /\ tover' = (num[i] <= 0)
           /\ tturn' = IF kind = "reverse" THEN Table!Reversed(tturn) ELSE tturn
           /\ twhose_round' =
                CASE kind = "plain" -> next
                  [] kind = "reverse" /\ tplayer_num > 2 ->
                       Table!SwitchToNextPlayer(twhose_round, num, tturn')
                  [] kind = "reverse" /\ tplayer_num <= 2 -> twhose_round
                  [] OTHER -> Table!Skipped(twhose_round, num, tturn)
           /\ Table!GiveCardToPlayer(num, next, Table!Fine(kind))
           /\ Table!StartRound(next, Table!Fine(kind))
  <2>1. (IF stray' THEN BOOLEAN ELSE {TRUE}) \subseteq BOOLEAN
    BY Zenon
  <2> QED BY <1>1, <2>1 DEF Table!Play
<1>5. PICK num : num = IF found THEN [thand_num EXCEPT ![i] = @ - 1] ELSE thand_num
  OBVIOUS
<1>6. PICK kind : kind = IF found THEN line.kind ELSE tcard
  OBVIOUS
<1>7. PICK next : next = Table!SwitchToNextPlayer(twhose_round, num, tturn)
  OBVIOUS
<1>8. /\ num \in [Table!Seats -> Int] /\ thand_num \in [Table!Seats -> Int] /\ twhose_round \in Table!Seats
      /\ \A s \in Table!Seats \ {i} : num[s] = thand_num[s]
      /\ num[i] = thand_num[i] \/ num[i] = thand_num[i] - 1
  <2>1. CASE found
    <3>1. num = [thand_num EXCEPT ![i] = @ - 1]
      BY <1>5, <2>1
    <3> QED BY <3>1 DEF Types
  <2>2. CASE ~found
    <3>1. num = thand_num
      BY <1>5, <2>2
    <3> QED BY <3>1 DEF Types
  <2> QED BY <2>1, <2>2
<1>9. next \in Table!Seats
  BY <1>7, <1>8, TableSwitch
<1>10. Table!SwitchToNextPlayer(twhose_round, num, tturn') \in Table!Seats
  BY <1>8, TableSwitch
<1>11. Table!Skipped(twhose_round, num, tturn) \in Table!Seats
  BY <1>7, <1>8, <1>9, TableSwitch DEF Table!Skipped
<1>12. twhose_round' \in Table!Seats
  <2>1. \/ twhose_round' = next \/ twhose_round' = Table!SwitchToNextPlayer(twhose_round, num, tturn')
        \/ twhose_round' = twhose_round \/ twhose_round' = Table!Skipped(twhose_round, num, tturn)
    <3>1. PICK q, turned, back, skip :
            /\ q = tplayer_num /\ turned = twhose_round'
            /\ back = Table!SwitchToNextPlayer(twhose_round, num, tturn') /\ skip = Table!Skipped(twhose_round, num, tturn)
      OBVIOUS
    <3>2. turned = CASE kind = "plain" -> next
                     [] kind = "reverse" /\ q > 2 -> back
                     [] kind = "reverse" /\ q <= 2 -> twhose_round
                     [] OTHER -> skip
      BY <1>4, <1>5, <1>6, <1>7, <3>1, Zenon
    <3>3. turned \in {next, back, twhose_round, skip}
      BY <3>2
    <3> QED BY <3>1, <3>3
  <2> QED BY <1>8, <1>9, <1>10, <1>11, <2>1
<1>13. PICK n \in Nat : n = Table!Fine(kind)
  BY DEF Table!Fine
<1>14. Table!GiveCardToPlayer(num, next, n) /\ Table!StartRound(next, n)
  BY <1>4, <1>5, <1>6, <1>7, <1>13, Zenon
<1>15. num[i] > 0
  <2>1. tover' = (num[i] <= 0)
    BY <1>4, <1>5, Zenon
  <2>2. ~(num[i] <= 0)
    BY <2>1, Zenon
  <2> QED BY <1>8, <2>2
<1>16. stray \/ line.again => stray'
  BY <1>2, Zenon
<1>17. num[i] = thand_num[i] \/ (num[i] = thand_num[i] - 1 /\ num[i] > 0)
  BY <1>8, <1>15
<1> QED BY <1>1, <1>2, <1>8, <1>9, <1>12, <1>14, <1>16, <1>17 DEF Moves

\* The branch for "skip" is a move.
LEMMA SkipMoves ==
  ASSUME Types, NEW i \in Table!Seats, Table!Skip(i)
  PROVE  Moves(i, thand_num, twhose_round, 1)
<1>1. Table!Reads(i, "10") /\ stray' = (stray \/ Head(up[i]).again) /\ UNCHANGED <<thave_uno, tover>>
  BY DEF Table!Skip
<1>2. Table!SwitchToNextPlayer(twhose_round, thand_num, tturn) \in Table!Seats
  BY TableSwitch DEF Types
<1>3. stray \/ Head(up[i]).again => stray'
  BY <1>1, Zenon
<1>4. ~tover'
  BY <1>1 DEF Table!Reads
<1> QED BY <1>1, <1>2, <1>3, <1>4 DEF Moves, Types, Table!Skip

\* A false call is fined.
LEMMA FalseCallFines ==
  ASSUME Types, NEW i \in Table!Seats, NEW k, NEW told, <<k, told>> \in {<<"11", "11">>, <<"12", "19">>},
         Table!FalseCall(i, k, told)
  PROVE  Fines(i, told, i)
<1>1. /\ Table!Reads(i, k) /\ Table!GiveCardToPlayer(thand_num, i, 2) /\ Table!Tell(i, 2, Table!Line(told, i))
      /\ UNCHANGED <<twhose_round, thave_uno, tover, stray, misnamed>>
  BY DEF Table!FalseCall
<1> QED BY <1>1, ReadsIs DEF Fines

\* A move keeps what is kept of the turn: if it is its sender's first in the
\* round it is made in the sender's turn.
LEMMA MoveKeepsTurns ==
  ASSUME Types, TurnsKept, ~trevived', NEW i \in Table!Seats, NEW num, NEW who, NEW n,
         Moves(i, num, who, n)
  PROVE  /\ Types' /\ TurnsKept'
         /\ \A s \in Table!Seats : thand_num'[s] # -1 => thand_num[s] # -1
<1>1. PICK k \in {"9", "10"} : Table!Reads(i, k)
  BY DEF Moves
<1>2. /\ up' \in [Table!Seats -> Seq(UpLines)] /\ up[i] # <<>> /\ up'[i] = Tail(up[i])
      /\ \A s \in Table!Seats \ {i} : up'[s] = up[s]
      /\ Head(up[i]) \in UpLines /\ Head(up[i]).k = k /\ ~tover /\ thand_num[i] # -1
      /\ UNCHANGED <<playing, remain, card_remain, whos_turn, n_remain, uno, moved, blurred>>
  BY <1>1, ReadsIs
<1>3. /\ num \in [Table!Seats -> Int] /\ who \in Table!Seats /\ n \in Nat
      /\ \A s \in Table!Seats \ {i} : num[s] = thand_num[s]
      /\ Table!GiveCardToPlayer(num, who, n) /\ Table!StartRound(who, n)
      /\ stray \/ Head(up[i]).again => stray'
      /\ twhose_round' \in Table!Seats /\ UNCHANGED thave_uno
  BY DEF Moves
<1>4. /\ thand_num' \in [Table!Seats -> Int] /\ thand_num'[who] = num[who] + n
      /\ \A s \in Table!Seats \ {who} : thand_num'[s] = num[s]
      /\ tcard_num' \in Int /\ tis_uno' \in [Table!Seats -> BOOLEAN] /\ (n > 0 => num[who] # -1)
  BY <1>3, GiveIs
<1>5. PICK x : x = Table!Round(thand_num', tcard_num', twhose_round')
  OBVIOUS
<1>6. x \in DownLines /\ x.k = "10" /\ x.who \in {twhose_round', Table!None}
  BY <1>3, <1>4, <1>5, ShownIs DEF Table!Round, DownLines
<1>7. Table!Tell(who, n, x)
  BY <1>3, <1>5 DEF Table!StartRound
<1>8. /\ down' \in [Table!Seats -> Seq(DownLines)]
      /\ \A s \in Table!Seats : thand_num'[s] # -1 =>
           \E t \in Seq(DownLines) : Rounds(t) = {} /\ down'[s] = (down[s] \o t) \o <<x>>
  <2>1. /\ down' \in [Table!Seats -> Seq(DownLines)]
        /\ \A s \in Table!Seats : thand_num'[s] # -1 =>
             /\ Dealt(s, who, n) \in Seq(DownLines) /\ Rounds(Dealt(s, who, n)) = {}
             /\ down'[s] = (down[s] \o Dealt(s, who, n)) \o <<x>>
    <3>1. who \in Table!Seats /\ n \in Nat /\ x \in DownLines /\ Table!Tell(who, n, x)
      BY <1>3, <1>6, <1>7
    <3> QED BY <3>1, TellIs
  <2> QED BY <2>1
<1>9. Types'
  BY <1>2, <1>3, <1>4, <1>8 DEF Types
<1>10. \A s \in Table!Seats : thand_num'[s] # -1 => thand_num[s] # -1
  <2>1. ASSUME NEW s \in Table!Seats, thand_num[s] = -1 PROVE thand_num'[s] = -1
    <3>1. num[s] = -1
      BY <1>2, <1>3, <2>1
    <3>2. CASE s = who
      BY <1>3, <1>4, <3>1, <3>2
    <3>3. CASE s # who
      BY <1>4, <3>1, <3>3
    <3> QED BY <3>2, <3>3
  <2> QED BY <2>1
<1>11. ASSUME ~stray' PROVE TurnsKept'
  <2>1. ~stray /\ FirstMove(Head(up[i]))
    BY <1>1, <1>2, <1>3, <1>11 DEF FirstMove
  <2>2. i = twhose_round
    <3>1. TurnKept(i, up[i], down[i], twhose_round, whos_turn[i], moved)
      BY <1>2, <2>1 DEF TurnsKept
    <3>2. PICK u : u = up[i]
      OBVIOUS
    <3>3. u \in Seq(UpLines) /\ u # <<>> /\ FirstMove(Head(u))
      BY <1>2, <2>1, <3>2 DEF Types
    <3>4. 1 \in Firsts(u)
      BY <3>3, TailPositions DEF Firsts
    <3> QED BY <3>1, <3>2, <3>4 DEF TurnKept
  <2> QED BY <1>2, <1>6, <1>8, <1>10, <2>1, <2>2, TurnsPass
<1> QED BY <1>9, <1>10, <1>11 DEF TurnsKept

\* A fine keeps what is kept of the turn.
LEMMA FineKeepsTurns ==
  ASSUME Types, TurnsKept, ~trevived', NEW who, NEW told, NEW named, Fines(who, told, named)
  PROVE  /\ Types' /\ TurnsKept'
         /\ \A s \in Table!Seats : thand_num'[s] # -1 => thand_num[s] # -1
<1>1. /\ who \in Table!Seats /\ told \in {"11", "13", "19"}
      /\ IF told = "13" THEN named \in Table!Seats \cup {Table!None} ELSE named = who
      /\ Table!GiveCardToPlayer(thand_num, who, 2) /\ Table!Tell(who, 2, Table!Line(told, named))
      /\ UNCHANGED <<twhose_round, stray>> /\ thave_uno' \in {thave_uno, Table!None}
      /\ UNCHANGED <<playing, remain, card_remain, whos_turn, n_remain, uno, moved>>
  BY DEF Fines
<1>2. /\ up' \in [Table!Seats -> Seq(UpLines)]
      /\ \A s \in Table!Seats : up'[s] = up[s] \/ (up[s] # <<>> /\ up'[s] = Tail(up[s]))
  <2>1. CASE up' = up
    BY <2>1 DEF Types
  <2>2. ASSUME NEW i \in Table!Seats, NEW k, Table!Reads(i, k)
        PROVE  /\ up' \in [Table!Seats -> Seq(UpLines)]
               /\ \A s \in Table!Seats : up'[s] = up[s] \/ (up[s] # <<>> /\ up'[s] = Tail(up[s]))
    BY <2>2, ReadsIs
  <2> QED BY <2>1, <2>2 DEF Fines
<1>3. thand_num \in [Table!Seats -> Int]
  BY DEF Types
<1>4. /\ thand_num' \in [Table!Seats -> Int] /\ thand_num'[who] = thand_num[who] + 2
      /\ \A s \in Table!Seats \ {who} : thand_num'[s] = thand_num[s]
      /\ tcard_num' \in Int /\ tis_uno' \in [Table!Seats -> BOOLEAN] /\ (2 > 0 => thand_num[who] # -1)
  BY <1>1, <1>3, GiveIs
<1>5. PICK x : x = Table!Line(told, named)
  OBVIOUS
<1>6. x \in DownLines /\ x.k # "10"
  BY <1>1, <1>5 DEF Table!Line, DownLines
<1>7. /\ down' \in [Table!Seats -> Seq(DownLines)]
      /\ \A s \in Table!Seats : thand_num'[s] # -1 =>
           \E t \in Seq(DownLines) : Rounds(t) = {} /\ down'[s] = (down[s] \o t) \o <<x>>
  <2>0. PICK n \in Nat : n = 2
    OBVIOUS
  <2>2. Table!Tell(who, n, x)
    BY <1>1, <1>5, <2>0
  <2>1. /\ down' \in [Table!Seats -> Seq(DownLines)]
        /\ \A s \in Table!Seats : thand_num'[s] # -1 =>
             /\ Dealt(s, who, n) \in Seq(DownLines) /\ Rounds(Dealt(s, who, n)) = {}
             /\ down'[s] = (down[s] \o Dealt(s, who, n)) \o <<x>>
    BY <1>1, <1>6, <2>2, TellIs
  <2> QED BY <2>1
<1>8. \A s \in Table!Seats : thand_num'[s] # -1 =>
         \E t \in Seq(DownLines) : Rounds(t) = {} /\ down'[s] = down[s] \o t
  <2>1. ASSUME NEW s \in Table!Seats, NEW t \in Seq(DownLines), Rounds(t) = {},
               down'[s] = (down[s] \o t) \o <<x>>
        PROVE  \E z \in Seq(DownLines) : Rounds(z) = {} /\ down'[s] = down[s] \o z
    <3>1. PICK d : d = down[s]
      OBVIOUS
    <3>2. d \in Seq(DownLines)
      BY <3>1 DEF Types
    <3>3. /\ t \o <<x>> \in Seq(DownLines) /\ Rounds(t \o <<x>>) = {}
      <4>1. PICK y : y = <<x>>
        OBVIOUS
      <4>2. y \in Seq(DownLines) /\ \A j \in DOMAIN y : y[j].k # "10"
        BY <1>6, <4>1
      <4>3. PICK z : z = t \o y
        OBVIOUS
      <4>4. /\ z \in Seq(DownLines) /\ \A j \in DOMAIN t : z[j] = t[j]
            /\ \A j \in DOMAIN z : j \notin DOMAIN t => j - Len(t) \in DOMAIN y /\ z[j] = y[j - Len(t)]
        BY <4>2, <4>3, ConcatPositions
      <4> QED BY <2>1, <4>1, <4>2, <4>3, <4>4 DEF Rounds
    <3>4. (d \o t) \o <<x>> = d \o (t \o <<x>>)
      BY <1>6, <3>2
    <3> QED BY <2>1, <3>1, <3>3, <3>4
  <2> QED BY <1>7, <2>1
<1>9. Types'
  BY <1>1, <1>2, <1>4, <1>7 DEF Types
<1>10. \A s \in Table!Seats : thand_num'[s] # -1 => thand_num[s] # -1
  BY <1>4
<1>11. TurnsKept'
  BY <1>1, <1>2, <1>8, <1>10, TurnsQuiet
<1> QED BY <1>9, <1>10, <1>11

\* The branch for who leaves, as long as two are left.
LEMMA LeaveIs ==
  ASSUME Types, NEW i \in Table!Seats, Table!Leave(i), ~tover'
  PROVE  /\ Table!Reads(i, "8") /\ UNCHANGED <<tcard_num, tis_uno, thave_uno, stray, trevived>>
         /\ thand_num' \in [Table!Seats -> Int] /\ thand_num'[i] = -1
         /\ \A s \in Table!Seats \ {i} : thand_num'[s] = thand_num[s]
         /\ twhose_round' \in Table!Seats /\ (i # twhose_round => twhose_round' = twhose_round)
         /\ down' \in [Table!Seats -> Seq(DownLines)]
         /\ Table!Line("7", i) \in DownLines /\ Table!Round(thand_num', tcard_num', twhose_round') \in DownLines
         /\ \A s \in Table!Seats : thand_num'[s] # -1 =>
              down'[s] = IF i = twhose_round
                         THEN (down[s] \o <<Table!Line("7", i)>>)
                                \o <<Table!Round(thand_num', tcard_num', twhose_round')>>
                         ELSE down[s] \o <<Table!Line("7", i)>>
<1>1. PICK num, left, wr, a, b, cards :
        /\ num = [thand_num EXCEPT ![i] = -1] /\ left = Table!Playing(num) /\ wr = twhose_round'
        /\ cards = tcard_num /\ a = Table!Line("7", i) /\ b = Table!Round(num, cards, wr)
  OBVIOUS
<1>2. /\ num \in [Table!Seats -> Int] /\ num[i] = -1 /\ \A s \in Table!Seats \ {i} : num[s] = thand_num[s]
      /\ cards \in Int
  BY <1>1 DEF Types
<1>3. /\ Table!Reads(i, "8") /\ thand_num' = num
      /\ UNCHANGED <<tcard_num, tis_uno, thave_uno, stray, trevived>>
  BY <1>1 DEF Table!Leave
<1>5. wr \in Table!Seats /\ (i # twhose_round => wr = twhose_round)
  <2>1. Table!SwitchToNextPlayer(i, num, tturn) \in Table!Seats
    BY <1>2, TableSwitch
  <2>2. wr = IF i = twhose_round /\ ~tover' THEN Table!SwitchToNextPlayer(i, num, tturn) ELSE twhose_round
    BY <1>1 DEF Table!Leave
  <2> QED BY <2>1, <2>2 DEF Types
<1>6. a \in DownLines /\ b \in DownLines
  BY <1>1, <1>2, <1>5, ShownIs DEF Table!Line, Table!Round, DownLines
<1>7. PICK t : t = IF i = twhose_round THEN <<a>> \o <<b>> ELSE <<a>> \o <<>>
  OBVIOUS
<1>8. down' = [s \in Table!Seats |-> IF s \in left THEN down[s] \o t ELSE down[s]]
  BY <1>1, <1>7 DEF Table!Leave
<1>9. t \in Seq(DownLines)
  <2>1. <<a>> \o <<b>> \in Seq(DownLines) /\ <<a>> \o <<>> \in Seq(DownLines)
    BY <1>6
  <2> QED BY <1>7, <2>1
<1>10. down \in [Table!Seats -> Seq(DownLines)]
  BY DEF Types
<1>11. \A s \in Table!Seats : down[s] \o t \in Seq(DownLines)
  BY <1>9, <1>10, ConcatPositions
<1>12. down' \in [Table!Seats -> Seq(DownLines)]
  BY <1>8, <1>10, <1>11
<1>13. ASSUME NEW s \in Table!Seats, num[s] # -1
       PROVE  down'[s] = IF i = twhose_round THEN (down[s] \o <<a>>) \o <<b>> ELSE down[s] \o <<a>>
  <2>1. s \in left
    BY <1>1, <1>13 DEF Table!Playing
  <2>2. PICK d : d = down[s]
    OBVIOUS
  <2>3. d \in Seq(DownLines) /\ down'[s] = d \o t
    BY <1>8, <1>10, <2>1, <2>2
  <2>4. d \o (<<a>> \o <<b>>) = (d \o <<a>>) \o <<b>> /\ <<a>> \o <<>> = <<a>>
    BY <1>6, <2>3
  <2> QED BY <1>7, <2>2, <2>3, <2>4
<1> QED BY <1>1, <1>2, <1>3, <1>5, <1>6, <1>12, <1>13

\* Who leaves keeps what is kept of the turn.
LEMMA LeaveKeepsTurns ==
  ASSUME Types, TurnsKept, NEW i \in Table!Seats, Table!Leave(i), ~tover'
  PROVE  /\ Types' /\ TurnsKept'
         /\ \A s \in Table!Seats : thand_num'[s] # -1 => thand_num[s] # -1
<1>1. PICK a, b : a = Table!Line("7", i) /\ b = Table!Round(thand_num', tcard_num', twhose_round')
  OBVIOUS
<1>2. /\ Table!Reads(i, "8") /\ UNCHANGED <<tcard_num, tis_uno, thave_uno, stray, trevived>>
      /\ thand_num' \in [Table!Seats -> Int] /\ thand_num'[i] = -1
      /\ \A s \in Table!Seats \ {i} : thand_num'[s] = thand_num[s]
      /\ twhose_round' \in Table!Seats /\ (i # twhose_round => twhose_round' = twhose_round)
      /\ down' \in [Table!Seats -> Seq(DownLines)] /\ a \in DownLines /\ b \in DownLines
      /\ \A s \in Table!Seats : thand_num'[s] # -1 =>
           down'[s] = IF i = twhose_round THEN (down[s] \o <<a>>) \o <<b>> ELSE down[s] \o <<a>>
  BY <1>1, LeaveIs
<1>3. /\ up' \in [Table!Seats -> Seq(UpLines)] /\ up[i] # <<>> /\ up'[i] = Tail(up[i])
      /\ \A s \in Table!Seats \ {i} : up'[s] = up[s] /\ thand_num[i] # -1
      /\ UNCHANGED <<playing, remain, card_remain, whos_turn, n_remain, uno, moved, blurred>>
  BY <1>2, ReadsIs
<1>4. Types'
  BY <1>2, <1>3 DEF Types
<1>5. \A s \in Table!Seats : thand_num'[s] # -1 => thand_num[s] # -1
  BY <1>2
<1>6. /\ a.k # "10" /\ b.who \in {twhose_round', Table!None}
      /\ <<a>> \in Seq(DownLines) /\ Rounds(<<a>>) = {}
  <2>1. a.k # "10" /\ b.who \in {twhose_round', Table!None}
    BY <1>1, ShownIs DEF Table!Line, Table!Round
  <2> QED BY <1>2, <2>1 DEF Rounds
<1>7. CASE i = twhose_round /\ ~stray
  <2>1. \A s \in Table!Seats : thand_num'[s] # -1 =>
           \E t \in Seq(DownLines), x \in DownLines :
             /\ Rounds(t) = {} /\ x.who \in {twhose_round', Table!None}
             /\ down'[s] = (down[s] \o t) \o <<x>>
    BY <1>2, <1>6, <1>7
  <2>2. thand_num[i] # -1
    BY <1>2, ReadsIs
  <2> QED BY <1>2, <1>3, <1>4, <1>5, <1>7, <2>1, <2>2, TurnsPass
<1>8. CASE i # twhose_round
  <2>1. \A s \in Table!Seats : thand_num'[s] # -1 =>
           \E t \in Seq(DownLines) : Rounds(t) = {} /\ down'[s] = down[s] \o t
    BY <1>2, <1>6, <1>8
  <2>2. \A s \in Table!Seats : up'[s] = up[s] \/ (up[s] # <<>> /\ up'[s] = Tail(up[s]))
    BY <1>3
  <2> QED BY <1>2, <1>3, <1>4, <1>5, <1>8, <2>1, <2>2, TurnsQuiet
<1>9. CASE stray
  <2>1. TurnsKept'
    BY <1>2, <1>9 DEF TurnsKept
  <2> QED BY <1>4, <1>5, <2>1
<1> QED BY <1>7, <1>8, <1>9

\* A call is noted.
LEMMA NoteIs ==
  ASSUME Types, NEW i \in Table!Seats, Table!CallUno(i) \/ Table!Catch(i)
  PROVE  /\ Table!Reads(i, "11") \/ Table!Reads(i, "12")
         /\ UNCHANGED <<thand_num, tcard_num, twhose_round, tis_uno, tover, down, stray, trevived>>
         /\ thave_uno' \in Table!Seats \cup {Table!None}
<1>1. CASE Table!CallUno(i)
  BY <1>1 DEF Table!CallUno, Table!serverVars, Types
<1>2. CASE Table!Catch(i)
  <2>1. Table!Reads(i, "12")
    BY <1>2 DEF Table!Catch
  <2>2. PICK found : /\ found \subseteq Table!Seats \cup {Table!None}
                     /\ \E h \in IF thave_uno # Table!None THEN {thave_uno} ELSE found :
                          thave_uno' \in {h, Table!None}
    BY <1>2 DEF Table!Catch, Table!Playing
  <2>3. thave_uno' \in {thave_uno, Table!None} \/ thave_uno' \in found
    BY <2>2
  <2>4. thave_uno' \in Table!Seats \cup {Table!None}
    BY <2>2, <2>3 DEF Types
  <2> QED BY <1>2, <2>1, <2>4 DEF Table!Catch, Table!serverVars
<1> QED BY <1>1, <1>2

\* Noting a call keeps what is kept of the turn.
LEMMA NoteKeepsTurns ==
  ASSUME Types, TurnsKept, NEW i \in Table!Seats, Table!CallUno(i) \/ Table!Catch(i)
  PROVE  /\ Types' /\ TurnsKept'
         /\ \A s \in Table!Seats : thand_num'[s] # -1 => thand_num[s] # -1
<1>1. PICK k : Table!Reads(i, k)
  BY NoteIs
<1>2. /\ up' \in [Table!Seats -> Seq(UpLines)] /\ up[i] # <<>> /\ up'[i] = Tail(up[i])
      /\ \A s \in Table!Seats \ {i} : up'[s] = up[s]
      /\ UNCHANGED <<playing, remain, card_remain, whos_turn, n_remain, uno, moved, blurred>>
  BY <1>1, ReadsIs
<1>3. /\ UNCHANGED <<thand_num, tcard_num, twhose_round, tis_uno, tover, down, stray, trevived>>
      /\ thave_uno' \in Table!Seats \cup {Table!None}
  BY NoteIs
<1>4. Types'
  BY <1>2, <1>3 DEF Types
<1>5. /\ \A s \in Table!Seats : up'[s] = up[s] \/ (up[s] # <<>> /\ up'[s] = Tail(up[s]))
      /\ \A s \in Table!Seats : thand_num'[s] # -1 => thand_num[s] # -1
  BY <1>2, <1>3
<1>6. TurnsKept'
  BY <1>2, <1>3, <1>5, TurnsQuiet
<1> QED BY <1>4, <1>5, <1>6

\* What the end of a sweep does.
LEMMA SettleIs ==
  ASSUME Types, Table!EndSweep
  PROVE  /\ UNCHANGED <<twhose_round, tover, up, playing, moved, stray>>
         /\ UNCHANGED <<remain, card_remain, whos_turn, n_remain, uno>>
         /\ thave_uno' = Table!None
         /\ \/ UNCHANGED <<thand_num, tcard_num, tis_uno, down, misnamed, blurred, trevived>>
            \/ /\ thave_uno \in Table!Seats /\ tis_uno' = [tis_uno EXCEPT ![thave_uno] = TRUE]
               /\ blurred' = (blurred \/ thand_num[thave_uno] > 1)
               /\ UNCHANGED <<thand_num, tcard_num, misnamed, trevived>>
               /\ Table!Tell(thave_uno, 0, Table!Line("14", thave_uno))
            \/ \E named : Fines(thave_uno, "13", named)
<1>1. /\ UNCHANGED <<twhose_round, tover, up, playing, moved, stray>>
      /\ UNCHANGED <<remain, card_remain, whos_turn, n_remain, uno>> /\ thave_uno' = Table!None
  BY DEF Table!EndSweep, Table!copyVars
<1>2. thave_uno # Table!None => thave_uno \in Table!Seats
  BY DEF Types
<1>3. CASE thave_uno = Table!None /\ UNCHANGED <<thand_num, tcard_num, tis_uno, down, misnamed, blurred, trevived>>
  BY <1>1, <1>3
<1>4. CASE /\ thave_uno # Table!None /\ tis_uno' = [tis_uno EXCEPT ![thave_uno] = TRUE]
           /\ blurred' = (blurred \/ thand_num[thave_uno] > 1)
           /\ UNCHANGED <<thand_num, tcard_num, misnamed, trevived>>
           /\ Table!Tell(thave_uno, 0, Table!Line("14", thave_uno))
  BY <1>1, <1>2, <1>4
<1>5. CASE /\ thave_uno # Table!None /\ Table!GiveCardToPlayer(thand_num, thave_uno, 2)
           /\ \E who \in Table!Names(thave_uno) :
                /\ Table!Tell(thave_uno, 2, Table!Line("13", who))
                /\ misnamed' = (misnamed \/ who # thave_uno)
                /\ blurred' = (blurred \/ who # thave_uno)
  <2>1. PICK named \in Table!Names(thave_uno) :
          /\ Table!Tell(thave_uno, 2, Table!Line("13", named))
          /\ misnamed' = (misnamed \/ named # thave_uno)
          /\ blurred' = (blurred \/ named # thave_uno)
    BY <1>5, Zenon
  <2>2. named \in Table!Seats \cup {Table!None}
    BY DEF Table!Names
  <2>3. Fines(thave_uno, "13", named)
    BY <1>1, <1>2, <1>5, <2>1, <2>2 DEF Fines
  <2> QED BY <1>1, <2>3
<1> QED BY <1>3, <1>4, <1>5, Zenon DEF Table!EndSweep

\* The end of a sweep keeps what is kept of the turn.
LEMMA SettleKeepsTurns ==
  ASSUME Types, TurnsKept, Table!EndSweep, ~trevived'
  PROVE  /\ Types' /\ TurnsKept'
         /\ \A s \in Table!Seats : thand_num'[s] # -1 => thand_num[s] # -1
<1>1. /\ UNCHANGED <<twhose_round, tover, up, playing, moved, stray>>
      /\ UNCHANGED <<remain, card_remain, whos_turn, n_remain, uno>> /\ thave_uno' = Table!None
  BY SettleIs
<1>2. CASE UNCHANGED <<thand_num, tcard_num, tis_uno, down, misnamed, blurred, trevived>>
  <2>1. Types'
    BY <1>1, <1>2 DEF Types
  <2>2. TurnsKept'
    BY <1>1, <1>2, TurnsQuiet
  <2> QED BY <1>2, <2>1, <2>2
<1>3. CASE /\ thave_uno \in Table!Seats /\ tis_uno' = [tis_uno EXCEPT ![thave_uno] = TRUE]
           /\ UNCHANGED <<thand_num, tcard_num, trevived>>
           /\ Table!Tell(thave_uno, 0, Table!Line("14", thave_uno))
  <2>1. PICK n, who, x : n \in Nat /\ n = 0 /\ who = thave_uno /\ x = Table!Line("14", who)
    OBVIOUS
  <2>2. n \in Nat /\ who \in Table!Seats /\ x \in DownLines /\ x.k # "10" /\ Table!Tell(who, n, x)
    BY <1>3, <2>1 DEF Table!Line, DownLines
  <2>3. /\ down' \in [Table!Seats -> Seq(DownLines)]
        /\ \A s \in Table!Seats : thand_num'[s] # -1 =>
             /\ Dealt(s, who, n) \in Seq(DownLines) /\ Rounds(Dealt(s, who, n)) = {}
             /\ down'[s] = (down[s] \o Dealt(s, who, n)) \o <<x>>
    BY <2>2, TellIs
  <2>4. \A s \in Table!Seats : Dealt(s, who, n) = <<>>
    BY <2>1 DEF Dealt, Table!Copies
  <2>5. <<x>> \in Seq(DownLines) /\ Rounds(<<x>>) = {}
    BY <2>2 DEF Rounds
  <2>6. \A s \in Table!Seats : thand_num'[s] # -1 => down'[s] = down[s] \o <<x>>
    <3>1. \A s \in Table!Seats : down[s] \in Seq(DownLines)
      BY DEF Types
    <3>2. \A d \in Seq(DownLines) : d \o <<>> = d
      OBVIOUS
    <3> QED BY <2>3, <2>4, <3>1, <3>2
  <2>7. Types'
    BY <1>1, <1>3, <2>3 DEF Types
  <2>8. TurnsKept'
    BY <1>1, <1>3, <2>5, <2>6, TurnsQuiet
  <2> QED BY <1>3, <2>7, <2>8
<1>4. CASE \E named : Fines(thave_uno, "13", named)
  BY <1>4, FineKeepsTurns
<1> QED BY <1>2, <1>3, <1>4, SettleIs

\* Of the seats, who has one is in the game; a number is drawn that is a seat's.
LEMMA TableBegins ==
  ASSUME Table!Init
  PROVE  /\ thand_num \in [Table!Seats -> Int] /\ tcard_num \in Int /\ twhose_round \in Table!Seats
         /\ Table!Taken \subseteq Table!Seats /\ Table!Cardinality(Table!Taken) \in Int
         /\ \A s \in Table!Seats : IF s \in Table!Taken THEN thand_num[s] >= 1 ELSE thand_num[s] = -1
<1>1. PICK taken : taken = Table!Taken
  OBVIOUS
<1>2. taken \subseteq Table!Seats /\ Table!Cardinality(taken) \in Nat
  <2>1. taken \subseteq Table!Seats
    BY <1>1 DEF Table!Taken
  <2>2. IsFiniteSet(Table!Seats)
    BY FS_Interval, GameAssumption DEF Table!Seats
  <2>3. Cardinality(taken) \in Nat
    BY <2>1, <2>2, FS_Subset, FS_CardinalityType
  <2> QED BY <2>1, <2>3, TableCardinality
<1>3. PICK n \in Nat : n = Table!Cardinality(taken)
  BY <1>2
<1>4. tcard_num \in Int
  <2>1. tcard_num = TableCards - n * TableHand - 1 /\ TableHand \in Int /\ TableCards \in Int
    BY <1>1, <1>3, TableAssumption DEF Table!Init
  <2> QED BY <2>1
<1>5. twhose_round \in Table!Seats
  <2>1. tplayer_num \in n .. ROOMCAP /\ twhose_round \in taken \cup (n .. tplayer_num - 1)
    BY <1>1, <1>3 DEF Table!Init
  <2>2. CASE twhose_round \in n .. tplayer_num - 1
    BY <2>1, <2>2, GameAssumption DEF Table!Seats
  <2> QED BY <1>2, <2>1, <2>2
<1>6. /\ thand_num \in [Table!Seats -> Int]
      /\ \A s \in Table!Seats : IF s \in Table!Taken THEN thand_num[s] >= 1 ELSE thand_num[s] = -1
  BY TableAssumption DEF Table!Init, Table!Taken
<1> QED BY <1>1, <1>2, <1>4, <1>5, <1>6

\* The game begins with the first round on its way to everybody.
LEMMA TableInitTurns == Table!Init => Types /\ TurnsKept
<1> SUFFICES ASSUME Table!Init PROVE Types /\ TurnsKept
  OBVIOUS
<1>1. PICK x : x = Table!Round(thand_num, tcard_num, twhose_round)
  OBVIOUS
<1>2. /\ thand_num \in [Table!Seats -> Int] /\ tcard_num \in Int /\ twhose_round \in Table!Seats
      /\ Table!Taken \subseteq Table!Seats /\ Table!Cardinality(Table!Taken) \in Int
  BY TableBegins
<1>3. x \in DownLines /\ x.k = "10" /\ x.who \in {twhose_round, Table!None}
  BY <1>1, <1>2, ShownIs DEF Table!Round, DownLines
<1>4. /\ up = [s \in Table!Seats |-> <<>>]
      /\ down = [s \in Table!Seats |-> IF used[s] = Table!None THEN <<>> ELSE <<x>>]
  BY <1>1 DEF Table!Init
<1>5. up \in [Table!Seats -> Seq(UpLines)] /\ down \in [Table!Seats -> Seq(DownLines)]
  <2>1. PICK y, e : y = <<x>> /\ e = <<>>
    OBVIOUS
  <2>2. y \in Seq(DownLines) /\ e \in Seq(DownLines) /\ e \in Seq(UpLines)
    BY <1>3, <2>1
  <2> QED BY <1>4, <2>1, <2>2
<1>6. /\ tis_uno \in [Table!Seats -> BOOLEAN] /\ thave_uno = Table!None /\ playing = Table!Taken /\ moved = {}
      /\ remain \in [Table!Seats -> [Table!Seats -> Int]] /\ card_remain \in [Table!Seats -> Int]
      /\ whos_turn \in [Table!Seats -> {Table!None}] /\ uno \in [Table!Seats -> SUBSET Table!Seats]
  BY DEF Table!Init
<1>7. n_remain \in [Table!Seats -> Int]
  BY <1>2 DEF Table!Init
<1>8. Types
  BY <1>2, <1>5, <1>6, <1>7 DEF Types
<1>9. ASSUME NEW c \in Table!Seats
      PROVE  TurnKept(c, up[c], down[c], twhose_round, whos_turn[c], moved)
  <2>1. Firsts(up[c]) = {}
    BY <1>4 DEF Firsts
  <2>2. \A j \in Rounds(down[c]) : j = 1 /\ down[c][j] = x
    <3>1. CASE down[c] = <<>>
      BY <3>1 DEF Rounds
    <3>2. CASE down[c] = <<x>>
      BY <3>2 DEF Rounds
    <3> QED BY <1>4, <3>1, <3>2
  <2>3. whos_turn[c] # c /\ (x.who = c => twhose_round = c)
    BY <1>3, <1>6, SeatTaken
  <2> QED BY <2>1, <2>2, <2>3 DEF TurnKept
<1> QED BY <1>8, <1>9 DEF TurnsKept

\* Every step keeps what is kept of the turn.
LEMMA StepKeepsTurns ==
  ASSUME TableInv, [Table!Next]_tableVars, Lasts'
  PROVE  /\ Lasts /\ Types' /\ TurnsKept'
         /\ \A s \in Table!Seats : thand_num'[s] # -1 => thand_num[s] # -1
<1>1. CASE UNCHANGED tableVars
  <2>1. /\ UNCHANGED <<thand_num, tcard_num, twhose_round, tis_uno, thave_uno, tover, trevived>>
        /\ UNCHANGED <<playing, moved, remain, card_remain, whos_turn, n_remain, uno, up, down, stray>>
    BY <1>1 DEF tableVars, Table!serverVars, Table!callVars, Table!copyVars
  <2>2. Lasts
    BY <2>1 DEF Lasts
  <2> QED BY <2>1, <2>2 DEF TableInv, Types, TurnsKept
<1>2. Lasts' => ~tover' /\ ~trevived'
  BY DEF Lasts
<1>3. ASSUME NEW c \in Table!Seats,
             \/ Table!TypeSkip(c) \/ Table!TypeGg(c)
             \/ \E kind \in Kinds : Table!TypeCard(c, kind)
             \/ \E t \in 0 .. TableLongMax - 1 : Table!TypeUno(c, t) \/ \E v \in Table!Seats : Table!TypeCatch(c, v, t)
      PROVE  Lasts /\ Types' /\ TurnsKept' /\ thand_num' = thand_num
  <2>1. \E x : Table!Type(c, x)
    BY <1>3, Zenon DEF Table!TypeSkip, Table!TypeGg, Table!TypeCard, Table!TypeUno, Table!TypeCatch, Table!Move
  <2>2. thand_num' = thand_num /\ tover' = tover /\ trevived' = trevived
    BY <2>1 DEF Table!Type, Table!serverVars
  <2>3. Lasts
    BY <2>2 DEF Lasts
  <2> QED BY <1>3, <2>2, <2>3, TypingKeeps DEF TableInv
<1>4. ASSUME NEW c \in Table!Seats, Table!Read(c)
      PROVE  Lasts /\ Types' /\ TurnsKept' /\ thand_num' = thand_num
  <2>1. thand_num' = thand_num /\ tover' = tover /\ trevived' = trevived
    BY <1>4 DEF Table!Read, Table!serverVars
  <2>2. Lasts
    BY <2>1 DEF Lasts
  <2> QED BY <1>4, <2>1, <2>2, ReadKeepsTurns DEF TableInv
<1> DEFINE Goal == /\ Lasts /\ Types' /\ TurnsKept'
                   /\ \A s \in Table!Seats : thand_num'[s] # -1 => thand_num[s] # -1
<1>5. (~tover /\ ~trevived) => Types /\ TurnsKept /\ Lasts
  BY DEF TableInv, Lasts
<1>6. \A num, who, n : Table!GiveCardToPlayer(num, who, n) /\ ~trevived' => ~trevived
  BY Zenon DEF Table!GiveCardToPlayer
<1>7. CASE Table!EndSweep
  <2>1. ~tover
    BY <1>7 DEF Table!EndSweep
  <2>2. ~trevived
    BY <1>2, <1>6, <1>7, Zenon DEF Table!EndSweep
  <2> QED BY <1>2, <1>5, <1>7, <2>1, <2>2, SettleKeepsTurns
<1>8. ASSUME NEW i \in Table!Seats, Table!Play(i) PROVE Goal
  <2>1. ~tover
    BY <1>8 DEF Table!Play, Table!Reads
  <2>2. ~trevived
    BY <1>2, <1>6, <1>8, Zenon DEF Table!Play
  <2>3. PICK num, who, n : Moves(i, num, who, n)
    BY <1>2, <1>5, <1>8, <2>1, <2>2, PlayMoves
  <2> QED BY <1>2, <1>5, <2>1, <2>2, <2>3, MoveKeepsTurns
<1>9. ASSUME NEW i \in Table!Seats, Table!Skip(i) PROVE Goal
  <2>1. ~tover
    BY <1>9 DEF Table!Skip, Table!Reads
  <2>2. ~trevived
    BY <1>2, <1>6, <1>9, Zenon DEF Table!Skip
  <2>3. Moves(i, thand_num, twhose_round, 1)
    BY <1>5, <1>9, <2>1, <2>2, SkipMoves
  <2> QED BY <1>2, <1>5, <2>1, <2>2, <2>3, MoveKeepsTurns
<1>10. ASSUME NEW i \in Table!Seats, NEW k, NEW told,
              <<k, told>> \in {<<"11", "11">>, <<"12", "19">>}, Table!FalseCall(i, k, told)
       PROVE  Goal
  <2>1. ~tover
    BY <1>10 DEF Table!FalseCall, Table!Reads
  <2>2. ~trevived
    BY <1>2, <1>6, <1>10, Zenon DEF Table!FalseCall
  <2>3. Fines(i, told, i)
    BY <1>5, <1>10, <2>1, <2>2, FalseCallFines
  <2> QED BY <1>2, <1>5, <2>1, <2>2, <2>3, FineKeepsTurns
<1>11. ASSUME NEW i \in Table!Seats, Table!CallUno(i) \/ Table!Catch(i) PROVE Goal
  <2>1. ~tover /\ trevived' = trevived
    BY <1>11 DEF Table!CallUno, Table!Catch, Table!Reads
  <2> QED BY <1>2, <1>5, <1>11, <2>1, NoteKeepsTurns
<1>12. ASSUME NEW i \in Table!Seats, Table!Leave(i) PROVE Goal
  <2>1. ~tover /\ trevived' = trevived
    BY <1>12 DEF Table!Leave, Table!Reads
  <2> QED BY <1>2, <1>5, <1>12, <2>1, LeaveKeepsTurns
<1>13. ASSUME NEW i \in Table!Seats, Table!FalseCall(i, "11", "11") PROVE Goal
  BY <1>10, <1>13
<1>14. ASSUME NEW i \in Table!Seats, Table!FalseCall(i, "12", "19") PROVE Goal
  BY <1>10, <1>14
<1> QED BY <1>1, <1>3, <1>4, <1>7, <1>8, <1>9, <1>11, <1>12, <1>13, <1>14 DEF Table!Next

\* What the server has read was on its way, whatever has become of the game.
UpTypes == up \in [Table!Seats -> Seq(UpLines)]

\* What the server has to read is lines of clients, to begin with.
LEMMA UpInit == Table!Init => UpTypes
BY DEF Table!Init, UpTypes

\* Lines are typed behind those on their way, and read in front of them.
LEMMA UpStep ==
  ASSUME UpTypes, [Table!Next]_tableVars
  PROVE  /\ UpTypes'
         /\ \A i \in Table!Seats : Len(up'[i]) < Len(up[i]) => \E k : Table!Reads(i, k)
<1>1. up \in [Table!Seats -> Seq(UpLines)]
  BY DEF UpTypes
<1> DEFINE Goal == /\ up' \in [Table!Seats -> Seq(UpLines)]
                   /\ \A i \in Table!Seats : Len(up'[i]) < Len(up[i]) => \E k : Table!Reads(i, k)
<1>2. ASSUME up' = up PROVE Goal
  BY <1>1, <1>2
<1>3. ASSUME NEW i \in Table!Seats, NEW k, Table!Reads(i, k) PROVE Goal
  <2>1. PICK u, z : u = up[i] /\ z = Tail(u)
    OBVIOUS
  <2>2. u \in Seq(UpLines) /\ u # <<>> /\ up' = [up EXCEPT ![i] = z]
    BY <1>1, <1>3, <2>1 DEF Table!Reads
  <2>3. z \in Seq(UpLines)
    BY <2>1, <2>2
  <2>4. up' \in [Table!Seats -> Seq(UpLines)] /\ \A s \in Table!Seats : s # i => up'[s] = up[s]
    BY <1>1, <2>2, <2>3
  <2>5. \A s \in Table!Seats : ~(Len(up[s]) < Len(up[s]))
    BY <1>1
  <2>6. \A s \in Table!Seats : Len(up'[s]) < Len(up[s]) => s = i
    BY <2>4, <2>5
  <2> QED BY <1>3, <2>4, <2>6
<1>4. ASSUME NEW c \in Table!Seats,
             \/ Table!TypeSkip(c) \/ Table!TypeGg(c)
             \/ \E kind \in Kinds : Table!TypeCard(c, kind)
             \/ \E t \in 0 .. TableLongMax - 1 : Table!TypeUno(c, t) \/ \E v \in Table!Seats : Table!TypeCatch(c, v, t)
      PROVE  Goal
  <2>1. PICK x : Table!Type(c, x) /\ x \in UpLines
    BY <1>4, TypedIs
  <2>2. PICK u, z : u = up[c] /\ z = Append(u, x)
    OBVIOUS
  <2>3. u \in Seq(UpLines) /\ up' = [up EXCEPT ![c] = z]
    BY <1>1, <2>1, <2>2 DEF Table!Type
  <2>4. z \in Seq(UpLines) /\ Len(z) = Len(u) + 1 /\ Len(u) \in Nat
    BY <2>1, <2>2, <2>3
  <2>5. /\ up' \in [Table!Seats -> Seq(UpLines)] /\ up'[c] = z /\ up[c] = u
        /\ \A s \in Table!Seats : s # c => up'[s] = up[s]
    BY <1>1, <2>2, <2>3, <2>4
  <2>6. ~(Len(z) < Len(u))
    BY <2>4
  <2>7. \A s \in Table!Seats : ~(Len(up[s]) < Len(up[s]))
    BY <1>1
  <2>8. \A s \in Table!Seats : ~(Len(up'[s]) < Len(up[s]))
    BY <2>5, <2>6, <2>7
  <2> QED BY <2>5, <2>8
<1> HIDE DEF Goal
<1>5. ASSUME Table!EndSweep PROVE Goal
  BY <1>2, <1>5 DEF Table!EndSweep
<1>6. ASSUME NEW c \in Table!Seats, Table!Read(c) PROVE Goal
  BY <1>2, <1>6 DEF Table!Read
<1>7. ASSUME NEW c \in Table!Seats,
             \/ Table!Play(c) \/ Table!Skip(c) \/ Table!FalseCall(c, "11", "11") \/ Table!FalseCall(c, "12", "19")
             \/ Table!CallUno(c) \/ Table!Catch(c) \/ Table!Leave(c)
      PROVE  Goal
  <2>1. \E k : Table!Reads(c, k)
    BY <1>7, Zenon DEF Table!Play, Table!Skip, Table!FalseCall, Table!CallUno, Table!Catch, Table!Leave
  <2> QED BY <1>3, <2>1
<1>8. ASSUME UNCHANGED tableVars PROVE Goal
  BY <1>2, <1>8 DEF tableVars
<1>9. Goal
  BY <1>4, <1>5, <1>6, <1>7, <1>8 DEF Table!Next
<1> QED BY <1>9 DEF Goal, UpTypes

\* The first move of a round that the server reads is its sender's whose turn it
\* is.
LEMMA FirstMoveStep ==
  ASSUME TableInv, UpTypes, [Table!Next]_tableVars
  PROVE  Table!FirstMoveInTurn
<1> SUFFICES ASSUME NEW i \in Table!Seats, Len(up'[i]) < Len(up[i]),
                    FirstMove(Head(up[i])), ~stray, ~trevived
             PROVE  i = twhose_round
  BY DEF Table!FirstMoveInTurn, FirstMove
<1>1. PICK k : Table!Reads(i, k)
  BY UpStep
<1>2. ~tover /\ thand_num[i] # -1 /\ up[i] # <<>>
  BY <1>1 DEF Table!Reads
<1>3. TurnsKept /\ Types
  BY <1>2 DEF TableInv, Lasts
<1>4. TurnKept(i, up[i], down[i], twhose_round, whos_turn[i], moved)
  BY <1>2, <1>3 DEF TurnsKept
<1>5. PICK u : u = up[i]
  OBVIOUS
<1>6. u \in Seq(UpLines) /\ u # <<>> /\ FirstMove(Head(u))
  BY <1>2, <1>3, <1>5 DEF Types
<1>7. 1 \in Firsts(u)
  BY <1>6, TailPositions DEF Firsts
<1> QED BY <1>4, <1>5, <1>7 DEF TurnKept

\* A player's first move in a round is read by the server in that player's turn,
\* whatever crosses it: skips, fines, calls and players who leave, for every number
\* of seats, hand and deck.
THEOREM FirstMovesInTurn == Table!Spec => MovesInTurn
<1>0. [Table!Next]_(Table!tvars) => [Table!Next]_tableVars
  BY TableVariables
<1>1. Table!Init => TableInv /\ UpTypes
  BY TableInitTurns, UpInit DEF TableInv
<1>2. TableInv /\ UpTypes /\ [Table!Next]_tableVars => TableInv' /\ UpTypes'
  BY StepKeepsTurns, UpStep DEF TableInv
<1>3. TableInv /\ UpTypes /\ [Table!Next]_tableVars => Table!FirstMoveInTurn
  BY FirstMoveStep
<1> QED BY <1>0, <1>1, <1>2, <1>3, PTL DEF Table!Spec, MovesInTurn

-----------------------------------------------------------------------------
(* Both sides of a game: the copies agree with the server's table.         *)

\* The lines s take what client c shows from v to w.
Leads(c, v, s, w) ==
  \E r \in [0 .. Len(s) -> Views] :
    /\ r[0] = v /\ r[Len(s)] = w
    /\ \A k \in 1 .. Len(s) : Shows(c, r[k - 1], s[k], r[k])

\* A line has one effect.
LEMMA ShowsOne ==
  ASSUME NEW c, NEW v, NEW line, NEW a, NEW b, Shows(c, v, line, a), Shows(c, v, line, b)
  PROVE  a = b
BY DEF Shows

\* No lines lead nowhere else.
LEMMA LeadsNone ==
  ASSUME NEW c, NEW v \in Views, NEW w
  PROVE  Leads(c, v, <<>>, w) <=> v = w
<1>1. ASSUME Leads(c, v, <<>>, w) PROVE v = w
  BY <1>1 DEF Leads
<1>2. Leads(c, v, <<>>, v)
  <2> DEFINE r == [k \in 0 .. 0 |-> v]
  <2>1. r \in [0 .. Len(<<>>) -> Views] /\ r[0] = v /\ Len(<<>>) = 0
    OBVIOUS
  <2> HIDE DEF r
  <2> QED BY <2>1 DEF Leads
<1> QED BY <1>1, <1>2

\* One line leads to what it shows.
LEMMA LeadsOne ==
  ASSUME NEW c, NEW v \in Views, NEW x, NEW w \in Views, Shows(c, v, x, w)
  PROVE  Leads(c, v, <<x>>, w)
<1> DEFINE r == [k \in 0 .. 1 |-> IF k = 0 THEN v ELSE w]
<1>1. r \in [0 .. 1 -> Views] /\ r[0] = v /\ r[1] = w
  OBVIOUS
<1>2. PICK s : s = <<x>>
  OBVIOUS
<1>3. Len(s) = 1 /\ s[1] = x
  BY <1>2
<1> HIDE DEF r
<1>4. \A k \in 1 .. 1 : k = 1 /\ k - 1 = 0
  OBVIOUS
<1>5. Leads(c, v, s, w)
  BY <1>1, <1>3, <1>4 DEF Leads
<1> QED BY <1>2, <1>5

\* Lines after lines lead on.
LEMMA LeadsOn ==
  ASSUME NEW c, NEW S, NEW s \in Seq(S), NEW t \in Seq(S), NEW v, NEW w, NEW y,
         Leads(c, v, s, w), Leads(c, w, t, y)
  PROVE  Leads(c, v, s \o t, y)
<1>1. PICK m, n : m = Len(s) /\ n = Len(t)
  OBVIOUS
<1>2. m \in Nat /\ n \in Nat
  BY <1>1
<1>3. PICK f \in [0 .. m -> Views] :
        f[0] = v /\ f[m] = w /\ \A k \in 1 .. m : Shows(c, f[k - 1], s[k], f[k])
  BY <1>1 DEF Leads
<1>4. PICK g \in [0 .. n -> Views] :
        g[0] = w /\ g[n] = y /\ \A k \in 1 .. n : Shows(c, g[k - 1], t[k], g[k])
  BY <1>1 DEF Leads
<1>5. PICK z : z = s \o t
  OBVIOUS
<1>6. /\ Len(z) = m + n /\ \A k \in 1 .. m : z[k] = s[k]
      /\ \A k \in m + 1 .. m + n : z[k] = t[k - m]
  BY <1>1, <1>5
<1> DEFINE r == [k \in 0 .. m + n |-> IF k <= m THEN f[k] ELSE g[k - m]]
<1>7. r \in [0 .. m + n -> Views]
  BY <1>2, <1>3, <1>4
<1>8. /\ \A k \in 0 .. m : r[k] = f[k]
      /\ \A k \in m .. m + n : r[k] = g[k - m]
  <2>1. \A k \in 0 .. m : r[k] = f[k]
    BY <1>2
  <2>2. \A k \in m + 1 .. m + n : r[k] = g[k - m]
    BY <1>2
  <2>3. r[m] = g[m - m]
    BY <1>2, <1>3, <1>4
  <2>4. \A k \in m .. m + n : k = m \/ k \in m + 1 .. m + n
    BY <1>2
  <2> HIDE DEF r
  <2> QED BY <2>1, <2>2, <2>3, <2>4
<1> HIDE DEF r
<1>9. r[0] = v /\ r[m + n] = y
  BY <1>2, <1>3, <1>4, <1>8
<1>10. ASSUME NEW k \in 1 .. m + n PROVE Shows(c, r[k - 1], z[k], r[k])
  <2>1. CASE k <= m
    <3>1. k \in 1 .. m /\ k - 1 \in 0 .. m /\ k \in 0 .. m
      BY <1>2, <2>1
    <3> QED BY <1>3, <1>6, <1>8, <3>1
  <2>2. CASE k > m
    <3>1. PICK j \in 1 .. n : j = k - m
      BY <1>2, <2>2
    <3>2. /\ k \in m + 1 .. m + n /\ k - 1 \in m .. m + n /\ k \in m .. m + n
          /\ (k - 1) - m = j - 1
      BY <1>2, <2>2, <3>1
    <3>3. z[k] = t[j] /\ r[k] = g[j] /\ r[k - 1] = g[j - 1]
      BY <1>6, <1>8, <3>1, <3>2
    <3> QED BY <1>4, <3>3
  <2> QED BY <1>2, <2>1, <2>2
<1>11. Leads(c, v, z, y)
  BY <1>6, <1>7, <1>9, <1>10 DEF Leads
<1> QED BY <1>5, <1>11

\* A client that reads the first line goes one step on the way.
LEMMA LeadsRead ==
  ASSUME NEW c, NEW S, NEW s \in Seq(S), s # <<>>, NEW v, NEW w, NEW x,
         Leads(c, v, s, w), Shows(c, v, Head(s), x)
  PROVE  x \in Views /\ Leads(c, x, Tail(s), w)
<1>1. PICK n, t : n = Len(s) /\ t = Tail(s)
  OBVIOUS
<1>2. /\ n \in Nat \ {0} /\ Len(t) = n - 1 /\ Head(s) = s[1]
      /\ \A k \in 1 .. n - 1 : t[k] = s[k + 1]
  BY <1>1
<1>3. PICK f \in [0 .. n -> Views] :
        f[0] = v /\ f[n] = w /\ \A k \in 1 .. n : Shows(c, f[k - 1], s[k], f[k])
  BY <1>1 DEF Leads
<1>4. f[1] = x
  <2>1. 1 \in 1 .. n /\ 1 - 1 = 0
    BY <1>2
  <2>2. Shows(c, v, s[1], f[1])
    BY <1>3, <2>1
  <2> QED BY <1>2, <2>2, ShowsOne
<1> DEFINE r == [k \in 0 .. n - 1 |-> f[k + 1]]
<1>5. r \in [0 .. n - 1 -> Views] /\ \A k \in 0 .. n - 1 : r[k] = f[k + 1]
  BY <1>2, <1>3
<1> HIDE DEF r
<1>6. r[0] = x /\ r[n - 1] = w
  <2>1. 0 \in 0 .. n - 1 /\ n - 1 \in 0 .. n - 1 /\ (n - 1) + 1 = n
    BY <1>2
  <2> QED BY <1>3, <1>4, <1>5, <2>1
<1>7. ASSUME NEW k \in 1 .. n - 1 PROVE Shows(c, r[k - 1], t[k], r[k])
  <2>1. /\ k + 1 \in 1 .. n /\ (k + 1) - 1 = k /\ k - 1 \in 0 .. n - 1 /\ k \in 0 .. n - 1
        /\ (k - 1) + 1 = k
    BY <1>2
  <2>2. Shows(c, f[k], s[k + 1], f[k + 1])
    BY <1>3, <2>1
  <2> QED BY <1>2, <1>5, <2>1, <2>2
<1>8. Leads(c, x, t, w)
  BY <1>2, <1>5, <1>6, <1>7 DEF Leads
<1>9. x \in Views
  BY <1>2, <1>3, <1>4
<1> QED BY <1>1, <1>8, <1>9

\* What a client shows when it has been told of n cards for itself.
AfterCards(c, v, n) ==
  ViewOf([v.remain EXCEPT ![c] = @ + n], v.cards - n, v.turn, v.n,
         IF v.remain[c] <= 1 /\ v.remain[c] + n > 1 THEN v.uno \ {c} ELSE v.uno)

\* The lines that tell a client of its own cards lead there.
LEMMA CardsLead ==
  ASSUME NEW c \in Table!Seats, NEW v \in Views, NEW n \in Nat
  PROVE  Leads(c, v, Table!Copies(n, Table!Line("12", c)), AfterCards(c, v, n))
<1>1. PICK rem, cards, turned, m, called :
        rem = v.remain /\ cards = v.cards /\ turned = v.turn /\ m = v.n /\ called = v.uno
  OBVIOUS
<1>2. /\ rem \in [Table!Seats -> Int] /\ cards \in Int /\ turned \in Table!Seats \cup {Table!None} /\ m \in Int
      /\ called \in SUBSET Table!Seats /\ rem[c] \in Int /\ v = ViewOf(rem, cards, turned, m, called)
  BY <1>1 DEF Views, ViewOf
<1>3. PICK after \in [0 .. n -> SUBSET Table!Seats] :
        \A k \in 0 .. n : after[k] = IF rem[c] <= 1 /\ rem[c] + k > 1 THEN called \ {c} ELSE called
  <2> DEFINE f == [k \in 0 .. n |-> IF rem[c] <= 1 /\ rem[c] + k > 1 THEN called \ {c} ELSE called]
  <2>1. f \in [0 .. n -> SUBSET Table!Seats]
    BY <1>2
  <2>2. \A k \in 0 .. n : f[k] = IF rem[c] <= 1 /\ rem[c] + k > 1 THEN called \ {c} ELSE called
    OBVIOUS
  <2> QED BY <2>1, <2>2
<1> DEFINE r == [k \in 0 .. n |->
                   ViewOf([rem EXCEPT ![c] = @ + k], cards - k, turned, m, after[k])]
<1>4. \A k \in 0 .. n : r[k] = AfterCards(c, v, k)
  BY <1>1, <1>3 DEF AfterCards
<1>5. r \in [0 .. n -> Views]
  <2>1. \A k \in 0 .. n : [rem EXCEPT ![c] = @ + k] \in [Table!Seats -> Int] /\ cards - k \in Int
    BY <1>2
  <2>2. \A k \in 0 .. n : r[k] \in Views
    BY <1>2, <1>3, <2>1 DEF Views, ViewOf
  <2> QED BY <2>2
<1>6. ASSUME NEW k \in 0 .. n
      PROVE  /\ r[k].remain = [rem EXCEPT ![c] = @ + k] /\ r[k].cards = cards - k
             /\ r[k].turn = turned /\ r[k].n = m /\ r[k].uno = after[k]
  BY DEF ViewOf
<1>7. PICK x, s : x = Table!Line("12", c) /\ s = Table!Copies(n, x)
  OBVIOUS
<1>8. x.k = "12" /\ Len(s) = n /\ \A k \in 1 .. n : s[k] = x
  <2>1. Len(s) = n /\ \A k \in 1 .. n : s[k] = x
    BY <1>7, CopiesAre
  <2> QED BY <1>7, <2>1 DEF Table!Line
<1> HIDE DEF r
<1>9. ASSUME NEW k \in 1 .. n PROVE Shows(c, r[k - 1], s[k], r[k])
  <2>1. PICK j \in 0 .. n - 1 : j = k - 1 /\ k = j + 1
    OBVIOUS
  <2>2. j \in 0 .. n /\ k \in 0 .. n /\ j \in Nat
    BY <2>1
  <2>3. PICK a, b : a = r[j] /\ b = r[k]
    OBVIOUS
  <2>4. /\ a.remain = [rem EXCEPT ![c] = @ + j] /\ a.cards = cards - j /\ a.turn = turned
        /\ a.n = m /\ a.uno = after[j]
        /\ b = ViewOf([rem EXCEPT ![c] = @ + k], cards - k, turned, m, after[k])
    BY <1>6, <2>2, <2>3 DEF r
  <2>5. [a.remain EXCEPT ![c] = @ + 1] = [rem EXCEPT ![c] = @ + k] /\ a.cards - 1 = cards - k
    <3>1. PICK p : p = [rem EXCEPT ![c] = @ + j]
      OBVIOUS
    <3>2. p \in [Table!Seats -> Int] /\ p[c] + 1 = rem[c] + k /\ \A q \in Table!Seats : q # c => p[q] = rem[q]
      <4>1. rem[c] \in Int /\ rem[c] + j \in Int /\ (rem[c] + j) + 1 = rem[c] + k
        BY <1>2, <2>1
      <4>2. PICK e \in Int : e = rem[c] + j
        BY <4>1
      <4>3. p = [rem EXCEPT ![c] = e]
        BY <3>1, <4>2
      <4>4. p \in [Table!Seats -> Int] /\ p[c] = e /\ \A q \in Table!Seats : q # c => p[q] = rem[q]
        BY <1>2, <4>3
      <4> QED BY <4>1, <4>2, <4>4
    <3>3. [p EXCEPT ![c] = @ + 1] = [rem EXCEPT ![c] = @ + k]
      BY <1>2, <3>2
    <3>4. (cards - j) - 1 = cards - k
      BY <1>2, <2>1
    <3> QED BY <2>4, <3>1, <3>3, <3>4
  <2>6. a.remain[c] = rem[c] + j
    BY <1>2, <2>4
  <2>7. (IF a.remain[c] = 1 THEN a.uno \ {c} ELSE a.uno) = after[k]
    <3>1. /\ after[j] = IF rem[c] <= 1 /\ rem[c] + j > 1 THEN called \ {c} ELSE called
          /\ after[k] = IF rem[c] <= 1 /\ rem[c] + k > 1 THEN called \ {c} ELSE called
      BY <1>3, <2>2
    <3>2. rem[c] \in Int /\ j \in Int /\ j >= 0 /\ k = j + 1
      BY <1>2, <2>1, <2>2
    <3>3. CASE rem[c] + j = 1
      <4>1. rem[c] <= 1 /\ rem[c] + k > 1 /\ ~(rem[c] + j > 1)
        BY <3>2, <3>3
      <4> QED BY <2>4, <2>6, <3>1, <3>3, <4>1
    <3>4. CASE rem[c] + j # 1
      <4>1. (rem[c] + k > 1) <=> (rem[c] + j > 1)
        BY <3>2, <3>4
      <4> QED BY <2>4, <2>6, <3>1, <3>4, <4>1
    <3> QED BY <3>3, <3>4
  <2>8. b = ViewOf([a.remain EXCEPT ![c] = @ + 1], a.cards - 1, a.turn, a.n,
                   IF a.remain[c] = 1 THEN a.uno \ {c} ELSE a.uno)
    BY <2>4, <2>5, <2>7
  <2> QED BY <1>8, <2>1, <2>3, <2>8 DEF Shows
<1>10. r[0] = v
  <2>1. 0 \in 0 .. n /\ [rem EXCEPT ![c] = @ + 0] = rem /\ cards - 0 = cards
    BY <1>2
  <2>2. after[0] = called
    <3>1. ~(rem[c] <= 1 /\ rem[c] + 0 > 1)
      BY <1>2
    <3> QED BY <1>3, <2>1, <3>1
  <2> QED BY <1>2, <2>1, <2>2 DEF r
<1>11. Leads(c, v, s, r[n])
  BY <1>5, <1>8, <1>9, <1>10 DEF Leads
<1> QED BY <1>4, <1>7, <1>11

\* A view that shows the server's table: whose turn it is and how many play; the
\* cards, unless somebody was named for somebody else (mis); and who has called,
\* unless that has happened or UNO was granted late (lt).
Fits(v, num, cards, cur, called, mis, lt) ==
  /\ v.turn = cur /\ v.n = Table!Cardinality(Table!Playing(num))
  /\ mis \/ (v.remain = num /\ v.cards = cards)
  /\ lt \/ \A s \in Table!Seats : num[s] # -1 => (s \in v.uno <=> called[s])

\* Players have cards; who has called has one card, with the same exception.
Counted(num, called, lt) ==
  /\ \A s \in Table!Seats : num[s] = -1 \/ num[s] >= 1
  /\ lt \/ \A s \in Table!Seats : called[s] /\ num[s] # -1 => num[s] = 1

\* What a client shows after GiveCardToPlayer() has told it of its cards.
AfterDeal(c, v, who, n) == IF c = who THEN AfterCards(c, v, n) ELSE v

\* What client c shows after n cards for itself, part by part.
CardsShown(c, v, n, y) ==
  /\ y \in Views /\ y.remain = [v.remain EXCEPT ![c] = @ + n] /\ y.cards = v.cards - n
  /\ y.turn = v.turn /\ y.n = v.n
  /\ y.uno = IF v.remain[c] <= 1 /\ v.remain[c] + n > 1 THEN v.uno \ {c} ELSE v.uno

\* What is then shown is a view, with n cards more.
LEMMA AfterCardsIs ==
  ASSUME NEW c \in Table!Seats, NEW v \in Views, NEW n \in Nat, NEW y, y = AfterCards(c, v, n)
  PROVE  CardsShown(c, v, n, y)
<1>1. PICK rem, cards, turned, m, called :
        rem = v.remain /\ cards = v.cards /\ turned = v.turn /\ m = v.n /\ called = v.uno
  OBVIOUS
<1>2. /\ rem \in [Table!Seats -> Int] /\ cards \in Int /\ turned \in Table!Seats \cup {Table!None} /\ m \in Int
      /\ called \in SUBSET Table!Seats
  BY <1>1 DEF Views
<1>3. PICK u : u = IF rem[c] <= 1 /\ rem[c] + n > 1 THEN called \ {c} ELSE called
  OBVIOUS
<1>4. PICK z : z = [rem EXCEPT ![c] = @ + n]
  OBVIOUS
<1>5. u \in SUBSET Table!Seats /\ z \in [Table!Seats -> Int] /\ cards - n \in Int
  BY <1>2, <1>3, <1>4
<1>6. y = ViewOf(z, cards - n, turned, m, u)
  BY <1>1, <1>3, <1>4 DEF AfterCards
<1>7. /\ y \in Views /\ y.remain = z /\ y.cards = cards - n /\ y.turn = turned /\ y.n = m
      /\ y.uno = u
  BY <1>2, <1>5, <1>6 DEF Views, ViewOf
<1> QED BY <1>1, <1>3, <1>4, <1>7 DEF CardsShown

\* What GiveCardToPlayer() tells leads every client on.
LEMMA DealtLeads ==
  ASSUME NEW c \in Table!Seats, NEW v \in Views, NEW who \in Table!Seats, NEW n \in Nat
  PROVE  /\ AfterDeal(c, v, who, n) \in Views
         /\ Leads(c, v, Dealt(c, who, n), AfterDeal(c, v, who, n))
<1>0. AfterCards(c, v, n) \in Views
  BY AfterCardsIs DEF CardsShown
<1>1. CASE c = who
  BY <1>1, <1>0, CardsLead DEF Dealt, AfterDeal
<1>2. CASE c # who
  BY <1>2, LeadsNone DEF Dealt, AfterDeal
<1> QED BY <1>1, <1>2

\* Players who stay players are as many as before.
LEMMA PlayingSame ==
  ASSUME NEW num, NEW num1, \A s \in Table!Seats : num1[s] # -1 <=> num[s] # -1
  PROVE  Table!Playing(num1) = Table!Playing(num)
BY DEF Table!Playing

\* From the hands num to num1: cards are played, and n cards dealt to who, who
\* has then called no longer.
Deals(num, called, who, n, num1, called1) ==
  /\ \A s \in Table!Seats : num1[s] # -1 <=> num[s] # -1
  /\ \A s \in Table!Seats : num1[s] = -1 \/ num1[s] >= 1
  /\ n > 0 => ~called1[who] /\ num1[who] >= 2
  /\ \A s \in Table!Seats : s # who \/ n = 0 =>
       called1[s] = called[s] /\ (num[s] # -1 => num1[s] <= num[s])

\* What a client shows as a round begins.
RoundView(z, num, cards, cur) == ViewOf(num, cards, cur, z.n, {s \in z.uno : num[s] < 2})

\* Two cards dealt to who, who has then called no longer.
TwoMore(num, called, who, num1, called1) ==
  /\ num1 = [num EXCEPT ![who] = @ + 2]
  /\ ~called1[who] /\ \A s \in Table!Seats : s # who => called1[s] = called[s]

\* A round shows the table, whatever has been dealt before it.
LEMMA RoundFits ==
  ASSUME NEW c \in Table!Seats, NEW w \in Views, NEW num \in [Table!Seats -> Int], NEW cards, NEW cur,
         NEW called, NEW lt, Fits(w, num, cards, cur, called, TRUE, lt), Counted(num, called, lt),
         NEW who \in Table!Seats, NEW n \in Nat, NEW num1 \in [Table!Seats -> Int], NEW cards1, NEW cur1,
         NEW called1, Deals(num, called, who, n, num1, called1),
         NEW y, y = RoundView(AfterDeal(c, w, who, n), num1, cards1, cur1)
  PROVE  Fits(y, num1, cards1, cur1, called1, FALSE, lt)
<1>0. /\ \A s \in Table!Seats : num1[s] # -1 <=> num[s] # -1
      /\ n > 0 => ~called1[who] /\ num1[who] >= 2
      /\ \A s \in Table!Seats : s # who \/ n = 0 =>
           called1[s] = called[s] /\ (num[s] # -1 => num1[s] <= num[s])
  BY DEF Deals
<1>1. PICK z : z = AfterDeal(c, w, who, n)
  OBVIOUS
<1>2. /\ z.n = w.n
      /\ \A s \in Table!Seats : s # who \/ n = 0 => (s \in z.uno <=> s \in w.uno)
  <2>1. CASE c = who
    <3>1. z = AfterCards(c, w, n)
      BY <1>1, <2>1 DEF AfterDeal
    <3>2. CardsShown(c, w, n, z)
      BY <3>1, AfterCardsIs
    <3>3. z.n = w.n /\ z.uno = IF w.remain[c] <= 1 /\ w.remain[c] + n > 1 THEN w.uno \ {c} ELSE w.uno
      BY <3>2 DEF CardsShown
    <3>4. n = 0 => ~(w.remain[c] <= 1 /\ w.remain[c] + n > 1)
      BY DEF Views
    <3> QED BY <2>1, <3>3, <3>4
  <2>2. CASE c # who
    BY <1>1, <2>2 DEF AfterDeal
  <2> QED BY <2>1, <2>2
<1>3. /\ y.remain = num1 /\ y.cards = cards1 /\ y.turn = cur1 /\ y.n = w.n
      /\ y.uno = {s \in z.uno : num1[s] < 2}
  BY <1>1, <1>2 DEF ViewOf, RoundView
<1>4. y.n = Table!Cardinality(Table!Playing(num1))
  BY <1>0, <1>3, PlayingSame DEF Fits
<1>5. ASSUME ~lt, NEW s \in Table!Seats, num1[s] # -1 PROVE s \in y.uno <=> called1[s]
  <2>1. /\ num[s] # -1 /\ (s \in w.uno <=> called[s])
        /\ num[s] >= 1 /\ (called[s] => num[s] = 1) /\ num[s] \in Int /\ num1[s] \in Int
    BY <1>0, <1>5 DEF Fits, Counted
  <2>2. CASE s = who /\ n > 0
    <3>1. ~called1[s] /\ num1[s] >= 2
      BY <1>0, <2>2
    <3>2. ~(num1[s] < 2)
      BY <2>1, <3>1
    <3> QED BY <1>3, <3>1, <3>2
  <2>3. CASE s # who \/ n = 0
    <3>1. called1[s] = called[s] /\ num1[s] <= num[s] /\ (s \in z.uno <=> s \in w.uno)
      BY <1>0, <1>2, <2>1, <2>3
    <3>2. called[s] => num1[s] < 2
      BY <2>1, <3>1
    <3> QED BY <1>3, <2>1, <3>1, <3>2
  <2> QED BY <2>2, <2>3
<1> QED BY <1>3, <1>4, <1>5 DEF Fits

\* Cards dealt keep the count.
LEMMA DealtCounted ==
  ASSUME NEW num \in [Table!Seats -> Int], NEW called, NEW lt, Counted(num, called, lt),
         NEW who \in Table!Seats, NEW n \in Nat, NEW num1 \in [Table!Seats -> Int], NEW called1,
         Deals(num, called, who, n, num1, called1)
  PROVE  Counted(num1, called1, lt)
<1>1. ASSUME ~lt, NEW s \in Table!Seats, called1[s], num1[s] # -1 PROVE num1[s] = 1
  <2>1. s # who \/ n = 0
    BY <1>1 DEF Deals
  <2>2. called[s] /\ num[s] # -1 /\ num1[s] <= num[s]
    BY <1>1, <2>1 DEF Deals
  <2>3. num[s] = 1 /\ num1[s] >= 1 /\ num1[s] \in Int
    BY <1>1, <2>2 DEF Counted, Deals
  <2> QED BY <2>2, <2>3
<1> QED BY <1>1 DEF Counted, Deals

\* Two cards that everybody is told of.
LEMMA FineFits ==
  ASSUME NEW w \in Views, NEW num \in [Table!Seats -> Int], NEW cards, NEW cur,
         NEW called, NEW lt, Fits(w, num, cards, cur, called, FALSE, lt), Counted(num, called, lt),
         NEW who \in Table!Seats, num[who] # -1, NEW num1 \in [Table!Seats -> Int],
         NEW called1, TwoMore(num, called, who, num1, called1)
  PROVE  /\ Fits(AfterCards(who, w, 2), num1, cards - 2, cur, called1, FALSE, lt)
         /\ FinedView(w, who) = AfterCards(who, w, 2)
<1>0. /\ num1 = [num EXCEPT ![who] = @ + 2]
      /\ ~called1[who] /\ \A s \in Table!Seats : s # who => called1[s] = called[s]
  BY DEF TwoMore
<1>1. PICK y : y = AfterCards(who, w, 2)
  OBVIOUS
<1>2. w.remain = num /\ w.cards = cards /\ w.turn = cur /\ w.n = Table!Cardinality(Table!Playing(num))
  BY DEF Fits
<1>4. num[who] >= 1 /\ num[who] \in Int
  BY DEF Counted
<1>3. /\ y.remain = num1 /\ y.cards = cards - 2 /\ y.turn = cur /\ y.n = w.n
      /\ y.uno = IF num[who] = 1 THEN w.uno \ {who} ELSE w.uno
  <2>1. PICK n \in Nat : n = 2
    OBVIOUS
  <2>2. n > 0 /\ y = AfterCards(who, w, n)
    BY <1>1, <2>1
  <2>3. /\ y.remain = [w.remain EXCEPT ![who] = @ + n] /\ y.cards = w.cards - n
        /\ y.turn = w.turn /\ y.n = w.n
        /\ y.uno = IF w.remain[who] <= 1 /\ w.remain[who] + n > 1 THEN w.uno \ {who} ELSE w.uno
    <3>1. CardsShown(who, w, n, y)
      BY <2>2, AfterCardsIs
    <3> QED BY <3>1 DEF CardsShown
  <2>4. w.remain[who] <= 1 /\ w.remain[who] + n > 1 <=> num[who] = 1
    BY <1>2, <1>4, <2>1
  <2> QED BY <1>0, <1>2, <2>1, <2>2, <2>3, <2>4
<1>8. FinedView(w, who) = y
  <2>1. w.remain[who] <= 1 /\ w.remain[who] + 2 > 1 <=> w.remain[who] = 1
    BY <1>2, <1>4
  <2> QED BY <1>1, <2>1 DEF FinedView, AfterCards
<1>5. \A s \in Table!Seats : num1[s] # -1 <=> num[s] # -1
  BY <1>0, <1>4
<1>6. y.n = Table!Cardinality(Table!Playing(num1))
  BY <1>2, <1>3, <1>5, PlayingSame
<1>7. ASSUME ~lt, NEW s \in Table!Seats, num1[s] # -1 PROVE s \in y.uno <=> called1[s]
  <2>1. num[s] # -1 /\ (s \in w.uno <=> called[s]) /\ (called[s] => num[s] = 1)
    BY <1>5, <1>7 DEF Fits, Counted
  <2>2. CASE s = who
    BY <1>0, <1>3, <2>1, <2>2
  <2>3. CASE s # who
    BY <1>0, <1>3, <2>1, <2>3
  <2> QED BY <2>2, <2>3
<1> QED BY <1>1, <1>3, <1>6, <1>7, <1>8 DEF Fits

\* Two cards more are counted.
LEMMA FineCounted ==
  ASSUME NEW num \in [Table!Seats -> Int], NEW called, NEW lt, Counted(num, called, lt),
         NEW who \in Table!Seats, num[who] # -1, NEW num1,
         NEW called1, TwoMore(num, called, who, num1, called1)
  PROVE  Counted(num1, called1, lt)
<1>0. /\ num1 = [num EXCEPT ![who] = @ + 2]
      /\ ~called1[who] /\ \A s \in Table!Seats : s # who => called1[s] = called[s]
  BY DEF TwoMore
<1>1. num[who] >= 1 /\ num[who] \in Int
  BY DEF Counted
<1>2. num1[who] = num[who] + 2 /\ \A s \in Table!Seats : s # who => num1[s] = num[s]
  BY <1>0
<1>3. num1[who] >= 1
  BY <1>1, <1>2
<1> QED BY <1>0, <1>2, <1>3 DEF Counted

\* A player has called.
LEMMA UnoFits ==
  ASSUME NEW w \in Views, NEW num \in [Table!Seats -> Int], NEW cards, NEW cur,
         NEW called \in [Table!Seats -> BOOLEAN], NEW mis, NEW lt,
         Fits(w, num, cards, cur, called, mis, lt),
         NEW who \in Table!Seats, NEW y,
         y = ViewOf(w.remain, w.cards, w.turn, w.n, w.uno \cup {who}),
         NEW called1, called1 = [called EXCEPT ![who] = TRUE]
  PROVE  Fits(y, num, cards, cur, called1, mis, lt)
<1>1. /\ ~mis => y.remain = num /\ y.cards = cards
      /\ y.turn = cur
      /\ y.n = Table!Cardinality(Table!Playing(num)) /\ y.uno = w.uno \cup {who}
  BY DEF ViewOf, Fits
<1>2. ASSUME ~lt, NEW s \in Table!Seats, num[s] # -1
      PROVE  s \in y.uno <=> called1[s]
  <2>1. s \in w.uno <=> called[s]
    BY <1>2 DEF Fits
  <2> QED BY <1>1, <2>1
<1> QED BY <1>1, <1>2 DEF Fits

\* A player has left.
LEMMA LeftFits ==
  ASSUME NEW w \in Views, NEW num \in [Table!Seats -> Int], NEW cards, NEW cur,
         NEW called, NEW mis, NEW lt, Fits(w, num, cards, cur, called, mis, lt),
         NEW i \in Table!Seats, num[i] # -1, NEW num1, num1 = [num EXCEPT ![i] = -1], NEW y,
         y = ViewOf([w.remain EXCEPT ![i] = -1], w.cards, w.turn, w.n - 1, w.uno)
  PROVE  Fits(y, num1, cards, cur, called, mis, lt)
<1>1. /\ ~mis => y.remain = num1 /\ y.cards = cards
      /\ y.turn = cur /\ y.uno = w.uno
      /\ y.n = Table!Cardinality(Table!Playing(num)) - 1
  BY DEF ViewOf, Fits
<1>2. Table!Playing(num1) = Table!Playing(num) \ {i} /\ i \in Table!Playing(num)
  BY DEF Table!Playing
<1>3. IsFiniteSet(Table!Playing(num))
  <2>1. IsFiniteSet(Table!Seats)
    BY FS_Interval, GameAssumption, TableAssumption DEF Table!Seats
  <2>2. Table!Playing(num) \subseteq Table!Seats
    BY DEF Table!Playing
  <2> QED BY <2>1, <2>2, FS_Subset
<1>4. y.n = Table!Cardinality(Table!Playing(num1))
  BY <1>1, <1>2, <1>3, FS_RemoveElement, TableCardinality
<1>5. \A s \in Table!Seats : num1[s] # -1 => num[s] # -1
  OBVIOUS
<1> QED BY <1>1, <1>4, <1>5 DEF Fits

-----------------------------------------------------------------------------
CountsKept == Counted(thand_num, tis_uno, blurred) /\ (misnamed => blurred)

\* Every client that plays is led, by the lines on their way to it, to a view of
\* the server's table as it is now.
Led(c, w) ==
  /\ Leads(c, View(c), down[c], w)
  /\ Fits(w, thand_num, tcard_num, Table!Shown(twhose_round), tis_uno, misnamed, blurred)
CopiesKept == \A c \in playing : thand_num[c] # -1 => \E w \in Views : Led(c, w)

\* Lines appended to those on their way lead further.
LEMMA LeadsTo ==
  ASSUME NEW c, NEW v, NEW d \in Seq(DownLines), NEW t \in Seq(DownLines),
         NEW x \in DownLines, NEW w, NEW z \in Views, NEW y \in Views,
         Leads(c, v, d, w), Leads(c, w, t, z), Shows(c, z, x, y)
  PROVE  Leads(c, v, (d \o t) \o <<x>>, y)
<1>1. PICK b, e : b = <<x>> /\ e = d \o t
  OBVIOUS
<1>2. b \in Seq(DownLines) /\ e \in Seq(DownLines)
  BY <1>1, ConcatPositions
<1>3. Leads(c, v, e, z)
  BY <1>1, LeadsOn
<1>4. Leads(c, z, b, y)
  BY <1>1, LeadsOne
<1>5. Leads(c, v, e \o b, y)
  BY <1>2, <1>3, <1>4, LeadsOn
<1> QED BY <1>1, <1>5

\* A move takes a card that was there and leaves one, and deals to who plays.
LEMMA MoveCounts ==
  ASSUME Types, CountsKept, NEW i \in Table!Seats, NEW num, NEW who, NEW n, ~trevived',
         Moves(i, num, who, n)
  PROVE  Deals(thand_num, tis_uno, who, n, thand_num', tis_uno')
<1>1. /\ num \in [Table!Seats -> Int] /\ who \in Table!Seats /\ n \in Nat
      /\ \A s \in Table!Seats \ {i} : num[s] = thand_num[s]
      /\ num[i] = thand_num[i] \/ (num[i] = thand_num[i] - 1 /\ num[i] > 0)
      /\ Table!GiveCardToPlayer(num, who, n)
  BY DEF Moves
<1>2. thand_num[i] # -1
  BY ReadsIs DEF Moves
<1>3. /\ thand_num' \in [Table!Seats -> Int] /\ thand_num'[who] = num[who] + n
      /\ \A s \in Table!Seats \ {who} : thand_num'[s] = num[s]
      /\ n > 0 => num[who] # -1
  BY <1>1, GiveIs
<1>4. \A s \in Table!Seats : thand_num[s] \in Int /\ (thand_num[s] = -1 \/ thand_num[s] >= 1)
  BY DEF Types, CountsKept, Counted
<1>5. \A s \in Table!Seats :
        /\ num[s] \in Int /\ (num[s] = -1 <=> thand_num[s] = -1)
        /\ num[s] = -1 \/ num[s] >= 1
        /\ num[s] <= thand_num[s]
  <2>1. ASSUME NEW s \in Table!Seats, s # i
        PROVE  /\ num[s] \in Int /\ (num[s] = -1 <=> thand_num[s] = -1)
               /\ num[s] = -1 \/ num[s] >= 1
               /\ num[s] <= thand_num[s]
    BY <1>1, <1>4, <2>1
  <2>2. /\ num[i] \in Int /\ (num[i] = -1 <=> thand_num[i] = -1)
        /\ num[i] = -1 \/ num[i] >= 1
        /\ num[i] <= thand_num[i]
    BY <1>1, <1>2, <1>4
  <2> QED BY <2>1, <2>2
<1>6. tis_uno' = IF n > 0 THEN [tis_uno EXCEPT ![who] = FALSE] ELSE tis_uno
  BY <1>1 DEF Table!GiveCardToPlayer
<1>7. /\ n > 0 => ~tis_uno'[who]
      /\ \A s \in Table!Seats : s # who \/ n = 0 => tis_uno'[s] = tis_uno[s]
  <2>1. PICK e, e1 : e = tis_uno /\ e1 = tis_uno'
    OBVIOUS
  <2>2. e \in [Table!Seats -> BOOLEAN]
    BY <2>1 DEF Types
  <2>3. CASE n > 0
    <3>1. e1 = [e EXCEPT ![who] = FALSE]
      BY <1>6, <2>1, <2>3
    <3>2. e1[who] = FALSE /\ \A s \in Table!Seats : s # who => e1[s] = e[s]
      BY <1>1, <2>2, <3>1
    <3>3. n # 0
      BY <1>1, <2>3
    <3> QED BY <2>1, <3>2, <3>3
  <2>4. CASE ~(n > 0)
    BY <1>6, <2>4
  <2> QED BY <2>3, <2>4
<1>8. \A s \in Table!Seats : s # who \/ n = 0 => thand_num'[s] = num[s]
  <2>1. n = 0 => thand_num'[who] = num[who]
    BY <1>1, <1>3
  <2> QED BY <1>3, <2>1
<1>9. n > 0 => thand_num'[who] >= 2 /\ num[who] # -1
  BY <1>1, <1>3, <1>5
<1>10. ASSUME NEW s \in Table!Seats
       PROVE  /\ thand_num'[s] # -1 <=> thand_num[s] # -1
              /\ thand_num'[s] = -1 \/ thand_num'[s] >= 1
  <2>1. CASE s # who \/ n = 0
    BY <1>5, <1>8, <2>1
  <2>2. CASE s = who /\ n # 0
    <3>1. n > 0
      BY <1>1, <2>2
    <3>2. thand_num'[s] >= 2 /\ num[s] # -1
      BY <1>9, <2>2, <3>1
    <3>3. thand_num[s] # -1 /\ thand_num'[s] \in Int
      BY <1>3, <1>5, <3>2
    <3> QED BY <3>2, <3>3
  <2> QED BY <2>1, <2>2
<1>11. \A s \in Table!Seats : s # who \/ n = 0 => thand_num'[s] <= thand_num[s]
  BY <1>5, <1>8
<1> QED BY <1>7, <1>9, <1>10, <1>11 DEF Deals

\* A move leads every client to the round that follows.
LEMMA MoveKeepsCopies ==
  ASSUME Types, CountsKept, CopiesKept, NEW i \in Table!Seats, NEW num, NEW who, NEW n, ~trevived',
         UNCHANGED used, Moves(i, num, who, n)
  PROVE  CountsKept' /\ CopiesKept'
<1>1. PICK num0, num1, cards1, cur1, called, called1, mis, lt :
        /\ num0 = thand_num /\ num1 = thand_num' /\ cards1 = tcard_num'
        /\ cur1 = Table!Shown(twhose_round') /\ called = tis_uno /\ called1 = tis_uno'
        /\ mis = misnamed /\ lt = blurred
  OBVIOUS
<1>2. Deals(num0, called, who, n, num1, called1)
  BY <1>1, MoveCounts
<1>3. /\ num0 \in [Table!Seats -> Int] /\ num1 \in [Table!Seats -> Int] /\ who \in Table!Seats /\ n \in Nat
      /\ cards1 \in Int /\ cur1 \in Table!Seats \cup {Table!None} /\ Counted(num0, called, lt)
  BY <1>1, GiveIs, ShownIs DEF Moves, Types, CountsKept
<1>4. UNCHANGED <<playing, remain, card_remain, whos_turn, n_remain, uno, moved, blurred>>
  BY ReadsIs DEF Moves
<1>5. Counted(num1, called1, lt)
  BY <1>2, <1>3, DealtCounted
<1>6. PICK x : x = Table!Round(thand_num', tcard_num', twhose_round')
  OBVIOUS
<1>7. /\ x \in DownLines /\ x.k = "10" /\ x.num = num1 /\ x.cards = cards1 /\ x.who = cur1
      /\ Table!Tell(who, n, x)
  BY <1>1, <1>3, <1>6 DEF Moves, Table!StartRound, Table!Round, DownLines
<1>11. ~misnamed' /\ Table!Shown(twhose_round)' = cur1
  BY <1>1 DEF Moves, Table!StartRound, Table!Shown
<1>10. \A s \in Table!Seats : thand_num'[s] # -1 =>
              /\ Dealt(s, who, n) \in Seq(DownLines) /\ Rounds(Dealt(s, who, n)) = {}
              /\ down'[s] = (down[s] \o Dealt(s, who, n)) \o <<x>>
  <2>1. Table!Tell(who, n, x) /\ x \in DownLines
    BY <1>7
  <2>2. who \in Table!Seats /\ n \in Nat
    BY <1>3
  <2> QED BY <2>1, <2>2, TellIs
<1>8. ASSUME NEW c \in playing, num1[c] # -1
      PROVE  \E y \in Views : /\ Leads(c, View(c), down'[c], y)
                              /\ Fits(y, num1, cards1, cur1, called1, FALSE, lt)
  <2>1. c \in Table!Seats /\ num0[c] # -1
    BY <1>2, <1>3, <1>8 DEF Types, Deals
  <2>2. PICK w \in Views : Led(c, w)
    BY <1>1, <2>1 DEF CopiesKept
  <2>3. /\ Leads(c, View(c), down[c], w)
        /\ Fits(w, num0, tcard_num, Table!Shown(twhose_round), called, mis, lt)
    BY <1>1, <2>2 DEF Led
  <2>4. PICK v, d, d1, t, z :
          /\ v = View(c) /\ d = down[c] /\ d1 = down'[c] /\ t = Dealt(c, who, n)
          /\ z = AfterDeal(c, w, who, n)
    OBVIOUS
  <2>5. d \in Seq(DownLines) /\ t \in Seq(DownLines) /\ d1 = (d \o t) \o <<x>>
    <3>1. thand_num'[c] # -1
      BY <1>1, <1>8
    <3>2. /\ Dealt(c, who, n) \in Seq(DownLines)
          /\ down'[c] = (down[c] \o Dealt(c, who, n)) \o <<x>>
      BY <1>10, <2>1, <3>1
    <3>3. down[c] \in Seq(DownLines)
      BY <2>1 DEF Types
    <3> QED BY <2>4, <3>2, <3>3
  <2>7. z \in Views /\ Leads(c, w, t, z)
    BY <1>3, <2>1, <2>4, DealtLeads
  <2>8. PICK y : y = RoundView(z, num1, cards1, cur1)
    OBVIOUS
  <2>9. Shows(c, z, x, y)
    BY <1>7, <2>8 DEF Shows, RoundView
  <2>10. y \in Views
    BY <1>7, <2>1, <2>7, <2>9, ShowsView
  <2>11. Leads(c, v, d1, y)
    BY <1>7, <2>3, <2>4, <2>5, <2>7, <2>9, <2>10, LeadsTo
  <2>12. Fits(y, num1, cards1, cur1, called1, FALSE, lt)
    <3>1. y = RoundView(AfterDeal(c, w, who, n), num1, cards1, cur1)
      BY <2>4, <2>8
    <3>2. Fits(w, num0, tcard_num, Table!Shown(twhose_round), called, TRUE, lt)
      BY <2>3 DEF Fits
    <3> QED BY <1>2, <1>3, <2>1, <3>1, <3>2, RoundFits
  <2> QED BY <2>4, <2>10, <2>11, <2>12
<1>9. \A c \in playing : View(c)' = View(c)
  BY <1>4 DEF View
<1>12. \A y : Fits(y, num1, cards1, cur1, called1, FALSE, lt) =>
              Fits(y, num1, cards1, cur1, called1, misnamed', lt)
  BY DEF Fits
<1>13. CountsKept'
  BY <1>1, <1>4, <1>5, <1>11 DEF CountsKept
<1>14. CopiesKept'
  BY <1>1, <1>4, <1>8, <1>9, <1>11, <1>12 DEF CopiesKept, Led
<1> QED BY <1>13, <1>14

\* Two cards dealt to somebody are told to everybody, if by another's name: then
\* who is named is taken to have them.
LEMMA FineKeepsCopies ==
  ASSUME Types, CountsKept, CopiesKept, NEW who, NEW told, NEW named, ~trevived', UNCHANGED used,
         Fines(who, told, named)
  PROVE  CountsKept' /\ CopiesKept'
<1>1. PICK num0, num1, cards, cards1, cur, called, called1, mis, mis1, lt, lt1 :
        /\ num0 = thand_num /\ num1 = thand_num' /\ cards = tcard_num /\ cards1 = tcard_num'
        /\ cur = Table!Shown(twhose_round) /\ called = tis_uno /\ called1 = tis_uno'
        /\ mis = misnamed /\ mis1 = misnamed' /\ lt = blurred /\ lt1 = blurred'
  OBVIOUS
<1>2. /\ who \in Table!Seats /\ told \in {"11", "13", "19"}
      /\ IF told = "13" THEN named \in Table!Seats \cup {Table!None} ELSE named = who
      /\ Table!GiveCardToPlayer(thand_num, who, 2) /\ Table!Tell(who, 2, Table!Line(told, named))
      /\ (mis1 <=> mis \/ named # who) /\ (lt1 <=> lt \/ named # who)
      /\ UNCHANGED <<twhose_round, playing, remain, card_remain, whos_turn, n_remain, uno>>
  BY <1>1 DEF Fines
<1>3. /\ num0 \in [Table!Seats -> Int] /\ called \in [Table!Seats -> BOOLEAN] /\ cards \in Int
      /\ Counted(num0, called, lt) /\ (mis => lt)
  BY <1>1 DEF Types, CountsKept
<1>4. num1 \in [Table!Seats -> Int] /\ num0[who] # -1
  <2>1. thand_num' \in [Table!Seats -> Int] /\ (2 > 0 => thand_num[who] # -1)
    BY <1>1, <1>2, <1>3, GiveIs
  <2> QED BY <1>1, <2>1
<1>5. /\ num1 = [num0 EXCEPT ![who] = @ + 2] /\ cards1 = cards - 2
      /\ called1 = [called EXCEPT ![who] = FALSE]
  BY <1>1, <1>2 DEF Table!GiveCardToPlayer
<1>6. ~called1[who] /\ \A s \in Table!Seats : s # who => called1[s] = called[s]
  <2>1. called1[who] = FALSE /\ \A s \in Table!Seats : s # who => called1[s] = called[s]
    BY <1>2, <1>3, <1>5
  <2> QED BY <2>1
<1>12. TwoMore(num0, called, who, num1, called1)
  BY <1>5, <1>6 DEF TwoMore
<1>7. Counted(num1, called1, lt)
  BY <1>2, <1>3, <1>4, <1>12, FineCounted
<1>8. PICK x, n : x = Table!Line(told, named) /\ n \in Nat /\ n = 2
  OBVIOUS
<1>9. x \in DownLines /\ x.k = told /\ x.who = named /\ Table!Tell(who, n, x)
  BY <1>2, <1>8 DEF Table!Line, DownLines
<1>13. \A s \in Table!Seats : thand_num'[s] # -1 =>
              /\ Dealt(s, who, n) \in Seq(DownLines) /\ Rounds(Dealt(s, who, n)) = {}
              /\ down'[s] = (down[s] \o Dealt(s, who, n)) \o <<x>>
  <2>1. who \in Table!Seats /\ n \in Nat /\ x \in DownLines /\ Table!Tell(who, n, x)
    BY <1>2, <1>8, <1>9
  <2> QED BY <2>1, TellIs
<1>14. \A s \in Table!Seats : num1[s] # -1 <=> num0[s] # -1
  <2>1. num0[who] \in Int /\ num0[who] >= 1
    BY <1>2, <1>3, <1>4 DEF Counted
  <2>2. num1[who] # -1
    BY <1>2, <1>3, <1>5, <2>1
  <2>3. \A s \in Table!Seats : s # who => num1[s] = num0[s]
    BY <1>3, <1>5
  <2> QED BY <1>4, <2>2, <2>3
<1>10. ASSUME NEW c \in playing, num1[c] # -1
       PROVE  \E y \in Views : /\ Leads(c, View(c), down'[c], y)
                               /\ Fits(y, num1, cards1, cur, called1, mis1, lt1)
  <2>1. c \in Table!Seats /\ num0[c] # -1
    BY <1>10, <1>14 DEF Types
  <2>2. PICK w \in Views : Led(c, w)
    BY <1>1, <2>1 DEF CopiesKept
  <2>3. Leads(c, View(c), down[c], w) /\ Fits(w, num0, cards, cur, called, mis, lt)
    BY <1>1, <2>2 DEF Led
  <2>4. PICK v, d, d1, t, z, y :
          /\ v = View(c) /\ d = down[c] /\ d1 = down'[c] /\ t = Dealt(c, who, n)
          /\ z = AfterDeal(c, w, who, n)
          /\ y = IF named \in {c, Table!None} THEN z ELSE FinedView(z, named)
    OBVIOUS
  <2>5. d \in Seq(DownLines) /\ t \in Seq(DownLines) /\ d1 = (d \o t) \o <<x>>
    <3>1. thand_num'[c] # -1
      BY <1>1, <1>10
    <3>2. /\ Dealt(c, who, n) \in Seq(DownLines)
          /\ down'[c] = (down[c] \o Dealt(c, who, n)) \o <<x>>
      BY <1>13, <2>1, <3>1
    <3>3. down[c] \in Seq(DownLines)
      BY <2>1 DEF Types
    <3> QED BY <2>4, <3>2, <3>3
  <2>7. z \in Views /\ Leads(c, w, t, z)
    BY <1>2, <1>8, <2>1, <2>4, DealtLeads
  <2>8. Shows(c, z, x, y)
    BY <1>2, <1>9, <2>4 DEF Shows
  <2>9. y \in Views
    BY <1>9, <2>1, <2>7, <2>8, ShowsView
  <2>11. Leads(c, v, d1, y)
    BY <1>9, <2>3, <2>4, <2>5, <2>7, <2>8, <2>9, LeadsTo
  <2>12. Fits(y, num1, cards1, cur, called1, mis1, lt1)
    <3>1. CASE mis1
      <4>1. z.turn = w.turn /\ z.n = w.n
        <5>1. CASE c = who
          <6>1. CardsShown(c, w, n, z)
            BY <1>8, <2>1, <2>4, <5>1, AfterCardsIs DEF AfterDeal
          <6> QED BY <6>1 DEF CardsShown
        <5>2. CASE c # who
          BY <2>4, <5>2 DEF AfterDeal
        <5> QED BY <5>1, <5>2
      <4>2. y.turn = z.turn /\ y.n = z.n
        BY <2>4 DEF FinedView, ViewOf
      <4>3. Table!Playing(num1) = Table!Playing(num0)
        BY <1>14, PlayingSame
      <4>4. lt1
        BY <1>2, <1>3, <3>1
      <4> QED BY <2>3, <3>1, <4>1, <4>2, <4>3, <4>4 DEF Fits
    <3>2. CASE ~mis1
      <4>1. named = who /\ ~mis /\ (lt1 <=> lt)
        BY <1>2, <3>2
      <4>2. Fits(w, num0, cards, cur, called, FALSE, lt)
        BY <2>3, <4>1 DEF Fits
      <4>3. /\ Fits(AfterCards(who, w, 2), num1, cards - 2, cur, called1, FALSE, lt)
            /\ FinedView(w, who) = AfterCards(who, w, 2)
        BY <1>2, <1>3, <1>4, <1>12, <4>2, FineFits
      <4>4. y = AfterCards(who, w, 2)
        <5>1. CASE c = who
          BY <1>8, <2>4, <4>1, <5>1 DEF AfterDeal
        <5>2. CASE c # who
          BY <1>2, <2>4, <4>1, <4>3, <5>2, SeatTaken DEF AfterDeal
        <5> QED BY <5>1, <5>2
      <4>5. Fits(y, num1, cards1, cur, called1, FALSE, lt)
        BY <1>5, <4>3, <4>4
      <4> QED BY <4>1, <4>5 DEF Fits
    <3> QED BY <3>1, <3>2
  <2> QED BY <2>4, <2>9, <2>11, <2>12
<1>11. \A c \in playing : View(c)' = View(c)
  BY <1>2 DEF View
<1>15. Table!Shown(twhose_round)' = cur
  BY <1>1, <1>2 DEF Table!Shown
<1>16. CountsKept'
  <2>1. Counted(num1, called1, lt1)
    BY <1>2, <1>7 DEF Counted
  <2> QED BY <1>1, <1>2, <1>3, <2>1 DEF CountsKept
<1>17. CopiesKept'
  BY <1>1, <1>2, <1>10, <1>11, <1>15 DEF CopiesKept, Led
<1> QED BY <1>16, <1>17

\* Who has called is told to everybody.
LEMMA SettleKeepsCopies ==
  ASSUME Types, CountsKept, CopiesKept, Table!EndSweep, ~trevived', UNCHANGED used
  PROVE  CountsKept' /\ CopiesKept'
<1>1. /\ UNCHANGED <<twhose_round, tover, up, playing, moved, stray>>
      /\ UNCHANGED <<remain, card_remain, whos_turn, n_remain, uno>>
  BY SettleIs
<1>2. CASE UNCHANGED <<thand_num, tcard_num, tis_uno, down, misnamed, blurred, trevived>>
  BY <1>1, <1>2 DEF CountsKept, CopiesKept, Led, View, Table!Shown
<1>3. CASE \E named : Fines(thave_uno, "13", named)
  BY <1>3, FineKeepsCopies
<1>4. CASE /\ thave_uno \in Table!Seats /\ tis_uno' = [tis_uno EXCEPT ![thave_uno] = TRUE]
           /\ blurred' = (blurred \/ thand_num[thave_uno] > 1)
           /\ UNCHANGED <<thand_num, tcard_num, misnamed, trevived>>
           /\ Table!Tell(thave_uno, 0, Table!Line("14", thave_uno))
  <2>1. PICK who, num, cards, cur, called, called1, mis, lt, lt1, x, n :
          /\ who = thave_uno /\ num = thand_num /\ cards = tcard_num
          /\ cur = Table!Shown(twhose_round) /\ called = tis_uno /\ called1 = tis_uno'
          /\ mis = misnamed /\ lt = blurred /\ lt1 = blurred'
          /\ x = Table!Line("14", who) /\ n \in Nat /\ n = 0
    OBVIOUS
  <2>2. /\ who \in Table!Seats /\ num \in [Table!Seats -> Int] /\ called \in [Table!Seats -> BOOLEAN]
        /\ called1 = [called EXCEPT ![who] = TRUE]
    BY <1>4, <2>1 DEF Types
  <2>3. (lt => lt1) /\ (num[who] > 1 => lt1)
    BY <1>4, <2>1, Zenon
  <2>4. Counted(num, called, lt) /\ (mis => lt)
    BY <2>1 DEF CountsKept
  <2>5. Counted(num, called1, lt1)
    <3>1. ASSUME ~lt1, NEW s \in Table!Seats, called1[s], num[s] # -1 PROVE num[s] = 1
      <4>1. num[s] \in Int /\ num[s] >= 1
        BY <2>2, <2>4, <3>1 DEF Counted
      <4>2. CASE s = who
        <5>1. ~(num[s] > 1)
          BY <2>3, <3>1, <4>2
        <5> QED BY <4>1, <5>1
      <4>3. CASE s # who
        <5>1. called[s]
          BY <2>2, <3>1, <4>3
        <5> QED BY <2>3, <2>4, <3>1, <5>1 DEF Counted
      <4> QED BY <4>2, <4>3
    <3> QED BY <2>4, <3>1 DEF Counted
  <2>6. x \in DownLines /\ x.k = "14" /\ x.who = who /\ Table!Tell(who, n, x)
    BY <1>4, <2>1, <2>2 DEF Table!Line, DownLines
  <2>7. \A s \in Table!Seats : thand_num'[s] # -1 =>
          /\ Dealt(s, who, n) \in Seq(DownLines) /\ Rounds(Dealt(s, who, n)) = {}
          /\ down'[s] = (down[s] \o Dealt(s, who, n)) \o <<x>>
    <3>1. Table!Tell(who, n, x) /\ x \in DownLines
      BY <2>6
    <3>2. who \in Table!Seats /\ n \in Nat
      BY <2>1, <2>2
    <3> QED BY <3>1, <3>2, TellIs
  <2>8. ASSUME NEW c \in playing, num[c] # -1
        PROVE  \E y \in Views : /\ Leads(c, View(c), down'[c], y)
                                /\ Fits(y, num, cards, cur, called1, mis, lt1)
    <3>1. c \in Table!Seats
      BY DEF Types
    <3>2. PICK w \in Views : Led(c, w)
      BY <2>1, <2>8 DEF CopiesKept
    <3>3. Leads(c, View(c), down[c], w) /\ Fits(w, num, cards, cur, called, mis, lt)
      BY <2>1, <3>2 DEF Led
    <3>4. PICK v, d, d1, t, y :
            /\ v = View(c) /\ d = down[c] /\ d1 = down'[c] /\ t = Dealt(c, who, n)
            /\ y = ViewOf(w.remain, w.cards, w.turn, w.n, w.uno \cup {who})
      OBVIOUS
    <3>5. d \in Seq(DownLines) /\ t \in Seq(DownLines) /\ d1 = (d \o t) \o <<x>>
      <4>1. thand_num'[c] # -1
        BY <1>4, <2>1, <2>8
      <4>2. /\ Dealt(c, who, n) \in Seq(DownLines)
            /\ down'[c] = (down[c] \o Dealt(c, who, n)) \o <<x>>
        BY <2>7, <3>1, <4>1
      <4>3. down[c] \in Seq(DownLines)
        BY <3>1 DEF Types
      <4> QED BY <3>4, <4>2, <4>3
    <3>6. t = <<>>
      BY <2>1, <3>4 DEF Dealt, Table!Copies
    <3>7. Leads(c, w, t, w)
      BY <3>6, LeadsNone
    <3>8. Shows(c, w, x, y)
      BY <2>6, <3>4 DEF Shows
    <3>9. y \in Views
      BY <2>6, <3>1, <3>8, ShowsView
    <3>10. Leads(c, v, d1, y)
      BY <2>6, <3>3, <3>4, <3>5, <3>7, <3>8, <3>9, LeadsTo
    <3>11. Fits(y, num, cards, cur, called1, mis, lt1)
      <4>1. y = ViewOf(w.remain, w.cards, w.turn, w.n, w.uno \cup {who})
        BY <3>4
      <4>2. Fits(y, num, cards, cur, called1, mis, lt)
        BY <2>2, <3>3, <4>1, UnoFits
      <4> QED BY <2>3, <4>2 DEF Fits
    <3> QED BY <3>4, <3>9, <3>10, <3>11
  <2>9. \A c \in playing : View(c)' = View(c)
    BY <1>1 DEF View
  <2>10. Table!Shown(twhose_round)' = cur
    BY <1>1, <2>1 DEF Table!Shown
  <2>11. CountsKept'
    BY <1>4, <2>1, <2>3, <2>4, <2>5 DEF CountsKept
  <2>12. CopiesKept'
    BY <1>1, <1>4, <2>1, <2>8, <2>9, <2>10 DEF CopiesKept, Led
  <2> QED BY <2>11, <2>12
<1> QED BY <1>2, <1>3, <1>4, SettleIs

\* Who has left is told to the others, with a new round if it was its turn.
LEMMA LeaveKeepsCopies ==
  ASSUME Types, CountsKept, CopiesKept, NEW i \in Table!Seats, Table!Leave(i), ~tover', UNCHANGED used
  PROVE  CountsKept' /\ CopiesKept'
<1>1. PICK num, num1, cards, cur, cur1, called, mis, mis1, lt, a, b, n :
        /\ num = thand_num /\ num1 = thand_num' /\ cards = tcard_num
        /\ cur = Table!Shown(twhose_round) /\ cur1 = Table!Shown(twhose_round')
        /\ called = tis_uno /\ mis = misnamed /\ mis1 = misnamed' /\ lt = blurred /\ a = Table!Line("7", i)
        /\ b = Table!Round(thand_num', tcard_num', twhose_round') /\ n \in Nat /\ n = 0
  OBVIOUS
<1>2. /\ Table!Reads(i, "8") /\ UNCHANGED <<tcard_num, tis_uno>>
      /\ thand_num' \in [Table!Seats -> Int] /\ thand_num'[i] = -1
      /\ \A s \in Table!Seats \ {i} : thand_num'[s] = thand_num[s]
      /\ i # twhose_round => twhose_round' = twhose_round
      /\ Table!Line("7", i) \in DownLines /\ Table!Round(thand_num', tcard_num', twhose_round') \in DownLines
  BY LeaveIs
<1>3. \A s \in Table!Seats : thand_num'[s] # -1 =>
        down'[s] = IF i = twhose_round THEN (down[s] \o <<a>>) \o <<b>> ELSE down[s] \o <<a>>
  BY <1>1, LeaveIs
<1>4. /\ thand_num[i] # -1
      /\ UNCHANGED <<playing, remain, card_remain, whos_turn, n_remain, uno, blurred>>
  BY <1>2, ReadsIs
<1>12. IF i = twhose_round THEN ~mis1 ELSE (mis1 <=> mis)
  BY <1>1, Zenon DEF Table!Leave
<1>5. /\ num \in [Table!Seats -> Int] /\ num1 \in [Table!Seats -> Int] /\ num[i] # -1
      /\ num1 = [num EXCEPT ![i] = -1]
  BY <1>1, <1>2, <1>4 DEF Types
<1>6. Counted(num, called, lt) /\ (mis => lt)
  BY <1>1 DEF CountsKept
<1>7. Counted(num1, called, lt)
  BY <1>5, <1>6 DEF Counted
<1>8. Deals(num1, called, i, n, num1, called)
  <2>1. \A s \in Table!Seats : num1[s] <= num1[s]
    BY <1>5
  <2>2. ~(n > 0)
    BY <1>1
  <2>3. \A s \in Table!Seats : num1[s] = -1 \/ num1[s] >= 1
    BY <1>7 DEF Counted
  <2> QED BY <2>1, <2>2, <2>3 DEF Deals
<1>9. /\ a \in DownLines /\ a.k = "7" /\ a.who = i /\ b \in DownLines /\ b.k = "10"
      /\ b.num = num1 /\ b.cards = cards /\ b.who = cur1
  BY <1>1, <1>2 DEF Table!Line, Table!Round
<1>10. ASSUME NEW c \in playing, num1[c] # -1
       PROVE  \E y \in Views : /\ Leads(c, View(c), down'[c], y)
                               /\ Fits(y, num1, cards, cur1, called, mis1, lt)
  <2>1. c \in Table!Seats /\ num[c] # -1
    BY <1>5, <1>10 DEF Types
  <2>2. PICK w \in Views : Led(c, w)
    BY <1>1, <2>1 DEF CopiesKept
  <2>3. Leads(c, View(c), down[c], w) /\ Fits(w, num, cards, cur, called, mis, lt)
    BY <1>1, <2>2 DEF Led
  <2>4. PICK v, d, d1, t, y :
          /\ v = View(c) /\ d = down[c] /\ d1 = down'[c] /\ t = <<a>>
          /\ y = ViewOf([w.remain EXCEPT ![i] = -1], w.cards, w.turn, w.n - 1, w.uno)
    OBVIOUS
  <2>5. d \in Seq(DownLines) /\ t \in Seq(DownLines)
    BY <1>9, <2>1, <2>4 DEF Types
  <2>6. d1 = IF i = twhose_round THEN (d \o t) \o <<b>> ELSE d \o t
    BY <1>1, <1>3, <1>10, <2>1, <2>4
  <2>7. Shows(c, w, a, y)
    BY <1>9, <2>4 DEF Shows
  <2>8. y \in Views
    BY <1>9, <2>1, <2>7, ShowsView
  <2>9. Leads(c, w, t, y)
    BY <2>4, <2>7, <2>8, LeadsOne
  <2>10. Fits(y, num1, cards, cur, called, mis, lt)
    BY <1>5, <2>3, <2>4, LeftFits
  <2>11. CASE i # twhose_round
    <3>1. Leads(c, v, d1, y)
      BY <2>3, <2>4, <2>5, <2>6, <2>9, <2>11, LeadsOn
    <3>2. cur1 = cur /\ (mis1 <=> mis)
      BY <1>1, <1>2, <1>12, <2>11
    <3>3. Fits(y, num1, cards, cur1, called, mis1, lt)
      BY <2>10, <3>2 DEF Fits
    <3> QED BY <2>4, <2>8, <3>1, <3>3
  <2>12. CASE i = twhose_round
    <3>1. PICK z : z = RoundView(y, num1, cards, cur1)
      OBVIOUS
    <3>2. AfterDeal(c, y, i, n) = y
      <4>1. c # i
        BY <1>5, <1>10
      <4> QED BY <4>1 DEF AfterDeal
    <3>3. z = RoundView(AfterDeal(c, y, i, n), num1, cards, cur1)
      BY <3>1, <3>2
    <3>4. Fits(z, num1, cards, cur1, called, FALSE, lt)
      <4>1. num1 \in [Table!Seats -> Int] /\ n \in Nat /\ c \in Table!Seats /\ y \in Views
        BY <1>1, <1>5, <2>1, <2>8
      <4>2. Fits(y, num1, cards, cur, called, TRUE, lt)
        BY <2>10 DEF Fits
      <4> QED BY <1>7, <1>8, <3>3, <4>1, <4>2, RoundFits
    <3>5. Shows(c, y, b, z)
      BY <1>9, <3>1 DEF Shows, RoundView
    <3>6. z \in Views
      BY <1>9, <2>1, <2>8, <3>5, ShowsView
    <3>7. Leads(c, v, d1, z)
      <4>1. d1 = (d \o t) \o <<b>>
        BY <2>6, <2>12
      <4>2. Leads(c, v, (d \o t) \o <<b>>, z)
        BY <1>9, <2>3, <2>4, <2>5, <2>8, <2>9, <3>5, <3>6, LeadsTo
      <4> QED BY <4>1, <4>2
    <3>8. Fits(z, num1, cards, cur1, called, mis1, lt)
      BY <3>4 DEF Fits
    <3> QED BY <2>4, <3>6, <3>7, <3>8
  <2> QED BY <2>11, <2>12
<1>11. \A c \in playing : View(c)' = View(c)
  BY <1>4 DEF View
<1>13. Table!Shown(twhose_round)' = cur1
  BY <1>1 DEF Table!Shown
<1>14. CountsKept'
  BY <1>1, <1>2, <1>4, <1>6, <1>7, <1>12 DEF CountsKept
<1>15. CopiesKept'
  BY <1>1, <1>2, <1>4, <1>10, <1>11, <1>13 DEF CopiesKept, Led
<1> QED BY <1>14, <1>15

\* Reading a line goes one step on the way.
LEMMA ReadKeepsCopies ==
  ASSUME Types, CountsKept, CopiesKept, NEW c \in Table!Seats, Table!Read(c), UNCHANGED used
  PROVE  CountsKept' /\ CopiesKept'
<1>1. PICK x : Shows(c, View(c), Head(down[c]), x) /\ CopyIs(c, x)
  BY ReadIs
<1>2. /\ down[c] # <<>> /\ c \in playing /\ Head(down[c]) \in DownLines
      /\ down'[c] = Tail(down[c])
      /\ \A s \in Table!Seats \ {c} : down'[s] = down[s]
      /\ playing' = IF Head(down[c]).k = "15" THEN playing \ {c} ELSE playing
      /\ UNCHANGED <<thand_num, tcard_num, twhose_round, tis_uno, misnamed, blurred>>
  BY ReadIs
<1>3. CountsKept'
  BY <1>2 DEF CountsKept
<1>4. x \in Views
  BY <1>1, <1>2, CopyIsView, ShowsView
<1>5. View(c)' = x
  <2>1. /\ remain'[c] = x.remain /\ card_remain'[c] = x.cards /\ whos_turn'[c] = x.turn
        /\ n_remain'[c] = x.n /\ uno'[c] = x.uno
    BY <1>1 DEF CopyIs, Types
  <2>2. x = ViewOf(x.remain, x.cards, x.turn, x.n, x.uno)
    BY <1>4 DEF Views, ViewOf
  <2>3. View(c)' = ViewOf(remain'[c], card_remain'[c], whos_turn'[c], n_remain'[c], uno'[c])
    BY DEF View
  <2> QED BY <2>1, <2>2, <2>3
<1>6. ASSUME NEW s \in playing', thand_num'[s] # -1
      PROVE  \E w \in Views : /\ Leads(s, View(s)', down'[s], w)
                              /\ Fits(w, thand_num, tcard_num, Table!Shown(twhose_round), tis_uno, misnamed, blurred)
  <2>1. s \in playing /\ s \in Table!Seats /\ thand_num[s] # -1
    BY <1>2, <1>6 DEF Types
  <2>2. PICK w \in Views : Led(s, w)
    BY <2>1 DEF CopiesKept
  <2>3. /\ Leads(s, View(s), down[s], w)
        /\ Fits(w, thand_num, tcard_num, Table!Shown(twhose_round), tis_uno, misnamed, blurred)
    BY <2>2 DEF Led
  <2>4. CASE s = c
    <3>1. PICK d, v : d = down[c] /\ v = View(c)
      OBVIOUS
    <3>2. d \in Seq(DownLines) /\ d # <<>> /\ Leads(c, v, d, w) /\ Shows(c, v, Head(d), x)
      BY <1>1, <1>2, <2>3, <2>4, <3>1 DEF Types
    <3>3. Leads(c, x, Tail(d), w)
      BY <3>2, LeadsRead
    <3> QED BY <1>2, <1>5, <2>3, <2>4, <3>1, <3>3
  <2>5. CASE s # c
    <3>1. View(s)' = View(s)
      <4>1. /\ remain'[s] = remain[s] /\ card_remain'[s] = card_remain[s]
            /\ whos_turn'[s] = whos_turn[s] /\ n_remain'[s] = n_remain[s] /\ uno'[s] = uno[s]
        BY <1>1, <2>1, <2>5 DEF CopyIs, Types
      <4> QED BY <4>1 DEF View
    <3>2. down'[s] = down[s]
      BY <1>2, <2>1, <2>5
    <3> QED BY <2>3, <3>1, <3>2
  <2> QED BY <2>4, <2>5
<1>7. CopiesKept'
  BY <1>2, <1>6 DEF CopiesKept, Led, Table!Shown
<1> QED BY <1>3, <1>7

\* A step that touches neither the server's table nor the copies nor the lines
\* to the clients.
LEMMA CopiesStay ==
  ASSUME CountsKept, CopiesKept, playing' \subseteq playing, UNCHANGED used,
         UNCHANGED <<thand_num, tcard_num, twhose_round, tis_uno, misnamed, blurred, down>>,
         UNCHANGED <<remain, card_remain, whos_turn, n_remain, uno>>
  PROVE  CountsKept' /\ CopiesKept'
<1>1. \A c \in playing : View(c)' = View(c)
  BY DEF View
<1> QED BY <1>1 DEF CountsKept, CopiesKept, Led, Table!Shown

\* The first round on its way leads to the table as it is dealt.
LEMMA TableInitCopies == Table!Init => CountsKept /\ CopiesKept
<1> SUFFICES ASSUME Table!Init PROVE CountsKept /\ CopiesKept
  OBVIOUS
<1>1. Types
  BY TableInitTurns
<1>2. PICK num, cards, cur, called :
        /\ num = thand_num /\ cards = tcard_num /\ cur = Table!Shown(twhose_round) /\ called = tis_uno
  OBVIOUS
<1>3. /\ num \in [Table!Seats -> Int] /\ cards \in Int /\ cur \in Table!Seats \cup {Table!None}
      /\ \A s \in Table!Seats : IF s \in Table!Taken THEN num[s] >= 1 ELSE num[s] = -1
      /\ \A s \in Table!Seats : called[s] = FALSE
      /\ Table!Taken \subseteq Table!Seats
  <2>1. \A s \in Table!Seats : tis_uno[s] = FALSE
    BY DEF Table!Init
  <2>2. Table!Shown(twhose_round) \in Table!Seats \cup {Table!None}
    BY TableBegins, ShownIs
  <2> QED BY <1>2, <2>1, <2>2, TableBegins
<1>4. Counted(num, called, blurred) /\ ~misnamed
  BY <1>3 DEF Counted, Table!Init
<1>5. PICK x : x = Table!Round(thand_num, tcard_num, twhose_round)
  OBVIOUS
<1>6. /\ x \in DownLines /\ x.k = "10" /\ x.num = num /\ x.cards = cards /\ x.who = cur
      /\ \A c \in Table!Taken : down[c] = <<x>>
  BY <1>2, <1>3, <1>5 DEF Table!Round, DownLines, Table!Init, Table!Taken
<1>7. Table!Playing(num) = Table!Taken
  BY <1>3 DEF Table!Playing
<1>8. ASSUME NEW c \in Table!Taken
      PROVE  \E w \in Views : Led(c, w)
  <2>0. c \in Table!Seats
    BY <1>3
  <2>1. PICK v : v = View(c)
    OBVIOUS
  <2>2. v \in Views /\ v.n = Table!Cardinality(Table!Taken) /\ v.uno = {}
    BY <1>1, <2>0, <2>1, CopyIsView DEF View, ViewOf, Table!Init
  <2>3. PICK w : w = RoundView(v, num, cards, cur)
    OBVIOUS
  <2>4. Shows(c, v, x, w)
    BY <1>6, <2>3 DEF Shows, RoundView
  <2>5. w \in Views
    BY <1>6, <2>0, <2>2, <2>4, ShowsView
  <2>6. Leads(c, v, <<x>>, w)
    BY <2>2, <2>4, <2>5, LeadsOne
  <2>7. w.remain = num /\ w.cards = cards /\ w.turn = cur /\ w.n = v.n /\ w.uno = {}
    BY <2>2, <2>3 DEF RoundView, ViewOf
  <2>8. Fits(w, num, cards, cur, called, misnamed, blurred)
    BY <1>3, <1>7, <2>2, <2>7 DEF Fits
  <2> QED BY <1>2, <1>6, <2>1, <2>5, <2>6, <2>8 DEF Led
<1>9. playing = Table!Taken
  BY DEF Table!Init
<1> QED BY <1>2, <1>4, <1>8, <1>9 DEF CountsKept, CopiesKept

\* While GameStart() runs and nobody who left has been dealt cards.
CopyInv == Lasts => CountsKept /\ CopiesKept

\* Nobody changes seats in a game.
LEMMA RosterKept == [Table!Next]_(Table!tvars) => UNCHANGED used
<1>1. \A i \in Table!Seats : \A k : Table!Reads(i, k) => UNCHANGED used
  BY DEF Table!Reads
<1>2. \A c \in Table!Seats : \A x : Table!Type(c, x) => UNCHANGED used
  BY DEF Table!Type
<1>3. ASSUME NEW c \in Table!Seats,
             \/ Table!TypeSkip(c) \/ Table!TypeGg(c)
             \/ \E kind \in Kinds : Table!TypeCard(c, kind)
             \/ \E t \in 0 .. TableLongMax - 1 : Table!TypeUno(c, t) \/ \E v \in Table!Seats : Table!TypeCatch(c, v, t)
      PROVE  UNCHANGED used
  BY <1>2, <1>3, TypedIs
<1>4. ASSUME NEW c \in Table!Seats,
             \/ Table!Play(c) \/ Table!Skip(c) \/ Table!FalseCall(c, "11", "11") \/ Table!FalseCall(c, "12", "19")
             \/ Table!CallUno(c) \/ Table!Catch(c) \/ Table!Leave(c)
      PROVE  UNCHANGED used
  BY <1>1, <1>4, Zenon DEF Table!Play, Table!Skip, Table!FalseCall, Table!CallUno, Table!Catch, Table!Leave
<1>5. ASSUME NEW c \in Table!Seats, Table!Read(c) PROVE UNCHANGED used
  BY <1>5 DEF Table!Read
<1>6. ASSUME Table!EndSweep PROVE UNCHANGED used
  BY <1>6 DEF Table!EndSweep
<1>7. ASSUME UNCHANGED Table!tvars PROVE UNCHANGED used
  BY <1>7 DEF Table!tvars
<1> QED BY <1>3, <1>4, <1>5, <1>6, <1>7 DEF Table!Next

LEMMA SeatingKept == [Next]_vars => UNCHANGED seating
<1>1. ASSUME Reshuffle \/ EndSweep \/ \E c \in Cards : Draw(c) PROVE UNCHANGED seating
  BY <1>1, Zenon DEF Reshuffle, EndSweep, Draw
<1>2. ASSUME NEW i \in Seats,
             \/ Leave(i) \/ Skip(i) \/ FalseCall(i) \/ \E c \in Cards : Play(i, c)
             \/ \E t \in 0 .. LONG_MAX - 1 : CallUno(i, t) \/ \E v \in Seats : Catch(i, v, t)
      PROVE  UNCHANGED seating
  BY <1>2, Zenon DEF Leave, Skip, FalseCall, Play, CallUno, Catch
<1> QED BY <1>1, <1>2 DEF Next, vars

\* Every step keeps the counts and the copies.
LEMMA StepKeepsCopies ==
  ASSUME TableInv, CopyInv, [Table!Next]_(Table!tvars)
  PROVE  CopyInv'
<1> SUFFICES ASSUME Lasts' PROVE CountsKept' /\ CopiesKept'
  BY DEF CopyInv
<1>1. Lasts /\ Types /\ CountsKept /\ CopiesKept
  <2>1. Lasts
    BY StepKeepsTurns, TableVariables
  <2> QED BY <2>1 DEF TableInv, CopyInv
<1>2. ~tover' /\ ~trevived' /\ UNCHANGED used
  BY RosterKept DEF Lasts
<1> DEFINE Goal == CountsKept' /\ CopiesKept'
<1>3. CASE UNCHANGED Table!tvars
  <2>1. /\ UNCHANGED <<thand_num, tcard_num, twhose_round, tis_uno, misnamed, blurred, down, playing>>
        /\ UNCHANGED <<remain, card_remain, whos_turn, n_remain, uno>>
    BY <1>3 DEF Table!tvars, Table!serverVars, Table!callVars, Table!copyVars
  <2>2. playing' \subseteq playing
    BY <2>1
  <2> QED BY <1>1, <1>2, <2>1, <2>2, CopiesStay
<1>4. ASSUME NEW c \in Table!Seats,
             \/ Table!TypeSkip(c) \/ Table!TypeGg(c)
             \/ \E kind \in Kinds : Table!TypeCard(c, kind)
             \/ \E t \in 0 .. TableLongMax - 1 : Table!TypeUno(c, t) \/ \E v \in Table!Seats : Table!TypeCatch(c, v, t)
      PROVE  Goal
  <2>1. PICK x : Table!Type(c, x) /\ playing' \subseteq playing
    BY <1>4, TypedIs
  <2>2. /\ UNCHANGED <<thand_num, tcard_num, twhose_round, tis_uno, misnamed, blurred, down>>
        /\ UNCHANGED <<remain, card_remain, whos_turn, n_remain, uno>>
    BY <2>1 DEF Table!Type, Table!serverVars, Table!callVars, Table!copyVars
  <2> QED BY <1>1, <1>2, <2>1, <2>2, CopiesStay
<1>5. ASSUME NEW c \in Table!Seats, Table!Read(c) PROVE Goal
  BY <1>1, <1>2, <1>5, ReadKeepsCopies
<1>6. CASE Table!EndSweep
  BY <1>1, <1>2, <1>6, SettleKeepsCopies
<1>7. ASSUME NEW i \in Table!Seats, Table!Play(i) PROVE Goal
  <2>1. PICK num, who, n : Moves(i, num, who, n)
    BY <1>1, <1>2, <1>7, PlayMoves
  <2> QED BY <1>1, <1>2, <2>1, MoveKeepsCopies
<1>8. ASSUME NEW i \in Table!Seats, Table!Skip(i) PROVE Goal
  <2>1. Moves(i, thand_num, twhose_round, 1)
    BY <1>1, <1>8, SkipMoves
  <2> QED BY <1>1, <1>2, <2>1, MoveKeepsCopies
<1>9. ASSUME NEW i \in Table!Seats, NEW k, NEW told,
             <<k, told>> \in {<<"11", "11">>, <<"12", "19">>}, Table!FalseCall(i, k, told)
      PROVE  Goal
  <2>1. Fines(i, told, i)
    BY <1>1, <1>9, FalseCallFines
  <2> QED BY <1>1, <1>2, <2>1, FineKeepsCopies
<1>10. ASSUME NEW i \in Table!Seats, Table!CallUno(i) \/ Table!Catch(i) PROVE Goal
  <2>1. UNCHANGED <<thand_num, tcard_num, twhose_round, tis_uno, down>>
    BY <1>1, <1>10, NoteIs
  <2>2. UNCHANGED <<playing, remain, card_remain, whos_turn, n_remain, uno, blurred>>
    BY <1>1, <1>10, NoteIs, ReadsIs
  <2>4. UNCHANGED misnamed
    BY <1>10 DEF Table!CallUno, Table!Catch
  <2>3. playing' \subseteq playing
    BY <2>2
  <2> QED BY <1>1, <1>2, <2>1, <2>2, <2>3, <2>4, CopiesStay
<1>11. ASSUME NEW i \in Table!Seats, Table!Leave(i) PROVE Goal
  BY <1>1, <1>2, <1>11, LeaveKeepsCopies
<1>12. ASSUME NEW i \in Table!Seats, Table!FalseCall(i, "11", "11") PROVE Goal
  BY <1>9, <1>12
<1>13. ASSUME NEW i \in Table!Seats, Table!FalseCall(i, "12", "19") PROVE Goal
  BY <1>9, <1>13
<1> QED BY <1>3, <1>4, <1>5, <1>6, <1>7, <1>8, <1>10, <1>11, <1>12, <1>13 DEF Table!Next

\* A client that has read everything shows the server's table.
LEMMA CopiesShown == TableInv /\ CopyInv => Table!CopiesAgree
<1> SUFFICES ASSUME TableInv, CopyInv, ~trevived, NEW c \in Table!Seats, Table!UpToDate(c)
             PROVE  /\ whos_turn[c] = Table!Shown(twhose_round)
                    /\ n_remain[c] = Table!Cardinality(Table!Playing(thand_num))
                    /\ ~misnamed => remain[c] = thand_num /\ card_remain[c] = tcard_num
                    /\ ~blurred => \A s \in Table!Playing(thand_num) : s \in uno[c] <=> tis_uno[s]
  BY DEF Table!CopiesAgree
<1>1. c \in playing /\ thand_num[c] # -1 /\ down[c] = <<>> /\ Types /\ CopiesKept
  BY DEF Table!UpToDate, TableInv, CopyInv, Lasts
<1>2. PICK w \in Views : Led(c, w)
  BY <1>1 DEF CopiesKept
<1>3. View(c) \in Views /\ Leads(c, View(c), <<>>, w)
  BY <1>1, <1>2, CopyIsView DEF Led
<1>4. View(c) = w
  BY <1>3, LeadsNone
<1>5. Fits(View(c), thand_num, tcard_num, Table!Shown(twhose_round), tis_uno, misnamed, blurred)
  BY <1>2, <1>4 DEF Led
<1>6. /\ View(c).remain = remain[c] /\ View(c).cards = card_remain[c]
      /\ View(c).turn = whos_turn[c] /\ View(c).n = n_remain[c] /\ View(c).uno = uno[c]
  BY DEF View, ViewOf
<1>7. \A s \in Table!Playing(thand_num) : s \in Table!Seats /\ thand_num[s] # -1
  BY DEF Table!Playing
<1> QED BY <1>5, <1>6, <1>7 DEF Fits

\* What game() of final_cli.c shows, when nothing is left to be read, is what
\* GameStart() has: whose turn it is and how many play; the cards of everybody and
\* the pile, but from a "13" that names somebody else to the next round; and who has
\* called, unless there was such a line or a call was granted late.  It holds for
\* every seating of the players and number of joiners not admitted.
THEOREM CopiesAlwaysAgree == (Table!Spec => []Table!CopiesAgree) /\ (MCSpec => []CopiesAgree)
<1>1. Table!Init => TableInv /\ CopyInv
  BY TableInitTurns, TableInitCopies DEF TableInv, CopyInv
<1>2. TableInv /\ CopyInv /\ [Table!Next]_(Table!tvars) => TableInv' /\ CopyInv'
  BY StepKeepsTurns, StepKeepsCopies, TableVariables DEF TableInv
<1>3. TableInv /\ CopyInv => Table!CopiesAgree /\ CopiesAgree
  BY CopiesShown DEF CopiesAgree
<1>4. MCInit => Table!Init
  BY DEF MCInit
<1>5. [MCNext]_mcvars => [Table!Next]_(Table!tvars)
  <2>1. UNCHANGED <<used, tableVars>> => UNCHANGED Table!tvars
    BY DEF tableVars, Table!tvars, Table!serverVars, Table!callVars, Table!copyVars
  <2>2. [Next]_vars => UNCHANGED used
    BY SeatingKept DEF seating
  <2> QED BY <2>1, <2>2 DEF MCNext, mcvars, vars, seating
<1>6. Table!Spec => []Table!CopiesAgree
  BY <1>1, <1>2, <1>3, PTL DEF Table!Spec
<1>7. MCSpec => []CopiesAgree
  BY <1>1, <1>2, <1>3, <1>4, <1>5, PTL DEF MCSpec
<1> QED BY <1>6, <1>7
=============================================================================
