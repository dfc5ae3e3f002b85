--------------------------- MODULE UnoTalkProofs ---------------------------
(***************************************************************************)
(* Proofs about UnoTalk: players that are logged in have different names,  *)
(* a client meets a line it does not expect only where the dialogue itself *)
(* allows it, and a client in the room that has read every line shows what *)
(* the room thread has.                                                    *)
(*                                                                         *)
(* The lines on their way to a client take it from where it is to some     *)
(* place; that place is what the server's side of its connection must fit. *)
(* They also take what it shows to what the server has of the room.        *)
(***************************************************************************)
EXTENDS UnoTalk, FiniteSetTheorems, SequenceTheorems, WellFoundedInduction, TLAPS

-----------------------------------------------------------------------------
(* Sequences of lines, whatever the lines are.                             *)

Sequence(s) == s \in Seq({s[k] : k \in 1 .. Len(s)})

LEMMA SequenceOf == ASSUME NEW S, NEW s \in Seq(S) PROVE Sequence(s)
<1>1. Len(s) \in Nat /\ s = [k \in 1 .. Len(s) |-> s[k]]
  OBVIOUS
<1>2. \A k \in 1 .. Len(s) : s[k] \in {s[j] : j \in 1 .. Len(s)}
  OBVIOUS
<1> QED BY <1>1, <1>2 DEF Sequence

LEMMA SequenceLen ==
  ASSUME NEW s, Sequence(s)
  PROVE  Len(s) \in Nat /\ (s = <<>> <=> Len(s) = 0)
BY DEF Sequence

\* What is put at the end of a sequence comes after it.
LEMMA SequenceJoin ==
  ASSUME NEW s, NEW t, Sequence(s), Sequence(t)
  PROVE  /\ Sequence(s \o t) /\ Len(s \o t) = Len(s) + Len(t)
         /\ \A k \in 1 .. Len(s) : (s \o t)[k] = s[k]
         /\ \A k \in 1 .. Len(t) : (s \o t)[Len(s) + k] = t[k]
<1>1. PICK S : S = {s[k] : k \in 1 .. Len(s)} \cup {t[k] : k \in 1 .. Len(t)}
  OBVIOUS
<1>2. s \in Seq(S) /\ t \in Seq(S)
  <2>1. /\ Len(s) \in Nat /\ s = [k \in 1 .. Len(s) |-> s[k]] /\ \A k \in 1 .. Len(s) : s[k] \in S
        /\ Len(t) \in Nat /\ t = [k \in 1 .. Len(t) |-> t[k]] /\ \A k \in 1 .. Len(t) : t[k] \in S
    BY <1>1 DEF Sequence
  <2> QED BY <2>1
<1>3. s \o t \in Seq(S)
  BY <1>2
<1>4. Sequence(s \o t)
  BY <1>3, SequenceOf
<1> QED BY <1>2, <1>4

\* Without its first line, a sequence has the others.
LEMMA SequenceTail ==
  ASSUME NEW s, Sequence(s), s # <<>>
  PROVE  /\ Sequence(Tail(s)) /\ Len(s) >= 1 /\ Len(Tail(s)) = Len(s) - 1 /\ Head(s) = s[1]
         /\ \A k \in 1 .. Len(s) - 1 : Tail(s)[k] = s[k + 1]
<1>1. PICK S : s \in Seq(S)
  BY DEF Sequence
<1>2. Tail(s) \in Seq(S)
  BY <1>1
<1>3. Sequence(Tail(s))
  BY <1>2, SequenceOf
<1> QED BY <1>1, <1>3

\* Sequences of one line or two.
LEMMA SequenceShort ==
  ASSUME NEW a, NEW b
  PROVE  /\ Sequence(<<>>) /\ Len(<<>>) = 0
         /\ Sequence(<<a>>) /\ Len(<<a>>) = 1 /\ <<a>>[1] = a
         /\ Sequence(<<a, b>>) /\ Len(<<a, b>>) = 2 /\ <<a, b>>[1] = a /\ <<a, b>>[2] = b
<1>1. <<>> \in Seq({a, b}) /\ <<a>> \in Seq({a, b}) /\ <<a, b>> \in Seq({a, b})
  OBVIOUS
<1> QED BY <1>1, SequenceOf

-----------------------------------------------------------------------------
(* Where lines take a client.                                              *)

Gone == {"off", "puzzled"}
Reading == {"hello", "loginwait", "tokenwait", "enter", "room", "game"}
Places == Gone \cup Reading \cup {"login", "lobby", "back"}

\* Where a client at p goes on after line l.  What comes when it waits for the
\* answer to a request is dealt with apart.
After(p, l) ==
  CASE p = "hello" -> IF l.op = "1" THEN "login" ELSE "puzzled"
    [] p = "loginwait" -> IF l.op = "2" THEN "tokenwait" ELSE IF l.op = "3" THEN "login" ELSE "puzzled"
    [] p = "tokenwait" -> IF l.op = "4" THEN "lobby" ELSE "puzzled"
    [] p = "enter" -> IF l.op = "5" THEN "room" ELSE IF l.op \in {"16", "17", "18"} THEN "back" ELSE "puzzled"
    [] p = "room" -> IF l.op = "9" THEN "game" ELSE IF l.op \in {"6", "7", "8"} THEN "room" ELSE "puzzled"
    [] p = "game" -> IF l.op = "15" THEN "back" ELSE IF l.op \in GameWords THEN "game" ELSE "puzzled"

\* The first n lines of d take a client from p to q.
Takes(p, d, n, q) ==
  \E r \in [0 .. n -> Places] :
    /\ r[0] = p /\ r[n] = q
    /\ \A k \in 1 .. n : r[k - 1] \in Reading /\ r[k] # "puzzled" /\ r[k] = After(r[k - 1], d[k])

LEMMA TakesNone == ASSUME NEW p \in Places, NEW d PROVE Takes(p, d, 0, p)
<1> DEFINE r == [k \in 0 .. 0 |-> p]
<1>1. r \in [0 .. 0 -> Places] /\ r[0] = p
  OBVIOUS
<1>2. 1 .. 0 = {}
  OBVIOUS
<1> HIDE DEF r
<1> QED BY <1>1, <1>2 DEF Takes

LEMMA TakesPlaces ==
  ASSUME NEW p, NEW d, NEW n \in Nat, NEW q, Takes(p, d, n, q)
  PROVE  p \in Places /\ q \in Places /\ (n > 0 => p \in Reading) /\ (n = 0 => p = q)
<1>1. PICK r \in [0 .. n -> Places] :
        /\ r[0] = p /\ r[n] = q
        /\ \A k \in 1 .. n : r[k - 1] \in Reading /\ r[k] # "puzzled" /\ r[k] = After(r[k - 1], d[k])
  BY DEF Takes
<1>2. 0 \in 0 .. n /\ n \in 0 .. n
  OBVIOUS
<1>3. n > 0 => 1 \in 1 .. n /\ 1 - 1 = 0
  OBVIOUS
<1> QED BY <1>1, <1>2, <1>3

\* The first lines of f are n lines of d, then m lines of e.
Follows(f, d, n, e, m) ==
  /\ \A k \in 1 .. n : f[k] = d[k]
  /\ \A k \in 1 .. m : f[n + k] = e[k]

\* Lines that follow take it further.
LEMMA TakesOn ==
  ASSUME NEW p, NEW d, NEW n \in Nat, NEW q, Takes(p, d, n, q),
         NEW e, NEW m \in Nat, NEW z, Takes(q, e, m, z),
         NEW f, Follows(f, d, n, e, m), NEW l, l = n + m
  PROVE  Takes(p, f, l, z)
<1>1. PICK r \in [0 .. n -> Places] :
        /\ r[0] = p /\ r[n] = q
        /\ \A k \in 1 .. n : r[k - 1] \in Reading /\ r[k] # "puzzled" /\ r[k] = After(r[k - 1], d[k])
  BY DEF Takes
<1>2. PICK t \in [0 .. m -> Places] :
        /\ t[0] = q /\ t[m] = z
        /\ \A k \in 1 .. m : t[k - 1] \in Reading /\ t[k] # "puzzled" /\ t[k] = After(t[k - 1], e[k])
  BY DEF Takes
<1> USE DEF Follows
<1> DEFINE u == [k \in 0 .. n + m |-> IF k <= n THEN r[k] ELSE t[k - n]]
<1>3. u \in [0 .. n + m -> Places]
  OBVIOUS
<1>4. u[0] = p /\ u[n + m] = z
  <2>1. u[0] = p
    BY <1>1
  <2>2. CASE m = 0
    BY <1>1, <1>2, <2>1, <2>2
  <2>3. CASE m # 0
    <3>1. u[n + m] = t[m]
      BY <2>3
    <3> QED BY <1>2, <2>1, <3>1
  <2> QED BY <2>2, <2>3
<1>5. ASSUME NEW k \in 1 .. n + m
      PROVE  u[k - 1] \in Reading /\ u[k] # "puzzled" /\ u[k] = After(u[k - 1], f[k])
  <2>1. CASE k <= n
    <3>1. k \in 1 .. n /\ u[k] = r[k] /\ u[k - 1] = r[k - 1]
      BY <2>1
    <3> QED BY <1>1, <3>1
  <2>2. CASE k > n
    <3>1. PICK j \in 1 .. m : k = n + j
      <4>1. k - n \in 1 .. m /\ k = n + (k - n)
        BY <2>2
      <4> QED BY <4>1
    <3>2. u[k] = t[j]
      BY <3>1
    <3>3. u[k - 1] = t[j - 1]
      <4>1. CASE j = 1
        BY <1>1, <1>2, <3>1, <4>1
      <4>2. CASE j # 1
        BY <3>1, <4>2
      <4> QED BY <4>1, <4>2
    <3>4. f[k] = e[j]
      BY <3>1
    <3> QED BY <1>2, <3>1, <3>2, <3>3, <3>4
  <2> QED BY <2>1, <2>2
<1> HIDE DEF u
<1> QED BY <1>3, <1>4, <1>5 DEF Takes

\* Only the lines that are read matter.
LEMMA TakesSame ==
  ASSUME NEW p, NEW d, NEW n \in Nat, NEW q, Takes(p, d, n, q), NEW f, \A k \in 1 .. n : f[k] = d[k]
  PROVE  Takes(p, f, n, q)
<1>1. Takes(q, f, 0, q)
  BY TakesPlaces, TakesNone
<1>2. n = n + 0 /\ Follows(f, d, n, f, 0)
  BY DEF Follows
<1> QED BY <1>1, <1>2, TakesOn

\* The first line is read.
LEMMA TakesFirst ==
  ASSUME NEW p, NEW d, NEW n \in Nat \ {0}, NEW q, Takes(p, d, n, q),
         NEW f, \A k \in 1 .. n - 1 : f[k] = d[k + 1]
  PROVE  /\ p \in Reading /\ After(p, d[1]) \in Places \ {"puzzled"}
         /\ Takes(After(p, d[1]), f, n - 1, q)
<1>1. PICK r \in [0 .. n -> Places] :
        /\ r[0] = p /\ r[n] = q
        /\ \A k \in 1 .. n : r[k - 1] \in Reading /\ r[k] # "puzzled" /\ r[k] = After(r[k - 1], d[k])
  BY DEF Takes
<1>2. r[0] \in Reading /\ r[1] # "puzzled" /\ r[1] = After(p, d[1]) /\ r[1] \in Places
  <2>1. 1 \in 1 .. n /\ 1 - 1 = 0
    OBVIOUS
  <2> QED BY <1>1, <2>1
<1> DEFINE u == [k \in 0 .. n - 1 |-> r[k + 1]]
<1>3. u \in [0 .. n - 1 -> Places] /\ u[0] = After(p, d[1]) /\ u[n - 1] = q
  BY <1>1, <1>2
<1>4. ASSUME NEW k \in 1 .. n - 1
      PROVE  u[k - 1] \in Reading /\ u[k] # "puzzled" /\ u[k] = After(u[k - 1], f[k])
  <2>1. k + 1 \in 1 .. n /\ u[k] = r[k + 1] /\ u[k - 1] = r[k] /\ (k + 1) - 1 = k
    OBVIOUS
  <2> HIDE DEF u
  <2> QED BY <1>1, <2>1
<1> HIDE DEF u
<1> QED BY <1>1, <1>2, <1>3, <1>4 DEF Takes

\* One line.
LEMMA TakesOne ==
  ASSUME NEW p \in Reading, NEW d, After(p, d[1]) \in Places \ {"puzzled"}
  PROVE  Takes(p, d, 1, After(p, d[1]))
<1> DEFINE r == [k \in 0 .. 1 |-> IF k = 0 THEN p ELSE After(p, d[1])]
<1>1. r \in [0 .. 1 -> Places] /\ r[0] = p /\ r[1] = After(p, d[1])
  BY DEF Places
<1>2. \A k \in 1 .. 1 : k = 1
  OBVIOUS
<1> HIDE DEF r
<1> QED BY <1>1, <1>2 DEF Takes

\* Lines that leave it where it is.
LEMMA TakesNowhere ==
  ASSUME NEW p \in Reading, NEW d, NEW n \in Nat, \A k \in 1 .. n : After(p, d[k]) = p
  PROVE  Takes(p, d, n, p)
<1> DEFINE r == [k \in 0 .. n |-> p]
<1>1. r \in [0 .. n -> Places] /\ r[0] = p /\ r[n] = p
  BY DEF Places
<1>2. \A k \in 1 .. n : r[k - 1] = p /\ r[k] = p
  OBVIOUS
<1>3. p # "puzzled"
  BY DEF Reading
<1> HIDE DEF r
<1> QED BY <1>1, <1>2, <1>3 DEF Takes

-----------------------------------------------------------------------------
(* The invariant.                                                          *)

\* A line "19" finds the client in the room: it will be puzzled.
Doomed(p, d) == \E k \in 1 .. Len(d) : d[k] = Word("19") /\ Takes(p, d, k - 1, "room")

\* Seat s is read by the room thread.
Held(s) == used /\ rused[s] # None /\ (in_game => s \in alive)
Holds(c) == \E s \in Seats : Held(s) /\ rused[s] = c

\* Only requests for a game are on their way from c.
Sevens(c) == \A k \in 1 .. Len(up[c]) : up[c][k] = Word("7")

FunctionOn(f, S) == f \in [S -> {f[x] : x \in S}]

TalkTyped ==
  /\ state \in [Conns -> 0 .. 2] /\ request \in [Conns -> {"none", "3", "4", "5"}]
  /\ players \in [Seats -> Conns \cup {None}] /\ rused \in [Seats -> Conns \cup {None}]
  /\ alive \subseteq Seats /\ used \in BOOLEAN /\ in_game \in BOOLEAN
  /\ cpc \in [Conns -> Places]
  /\ FunctionOn(name, Conns) /\ FunctionOn(my_id, Conns)
  /\ FunctionOn(up, Conns) /\ FunctionOn(down, Conns)
  /\ \A c \in Conns : Sequence(up[c]) /\ Sequence(down[c])

\* A connection is with main(), with a handler, or in one seat of the room.
RoomRight ==
  /\ in_game => used /\ \A s \in alive : rused[s] # None
  /\ ~used => \A s \in Seats : players[s] = None
  /\ \A c \in Conns : request[c] # "none" => state[c] = 2
  /\ ~in_game => \A s \in Seats : players[s] # None =>
                   state[players[s]] = 2 /\ request[players[s]] = "none"
  /\ ~in_game => \A s, t \in Seats : players[s] = players[t] /\ s # t => players[s] = None
  /\ \A s \in Seats : Held(s) => /\ state[rused[s]] = 2 /\ request[rused[s]] = "none"
                                 /\ ~in_game => players[s] = rused[s]
  /\ \A s, t \in Seats : Held(s) /\ Held(t) /\ rused[s] = rused[t] => s = t

\* What the server's side is like when all lines to c are read and take it to q.
View(c, q) ==
  \/ q = "hello" /\ state[c] = 1 /\ up[c] = <<Word("1")>>
  \/ q \in {"login", "lobby"} /\ state[c] = 1 /\ up[c] = <<>>
  \/ q = "loginwait" /\ state[c] = 1 /\ up[c] = <<Line("2", my_id[c])>>
  \/ q = "enter" /\ state[c] = 1 /\ \E w \in {"3", "4", "5"} : up[c] = <<Word(w)>>
  \/ q = "enter" /\ state[c] = 2 /\ up[c] = <<>> /\ ~Holds(c)
  \/ q = "room" /\ Holds(c) /\ ~in_game /\ Sevens(c)
  \/ q = "game" /\ Holds(c) /\ in_game /\ Sevens(c)
  \/ q = "back" /\ state[c] = 1 /\ Sevens(c)

Ahead(c) == \/ Doomed(cpc[c], down[c]) /\ Sevens(c)
            \/ \E q \in Places : Takes(cpc[c], down[c], Len(down[c]), q) /\ View(c, q)

\* c waits for the answer to its token: the token is its last line, and its
\* answer is not read before other lines are.
Asks(c) == \A k \in 1 .. Len(up[c]) :
             /\ up[c][k] \in {Word("6"), Word("7"), Word("8"), Request(c)}
             /\ up[c][k] = Request(c) => k = Len(up[c])
Patient(c) == \/ down[c] = <<>> \/ Head(down[c]).op # "4"
              \/ down[c] = <<Word("4")>> /\ up[c] = <<>> /\ state[c] = 1

InTouch(c) ==
  /\ cpc[c] \notin Gone => state[c] # 0
  /\ cpc[c] \notin Gone \cup {"back"} => Ahead(c)
  /\ cpc[c] = "back" => Asks(c) /\ Patient(c)
AllInTouch == \A c \in Conns : InTouch(c)

\* c has its name, or is about to read that it has.
Claims(c) == \/ cpc[c] \in LoggedIn
             \/ cpc[c] = "loginwait" /\ \E k \in 1 .. Len(down[c]) : down[c][k].op = "2"
NamesRight ==
  /\ \A c \in Conns : Claims(c) => name[c] = my_id[c]
  /\ \A c, d \in Conns : c # d /\ Claims(c) /\ Claims(d) => name[c] # name[d]

IInv == TalkTyped /\ RoomRight /\ AllInTouch /\ NamesRight

-----------------------------------------------------------------------------
(* Lemmas about functions and lines.                                       *)

\* g is f with another value at x.
Changed(g, f, x, v) == g = [f EXCEPT ![x] = v]

LEMMA FunctionExcept ==
  ASSUME NEW f, NEW S, FunctionOn(f, S), NEW x \in S, NEW v, NEW g, Changed(g, f, x, v)
  PROVE  FunctionOn(g, S) /\ g[x] = v /\ \A y \in S : y # x => g[y] = f[y]
<1>1. f \in [S -> {f[y] : y \in S} \cup {v}]
  BY DEF FunctionOn
<1>2. g \in [S -> {f[y] : y \in S} \cup {v}] /\ g[x] = v /\ \A y \in S : y # x => g[y] = f[y]
  BY <1>1 DEF Changed
<1>3. g \in [S -> {g[y] : y \in S}]
  BY <1>2
<1> QED BY <1>2, <1>3 DEF FunctionOn

LEMMA Ops ==
  ASSUME NEW w, NEW x
  PROVE  Word(w).op = w /\ Line(w, x).op = w /\ Line(w, x).who = x
BY DEF Word, Line

LEMMA NoneApart == None \notin Conns /\ None = -1
BY TalkAssumption DEF None, Conns

\* A client that will be puzzled stays so, and reads on until then.
LEMMA DoomedOn ==
  ASSUME NEW p, NEW d, NEW e, Sequence(d), Sequence(e), Doomed(p, d)
  PROVE  Doomed(p, d \o e)
<1>1. PICK k \in 1 .. Len(d) : d[k] = Word("19") /\ Takes(p, d, k - 1, "room")
  BY DEF Doomed
<1>2. Len(d) \in Nat /\ Len(e) \in Nat /\ Len(d \o e) = Len(d) + Len(e) /\ \A j \in 1 .. Len(d) : (d \o e)[j] = d[j]
  BY SequenceLen, SequenceJoin
<1>3. PICK f : f = d \o e
  OBVIOUS
<1>4. k - 1 \in Nat /\ \A j \in 1 .. k - 1 : f[j] = d[j]
  BY <1>2, <1>3
<1>5. Takes(p, f, k - 1, "room")
  <2>1. PICK q : q = "room"
    OBVIOUS
  <2> QED BY <1>1, <1>4, <2>1, TakesSame
<1>6. k \in 1 .. Len(f) /\ f[k] = Word("19")
  BY <1>1, <1>2, <1>3
<1> QED BY <1>3, <1>5, <1>6 DEF Doomed

LEMMA DoomedAfter ==
  ASSUME NEW p, NEW d, NEW e, NEW q, Sequence(d), Sequence(e), Takes(p, d, Len(d), q), Doomed(q, e)
  PROVE  Doomed(p, d \o e)
<1>1. PICK k \in 1 .. Len(e) : e[k] = Word("19") /\ Takes(q, e, k - 1, "room")
  BY DEF Doomed
<1>2. /\ Len(d) \in Nat /\ Len(e) \in Nat /\ Len(d \o e) = Len(d) + Len(e)
      /\ \A j \in 1 .. Len(d) : (d \o e)[j] = d[j]
      /\ \A j \in 1 .. Len(e) : (d \o e)[Len(d) + j] = e[j]
  BY SequenceLen, SequenceJoin
<1>3. PICK f : f = d \o e
  OBVIOUS
<1>4. k - 1 \in Nat /\ \A j \in 1 .. k - 1 : f[Len(d) + j] = e[j]
  BY <1>2, <1>3
<1>5. Takes(p, f, Len(d) + (k - 1), "room")
  <2>1. PICK z : z = "room"
    OBVIOUS
  <2>2. Takes(q, e, k - 1, z) /\ Len(d) \in Nat /\ \A j \in 1 .. Len(d) : f[j] = d[j]
    BY <1>1, <1>2, <1>3, <2>1
  <2>3. PICK n \in Nat, m \in Nat : n = Len(d) /\ m = k - 1
    BY <1>4, <2>2
  <2>4. /\ Takes(p, d, n, q) /\ Takes(q, e, m, z)
        /\ Follows(f, d, n, e, m)
    BY <1>4, <2>2, <2>3 DEF Follows
  <2>5. PICK l : l = n + m
    OBVIOUS
  <2>6. Takes(p, f, l, z)
    BY <2>4, <2>5, TakesOn
  <2> QED BY <2>1, <2>3, <2>5, <2>6
<1>6. PICK j : j = Len(d) + k
  OBVIOUS
<1>7. j \in 1 .. Len(f) /\ f[j] = Word("19") /\ j - 1 = Len(d) + (k - 1)
  <2>1. f[Len(d) + k] = e[k]
    BY <1>2, <1>3
  <2>2. j \in 1 .. Len(d) + Len(e) /\ j - 1 = Len(d) + (k - 1)
    BY <1>2, <1>6
  <2> QED BY <1>1, <1>2, <1>3, <1>6, <2>1, <2>2
<1>8. Takes(p, f, j - 1, "room")
  BY <1>5, <1>7
<1> QED BY <1>3, <1>7, <1>8 DEF Doomed

LEMMA DoomedFirst ==
  ASSUME NEW p, NEW d, Sequence(d), Doomed(p, d)
  PROVE  /\ d # <<>>
         /\ \/ p = "room" /\ d[1] = Word("19")
            \/ p \in Reading /\ After(p, d[1]) \in Places \ {"puzzled"} /\ Doomed(After(p, d[1]), Tail(d))
<1>1. PICK k \in 1 .. Len(d) : d[k] = Word("19") /\ Takes(p, d, k - 1, "room")
  BY DEF Doomed
<1>2. Len(d) \in Nat /\ d # <<>>
  BY <1>1, SequenceLen
<1>3. CASE k = 1
  <2>1. Takes(p, d, 0, "room")
    BY <1>1, <1>3
  <2>2. PICK z : z = "room"
    OBVIOUS
  <2>3. p = z
    BY <2>1, <2>2, TakesPlaces
  <2> QED BY <1>1, <1>2, <1>3, <2>2, <2>3
<1>4. CASE k # 1
  <2>1. k - 1 \in Nat \ {0} /\ k - 1 \in 1 .. Len(d) - 1
    BY <1>2, <1>4
  <2>2. PICK f : f = Tail(d)
    OBVIOUS
  <2>3. Len(f) = Len(d) - 1 /\ \A j \in 1 .. Len(d) - 1 : f[j] = d[j + 1]
    BY <1>2, <2>2, SequenceTail
  <2>4. \A j \in 1 .. (k - 1) - 1 : f[j] = d[j + 1]
    BY <1>2, <2>1, <2>3
  <2>5. PICK z : z = "room"
    OBVIOUS
  <2>6. p \in Reading /\ After(p, d[1]) \in Places \ {"puzzled"} /\ Takes(After(p, d[1]), f, (k - 1) - 1, z)
    <3>1. PICK n \in Nat \ {0} : n = k - 1
      BY <2>1
    <3>2. Takes(p, d, n, z) /\ \A j \in 1 .. n - 1 : f[j] = d[j + 1]
      BY <1>1, <2>4, <2>5, <3>1
    <3>3. p \in Reading /\ After(p, d[1]) \in Places \ {"puzzled"} /\ Takes(After(p, d[1]), f, n - 1, z)
      BY <3>2, TakesFirst
    <3> QED BY <3>1, <3>3
  <2>7. f[k - 1] = Word("19") /\ k - 1 \in 1 .. Len(f)
    BY <1>1, <2>1, <2>3
  <2>8. Doomed(After(p, d[1]), f)
    BY <2>5, <2>6, <2>7 DEF Doomed
  <2> QED BY <1>2, <2>2, <2>6, <2>8
<1> QED BY <1>3, <1>4

-----------------------------------------------------------------------------
(* What the server does leaves a client in touch.                          *)

\* Nothing happens to c.
LEMMA Untouched ==
  ASSUME NEW c \in Conns, InTouch(c),
         state'[c] = state[c], up'[c] = up[c], down'[c] = down[c], cpc'[c] = cpc[c], my_id'[c] = my_id[c],
         Holds(c)' <=> Holds(c), Holds(c) => in_game' = in_game
  PROVE  InTouch(c)'
<1>1. Sevens(c)' <=> Sevens(c)
  BY DEF Sevens
<1>2. \A q \in Places : View(c, q) => View(c, q)'
  BY <1>1 DEF View
<1>3. Ahead(c) => Ahead(c)'
  BY <1>1, <1>2 DEF Ahead
<1>4. (Asks(c) => Asks(c)') /\ (Patient(c) => Patient(c)')
  BY DEF Asks, Patient, Request
<1> QED BY <1>3, <1>4 DEF InTouch

\* Lines e are sent to c, and the first line from it may be taken.
LEMMA Sent ==
  ASSUME NEW c \in Conns, InTouch(c), Sequence(down[c]), Sequence(up[c]), NEW e, Sequence(e),
         cpc'[c] = cpc[c], my_id'[c] = my_id[c], cpc[c] \notin Gone => state'[c] # 0,
         down'[c] = down[c] \o e,
         up'[c] = up[c] \/ (up[c] # <<>> /\ up'[c] = Tail(up[c])),
         cpc[c] = "back" /\ (down[c] = <<>> \/ (up[c] = <<>> /\ state[c] = 1)) => Patient(c)',
         \A q \in Places : cpc[c] \notin Gone \cup {"back"} /\ View(c, q) =>
           (Doomed(q, e) /\ Sevens(c)) \/ \E z \in Places : Takes(q, e, Len(e), z) /\ View(c, z)'
  PROVE  InTouch(c)'
<1>n. Len(down[c]) \in Nat /\ Len(e) \in Nat /\ Len(up[c]) \in Nat
  BY SequenceLen
<1>u. up[c] # <<>> => /\ Len(up[c]) >= 1 /\ Len(Tail(up[c])) = Len(up[c]) - 1
                      /\ \A k \in 1 .. Len(up[c]) - 1 : Tail(up[c])[k] = up[c][k + 1]
  BY SequenceTail
<1>1. Sevens(c) => Sevens(c)'
  <2> SUFFICES ASSUME Sevens(c), NEW k \in 1 .. Len(up'[c]) PROVE up'[c][k] = Word("7")
    BY DEF Sevens
  <2>1. CASE up'[c] = up[c]
    BY <2>1 DEF Sevens
  <2>2. CASE up[c] # <<>> /\ up'[c] = Tail(up[c])
    <3>1. k \in 1 .. Len(up[c]) - 1 /\ k + 1 \in 1 .. Len(up[c])
      BY <1>n, <1>u, <2>2
    <3> QED BY <1>u, <2>2, <3>1 DEF Sevens
  <2> QED BY <2>1, <2>2
<1>2. Asks(c) => Asks(c)'
  <2> SUFFICES ASSUME Asks(c), NEW k \in 1 .. Len(up'[c])
               PROVE  /\ up'[c][k] \in {Word("6"), Word("7"), Word("8"), Request(c)}
                      /\ up'[c][k] = Request(c) => k = Len(up'[c])
    BY DEF Asks, Request
  <2>1. CASE up'[c] = up[c]
    BY <2>1 DEF Asks
  <2>2. CASE up[c] # <<>> /\ up'[c] = Tail(up[c])
    <3>1. k \in 1 .. Len(up[c]) - 1 /\ k + 1 \in 1 .. Len(up[c]) /\ Len(up'[c]) = Len(up[c]) - 1
      BY <1>n, <1>u, <2>2
    <3>2. up'[c][k] = up[c][k + 1]
      BY <1>u, <2>2, <3>1
    <3>3. /\ up[c][k + 1] \in {Word("6"), Word("7"), Word("8"), Request(c)}
          /\ up[c][k + 1] = Request(c) => k + 1 = Len(up[c])
      BY <3>1 DEF Asks
    <3>4. k + 1 = Len(up[c]) => k = Len(up'[c])
      BY <1>n, <3>1
    <3> QED BY <3>2, <3>3, <3>4
  <2> QED BY <2>1, <2>2
<1>3. ASSUME cpc[c] = "back" PROVE Patient(c)'
  <2>0. Patient(c)
    BY <1>3 DEF InTouch
  <2>1. CASE down[c] # <<>> /\ Head(down[c]).op # "4"
    <3>1. down[c][1] = Head(down[c]) /\ 1 \in 1 .. Len(down[c]) /\ Len(down[c]) >= 1
      BY <1>n, <2>1, SequenceTail
    <3>2. (down[c] \o e)[1] = down[c][1] /\ Len(down[c] \o e) = Len(down[c]) + Len(e) /\ Sequence(down[c] \o e)
      BY <3>1, SequenceJoin
    <3>3. down[c] \o e # <<>>
      BY <1>n, <3>1, <3>2, SequenceShort
    <3>4. Head(down[c] \o e) = Head(down[c])
      BY <3>1, <3>2, <3>3, SequenceTail
    <3> QED BY <2>1, <3>4 DEF Patient
  <2>2. CASE down[c] = <<>> \/ (up[c] = <<>> /\ state[c] = 1)
    BY <1>3, <2>2
  <2> QED BY <2>0, <2>1, <2>2 DEF Patient
<1>4. ASSUME cpc[c] \notin Gone \cup {"back"} PROVE Ahead(c)'
  <2>1. CASE Doomed(cpc[c], down[c]) /\ Sevens(c)
    <3>1. Doomed(cpc[c], down[c] \o e)
      BY <2>1, DoomedOn
    <3> QED BY <1>1, <2>1, <3>1 DEF Ahead
  <2>2. ASSUME NEW q \in Places, Takes(cpc[c], down[c], Len(down[c]), q), View(c, q) PROVE Ahead(c)'
    <3>1. CASE Doomed(q, e) /\ Sevens(c)
      <4>1. Doomed(cpc[c], down[c] \o e)
        BY <2>2, <3>1, DoomedAfter
      <4> QED BY <1>1, <3>1, <4>1 DEF Ahead
    <3>2. ASSUME NEW z \in Places, Takes(q, e, Len(e), z), View(c, z)' PROVE Ahead(c)'
      <4>1. PICK f, p, d, n, m, l :
              f = down[c] \o e /\ p = cpc[c] /\ d = down[c] /\ n = Len(d) /\ m = Len(e) /\ l = Len(f)
        OBVIOUS
      <4>2. n \in Nat /\ m \in Nat /\ l = n + m
        BY <1>n, <4>1, SequenceJoin
      <4>3. Follows(f, d, n, e, m)
        BY <4>1, SequenceJoin DEF Follows
      <4>4. Takes(p, f, l, z)
        BY <2>2, <3>2, <4>1, <4>2, <4>3, TakesOn
      <4>5. Takes(cpc'[c], down'[c], Len(down'[c]), z)
        BY <4>1, <4>4
      <4> QED BY <3>2, <4>5 DEF Ahead
    <3> QED BY <1>4, <2>2, <3>1, <3>2
  <2>3. Ahead(c)
    BY <1>4 DEF InTouch
  <2> QED BY <2>1, <2>2, <2>3 DEF Ahead
<1> QED BY <1>2, <1>3, <1>4 DEF InTouch

-----------------------------------------------------------------------------
(* Lemmas about the invariant.                                             *)

LEMMA MinIn ==
  ASSUME NEW S, S \subseteq Nat, S # {}
  PROVE  Min(S) \in S /\ \A y \in S : Min(S) <= y
<1> DEFINE R == {p \in Nat \X Nat : p[1] < p[2]}
<1>1. R = OpToRel(<, Nat)
  BY Zenon DEF OpToRel
<1>2. IsWellFoundedOn(R, Nat)
  BY <1>1, NatLessThanWellFounded, Zenon
<1>3. PICK x \in S : \A y \in S : ~ (<<y, x>> \in R)
  <2> HIDE DEF R
  <2> QED BY <1>2, WFMin, Zenon
<1>4. ASSUME NEW y \in S PROVE x =< y
  <2>1. x \in Nat /\ y \in Nat
    OBVIOUS
  <2>2. <<y, x>> \notin R
    BY <1>3
  <2> QED BY <2>1, <2>2
<1> QED
  BY <1>4 DEF Min

\* Names change hands only when a client reads or is told of its login.
LEMMA NamesKept ==
  ASSUME NamesRight,
         \A c \in Conns : Claims(c)' => Claims(c) /\ name'[c] = name[c] /\ my_id'[c] = my_id[c]
  PROVE  NamesRight'
BY DEF NamesRight

\* A set of places that lines do not lead out of.
LEMMA TakesWithin ==
  ASSUME NEW A, \A x \in A \cap Reading : \A l : After(x, l) \in A \cup {"puzzled"},
         NEW p \in A, NEW d, NEW n \in Nat, NEW q, Takes(p, d, n, q)
  PROVE  q \in A
<1>1. PICK r \in [0 .. n -> Places] :
        /\ r[0] = p /\ r[n] = q
        /\ \A k \in 1 .. n : r[k - 1] \in Reading /\ r[k] # "puzzled" /\ r[k] = After(r[k - 1], d[k])
  BY DEF Takes
<1> DEFINE B == {k \in 0 .. n : r[k] \notin A}
<1>2. CASE B = {}
  BY <1>1, <1>2
<1>3. CASE B # {}
  <2>1. PICK k \in B : \A j \in B : k <= j
    <3>1. B \subseteq Nat
      OBVIOUS
    <3> HIDE DEF B
    <3> QED BY <1>3, <3>1, MinIn
  <2>2. k \in 0 .. n /\ r[k] \notin A /\ k # 0
    BY <1>1, <2>1
  <2>3. k \in 1 .. n /\ k - 1 \in 0 .. n /\ ~(k <= k - 1)
    BY <2>2
  <2>4. r[k - 1] \in A
    BY <2>1, <2>3
  <2>5. r[k - 1] \in Reading /\ r[k] # "puzzled" /\ r[k] = After(r[k - 1], d[k])
    BY <1>1, <2>3
  <2> QED BY <2>2, <2>4, <2>5
<1> QED BY <1>2, <1>3

\* Once in the room, a client leaves it for the lobby.
LEMMA TakesFromRoom ==
  ASSUME NEW p \in {"room", "game"}, NEW d, NEW n \in Nat, NEW q, Takes(p, d, n, q)
  PROVE  q \in {"room", "game", "back"}
<1>1. PICK A : A = {"room", "game", "back"}
  OBVIOUS
<1>2. \A x \in A \cap Reading : \A l : After(x, l) \in A \cup {"puzzled"}
  BY <1>1 DEF Reading, After
<1>3. q \in A
  BY <1>1, <1>2, TakesWithin
<1> QED BY <1>1, <1>3

\* The first of the lines is read.
LEMMA TakesHead ==
  ASSUME NEW p, NEW d, Sequence(d), d # <<>>, NEW q, Takes(p, d, Len(d), q)
  PROVE  /\ p \in Reading /\ After(p, Head(d)) \in Places \ {"puzzled"}
         /\ Takes(After(p, Head(d)), Tail(d), Len(Tail(d)), q)
<1>1. Len(d) \in Nat \ {0} /\ Head(d) = d[1] /\ Len(Tail(d)) = Len(d) - 1
  BY SequenceLen, SequenceTail
<1>2. PICK f, n : f = Tail(d) /\ n = Len(d)
  OBVIOUS
<1>3. \A k \in 1 .. n - 1 : f[k] = d[k + 1]
  BY <1>2, SequenceTail
<1>4. n \in Nat \ {0} /\ Takes(p, d, n, q)
  BY <1>1, <1>2
<1>5. p \in Reading /\ After(p, d[1]) \in Places \ {"puzzled"} /\ Takes(After(p, d[1]), f, n - 1, q)
  BY <1>3, <1>4, TakesFirst
<1> QED BY <1>1, <1>2, <1>5

\* Nothing is on its way while a player types a name or chooses a room.
LEMMA AtRest ==
  ASSUME TalkTyped, NEW c \in Conns, InTouch(c), cpc[c] \in {"login", "lobby"}
  PROVE  down[c] = <<>> /\ up[c] = <<>> /\ state[c] = 1
<1>0. Sequence(down[c]) /\ Len(down[c]) \in Nat
  BY SequenceLen DEF TalkTyped
<1>1. cpc[c] \notin Reading /\ cpc[c] # "room" /\ cpc[c] \notin Gone \cup {"back"}
  BY DEF Reading, Gone
<1>2. ~Doomed(cpc[c], down[c])
  BY <1>0, <1>1, DoomedFirst
<1>3. PICK q \in Places : Takes(cpc[c], down[c], Len(down[c]), q) /\ View(c, q)
  BY <1>1, <1>2 DEF InTouch, Ahead
<1>4. Len(down[c]) = 0 /\ q = cpc[c]
  BY <1>0, <1>1, <1>3, TakesPlaces
<1>5. down[c] = <<>>
  BY <1>0, <1>4, SequenceLen
<1> QED BY <1>3, <1>4, <1>5 DEF View

\* What c has on its way in the room or the game, and what is on its way to it.
LEMMA InRoom ==
  ASSUME TalkTyped, NEW c \in Conns, InTouch(c), cpc[c] \in {"room", "game"}
  PROVE  Sevens(c) /\ (down[c] # <<>> => Head(down[c]).op # "4")
<1>0. Sequence(down[c]) /\ Len(down[c]) \in Nat
  BY SequenceLen DEF TalkTyped
<1>1. Ahead(c)
  BY DEF InTouch, Gone
<1>2. Sevens(c)
  <2> SUFFICES ASSUME NEW q \in Places, Takes(cpc[c], down[c], Len(down[c]), q), View(c, q) PROVE Sevens(c)
    BY <1>1 DEF Ahead
  <2>1. q \in {"room", "game", "back"}
    BY <1>0, TakesFromRoom
  <2> QED BY <2>1 DEF View
<1>3. ASSUME down[c] # <<>> PROVE Head(down[c]).op # "4"
  <2>1. Head(down[c]) = down[c][1] /\ Len(down[c]) \in Nat \ {0}
    BY <1>0, <1>3, SequenceTail, SequenceLen
  <2>2. down[c][1] = Word("19") \/ After(cpc[c], down[c][1]) # "puzzled"
    <3>1. CASE Doomed(cpc[c], down[c])
      BY <1>0, <3>1, DoomedFirst
    <3>2. ASSUME NEW q \in Places, Takes(cpc[c], down[c], Len(down[c]), q)
          PROVE  After(cpc[c], down[c][1]) # "puzzled"
      <4>1. PICK p, d : p = cpc[c] /\ d = down[c]
        OBVIOUS
      <4>2. Sequence(d) /\ d # <<>> /\ Takes(p, d, Len(d), q)
        BY <1>0, <1>3, <3>2, <4>1
      <4>3. After(p, Head(d)) \in Places \ {"puzzled"}
        BY <4>2, TakesHead
      <4> QED BY <2>1, <4>1, <4>3
    <3> QED BY <1>1, <3>1, <3>2 DEF Ahead
  <2>3. down[c][1].op # "4"
    BY <2>2, Ops DEF After, GameWords
  <2> QED BY <2>1, <2>3
<1> QED BY <1>2, <1>3

-----------------------------------------------------------------------------
(* The steps of a client.                                                  *)

\* Nothing happens to d.
Steady(d) ==
  /\ state'[d] = state[d] /\ up'[d] = up[d] /\ down'[d] = down[d]
  /\ cpc'[d] = cpc[d] /\ my_id'[d] = my_id[d]

LEMMA HoldsSame ==
  ASSUME UNCHANGED <<used, in_game, alive, rused>>
  PROVE  (\A s \in Seats : Held(s)' <=> Held(s)) /\ (\A c \in Conns : Holds(c)' <=> Holds(c))
BY DEF Held, Holds

\* A step of client c that leaves the server's state alone.
LEMMA ClientKeeps ==
  ASSUME IInv, NEW c \in Conns, UNCHANGED <<state, name, request, used, in_game, players, rused, alive>>,
         \A d \in Conns \ {c} : Steady(d),
         cpc' \in [Conns -> Places], FunctionOn(my_id', Conns), FunctionOn(up', Conns),
         FunctionOn(down', Conns), Sequence(up'[c]), Sequence(down'[c]),
         InTouch(c)', Claims(c)' => Claims(c) /\ my_id'[c] = my_id[c]
  PROVE  IInv'
<1>1. TalkTyped'
  <2>1. \A d \in Conns : Sequence(up[d]) /\ Sequence(down[d])
    BY DEF IInv, TalkTyped
  <2>2. \A d \in Conns : Sequence(up'[d]) /\ Sequence(down'[d])
    BY <2>1 DEF Steady
  <2>3. /\ state \in [Conns -> 0 .. 2] /\ request \in [Conns -> {"none", "3", "4", "5"}]
        /\ players \in [Seats -> Conns \cup {None}] /\ rused \in [Seats -> Conns \cup {None}]
        /\ alive \subseteq Seats /\ used \in BOOLEAN /\ in_game \in BOOLEAN
        /\ FunctionOn(name, Conns)
    BY DEF IInv, TalkTyped
  <2> QED BY <2>2, <2>3 DEF TalkTyped
<1>2. RoomRight'
  BY HoldsSame DEF IInv, RoomRight, Held
<1>3. AllInTouch'
  <2> SUFFICES ASSUME NEW d \in Conns, d # c PROVE InTouch(d)'
    BY DEF AllInTouch
  <2>1. InTouch(d) /\ Steady(d)
    BY DEF IInv, AllInTouch
  <2> QED BY <2>1, HoldsSame, Untouched DEF Steady
<1>4. NamesRight'
  <2> SUFFICES ASSUME NEW d \in Conns PROVE Claims(d)' => Claims(d) /\ my_id'[d] = my_id[d]
    BY NamesKept DEF IInv
  <2>1. CASE d # c
    BY <2>1 DEF Steady, Claims
  <2> QED BY <2>1
<1> QED BY <1>1, <1>2, <1>3, <1>4 DEF IInv

\* What a step of one client does to its variables.
LEMMA OneClient ==
  ASSUME IInv, NEW c \in Conns, NEW p \in Places, NEW u, Sequence(u),
         Changed(cpc', cpc, c, p), Changed(up', up, c, up[c] \o u)
  PROVE  /\ cpc' \in [Conns -> Places] /\ cpc'[c] = p
         /\ FunctionOn(up', Conns) /\ Sequence(up'[c]) /\ up'[c] = up[c] \o u
         /\ \A d \in Conns \ {c} : cpc'[d] = cpc[d] /\ up'[d] = up[d]
<1>1. cpc \in [Conns -> Places] /\ FunctionOn(up, Conns) /\ Sequence(up[c])
  BY DEF IInv, TalkTyped
<1>2. PICK v : v = up[c] \o u
  OBVIOUS
<1>3. Sequence(v)
  BY <1>1, <1>2, SequenceJoin
<1>4. Changed(up', up, c, v)
  BY <1>2
<1>5. FunctionOn(up', Conns) /\ up'[c] = v /\ \A y \in Conns : y # c => up'[y] = up[y]
  BY <1>1, <1>4, FunctionExcept
<1>6. cpc' \in [Conns -> Places] /\ cpc'[c] = p /\ \A d \in Conns \ {c} : cpc'[d] = cpc[d]
  BY <1>1 DEF Changed
<1> QED BY <1>2, <1>3, <1>5, <1>6

\* A name is typed at rest.
LEMMA LoginKeeps ==
  ASSUME IInv, NEW c \in Conns, NEW n \in Names, Login(c, n)
  PROVE  IInv'
<1>0. /\ TalkTyped /\ InTouch(c) /\ FunctionOn(my_id, Conns) /\ FunctionOn(down, Conns)
      /\ cpc[c] = "login" /\ down' = down
      /\ UNCHANGED <<state, name, request, used, in_game, players, rused, alive>>
      /\ Changed(my_id', my_id, c, n)
  BY DEF Changed, IInv, AllInTouch, TalkTyped, Login, clientFrame, conns, room, thread
<1>1. down[c] = <<>> /\ up[c] = <<>> /\ state[c] = 1
  BY <1>0, AtRest
<1>2. FunctionOn(my_id', Conns) /\ my_id'[c] = n /\ \A d \in Conns : d # c => my_id'[d] = my_id[d]
  BY <1>0, FunctionExcept
<1>3. PICK p \in Places : p = "loginwait"
  BY DEF Places, Reading
<1>u. PICK u : u = <<Line("2", n)>>
  OBVIOUS
<1>4. Sequence(u)
  BY <1>u, SequenceShort
<1>5. Changed(cpc', cpc, c, p) /\ Changed(up', up, c, up[c] \o u)
  BY <1>3, <1>u DEF Login, Send, Changed
<1>6. /\ cpc' \in [Conns -> Places] /\ cpc'[c] = p
      /\ FunctionOn(up', Conns) /\ Sequence(up'[c]) /\ up'[c] = up[c] \o u
      /\ \A d \in Conns \ {c} : cpc'[d] = cpc[d] /\ up'[d] = up[d]
  BY <1>4, <1>5, OneClient
<1>7. up'[c] = <<Line("2", my_id'[c])>>
  BY <1>1, <1>2, <1>u, <1>6
<1>8. InTouch(c)'
  <2>1. View(c, p)'
    BY <1>0, <1>1, <1>3, <1>7 DEF View
  <2>2. Takes(cpc'[c], down'[c], Len(down'[c]), p)
    BY <1>0, <1>1, <1>3, <1>6, TakesNone, SequenceShort
  <2>3. Ahead(c)'
    BY <2>1, <2>2 DEF Ahead
  <2> QED BY <1>0, <1>1, <1>3, <1>6, <2>3 DEF InTouch, Gone
<1>9. ~Claims(c)'
  BY <1>0, <1>1, <1>3, <1>6, SequenceShort DEF Claims, LoggedIn
<1>10. \A d \in Conns \ {c} : Steady(d)
  BY <1>0, <1>2, <1>6 DEF Steady
<1>11. Sequence(down'[c]) /\ FunctionOn(down', Conns)
  BY <1>0, <1>1, SequenceShort
<1> QED BY <1>0, <1>2, <1>6, <1>8, <1>9, <1>10, <1>11, ClientKeeps

\* Client c sends lines u and goes on to p.
LEMMA ClientSends ==
  ASSUME IInv, NEW c \in Conns, NEW p \in Places, NEW u, Sequence(u),
         UNCHANGED <<state, name, request, used, in_game, players, rused, alive, down, my_id>>,
         Changed(cpc', cpc, c, p), Changed(up', up, c, up[c] \o u),
         cpc'[c] = p /\ up'[c] = up[c] \o u => InTouch(c)' /\ (Claims(c)' => Claims(c))
  PROVE  IInv'
<1>1. /\ cpc' \in [Conns -> Places] /\ cpc'[c] = p
      /\ FunctionOn(up', Conns) /\ Sequence(up'[c]) /\ up'[c] = up[c] \o u
      /\ \A d \in Conns \ {c} : cpc'[d] = cpc[d] /\ up'[d] = up[d]
  BY OneClient
<1>2. \A d \in Conns \ {c} : Steady(d)
  BY <1>1 DEF Steady
<1>3. FunctionOn(my_id', Conns) /\ FunctionOn(down', Conns) /\ Sequence(down'[c])
  BY DEF IInv, TalkTyped
<1> QED BY <1>1, <1>2, <1>3, ClientKeeps

\* A room is asked for at rest.
LEMMA AskRoomKeeps ==
  ASSUME IInv, NEW c \in Conns, NEW w \in {"3", "4", "5"}, AskRoom(c, w)
  PROVE  IInv'
<1>0. /\ TalkTyped /\ InTouch(c) /\ cpc[c] = "lobby"
      /\ UNCHANGED <<state, name, request, used, in_game, players, rused, alive, down, my_id>>
  BY DEF IInv, AllInTouch, AskRoom, clientFrame, conns, room, thread
<1>1. down[c] = <<>> /\ up[c] = <<>> /\ state[c] = 1
  BY <1>0, AtRest
<1>2. PICK p \in Places : p = "enter"
  BY DEF Places, Reading
<1>3. PICK u : u = <<Word(w)>>
  OBVIOUS
<1>4. Sequence(u)
  BY <1>3, SequenceShort
<1>5. Changed(cpc', cpc, c, p) /\ Changed(up', up, c, up[c] \o u)
  BY <1>2, <1>3 DEF AskRoom, Send, Changed
<1>6. ASSUME cpc'[c] = p, up'[c] = up[c] \o u PROVE InTouch(c)' /\ (Claims(c)' => Claims(c))
  <2>0. up'[c] = <<Word(w)>>
    BY <1>1, <1>3, <1>6
  <2>1. View(c, p)'
    BY <1>0, <1>1, <1>2, <2>0 DEF View
  <2>2. Takes(cpc'[c], down'[c], Len(down'[c]), p)
    BY <1>0, <1>1, <1>2, <1>6, TakesNone, SequenceShort
  <2>3. Ahead(c)'
    BY <2>1, <2>2 DEF Ahead
  <2>4. Claims(c)
    BY <1>0 DEF Claims, LoggedIn
  <2> QED BY <1>0, <1>1, <1>2, <1>6, <2>3, <2>4 DEF InTouch, Gone
<1> QED BY <1>0, <1>4, <1>5, <1>6, ClientSends

\* Who leaves the room or the game waits for the answer.
LEMMA Departs ==
  ASSUME TalkTyped, NEW c \in Conns, InTouch(c), cpc[c] \in {"room", "game"}, NEW w \in {"6", "8"},
         cpc'[c] = "back", up'[c] = up[c] \o <<Word(w), Request(c)>>,
         UNCHANGED <<state, down, my_id>>
  PROVE  InTouch(c)'
<1>1. Sevens(c) /\ (down[c] # <<>> => Head(down[c]).op # "4")
  BY InRoom
<1>2. Sequence(up[c]) /\ Len(up[c]) \in Nat
  BY SequenceLen DEF TalkTyped
<1>3. PICK u, v : u = <<Word(w), Request(c)>> /\ v = up[c] \o u
  OBVIOUS
<1>4. Sequence(u) /\ Len(u) = 2 /\ u[1] = Word(w) /\ u[2] = Request(c)
  BY <1>3, SequenceShort
<1>5. /\ Len(v) = Len(up[c]) + 2
      /\ \A k \in 1 .. Len(up[c]) : v[k] = up[c][k]
      /\ \A k \in 1 .. 2 : v[Len(up[c]) + k] = u[k]
  BY <1>2, <1>3, <1>4, SequenceJoin
<1>6. Word("7") # Request(c) /\ Word(w) # Request(c)
  <2>1. Word("7").op = "7" /\ Word(w).op = w /\ Request(c).op = "token"
    BY DEF Word, Line, Request
  <2> QED BY <2>1
<1>7. ASSUME NEW k \in 1 .. Len(v)
      PROVE  v[k] \in {Word("6"), Word("7"), Word("8"), Request(c)} /\ (v[k] = Request(c) => k = Len(v))
  <2>1. CASE k \in 1 .. Len(up[c])
    BY <1>1, <1>5, <1>6, <2>1 DEF Sevens
  <2>2. CASE k = Len(up[c]) + 1
    <3>1. v[k] = u[1]
      BY <1>5, <2>2
    <3> QED BY <1>4, <1>6, <3>1
  <2>3. CASE k = Len(up[c]) + 2
    <3>1. v[k] = u[2] /\ k = Len(v)
      BY <1>5, <2>3
    <3> QED BY <1>4, <3>1
  <2> QED BY <1>2, <1>5, <2>1, <2>2, <2>3
<1>8. Asks(c)'
  <2>1. Request(c)' = Request(c) /\ up'[c] = v
    BY <1>3 DEF Request
  <2> QED BY <1>7, <2>1 DEF Asks
<1>9. Patient(c)'
  BY <1>1 DEF Patient
<1>10. state[c] # 0
  BY DEF InTouch, Gone
<1> QED BY <1>8, <1>9, <1>10 DEF InTouch

LEMMA LeaveKeeps ==
  ASSUME IInv, NEW c \in Conns, NEW w \in {"6", "8"}, NEW q \in {"room", "game"}, cpc[c] = q,
         Send(c, <<Word(w), Request(c)>>), cpc' = [cpc EXCEPT ![c] = "back"],
         UNCHANGED <<clientFrame, down, my_id>>
  PROVE  IInv'
<1>0. /\ TalkTyped /\ InTouch(c) /\ cpc[c] \in {"room", "game"}
      /\ UNCHANGED <<state, name, request, used, in_game, players, rused, alive, down, my_id>>
  BY DEF IInv, AllInTouch, clientFrame, conns, room, thread
<1>2. PICK p \in Places : p = "back"
  BY DEF Places
<1>3. PICK u : u = <<Word(w), Request(c)>>
  OBVIOUS
<1>4. Sequence(u)
  BY <1>3, SequenceShort
<1>5. Changed(cpc', cpc, c, p) /\ Changed(up', up, c, up[c] \o u)
  BY <1>2, <1>3 DEF Send, Changed
<1>6. ASSUME cpc'[c] = p, up'[c] = up[c] \o u PROVE InTouch(c)' /\ (Claims(c)' => Claims(c))
  <2>1. InTouch(c)'
    BY <1>0, <1>2, <1>3, <1>6, Departs
  <2> QED BY <1>0, <2>1 DEF Claims, LoggedIn
<1> QED BY <1>0, <1>4, <1>5, <1>6, ClientSends

\* A game is asked for.
LEMMA StartGameKeeps ==
  ASSUME IInv, NEW c \in Conns, StartGame(c)
  PROVE  IInv'
<1>0. /\ TalkTyped /\ InTouch(c) /\ cpc[c] = "room" /\ cpc' = cpc
      /\ UNCHANGED <<state, name, request, used, in_game, players, rused, alive, down, my_id>>
  BY DEF IInv, AllInTouch, StartGame, clientFrame, conns, room, thread, client
<1>1. Sevens(c) /\ Ahead(c) /\ state[c] # 0
  BY <1>0, InRoom DEF InTouch, Gone
<1>2. PICK p \in Places : p = "room"
  BY DEF Places, Reading
<1>3. PICK u : u = <<Word("7")>>
  OBVIOUS
<1>4. Sequence(u) /\ Len(u) = 1 /\ u[1] = Word("7")
  BY <1>3, SequenceShort
<1>5. Changed(cpc', cpc, c, p) /\ Changed(up', up, c, up[c] \o u)
  <2>1. cpc \in [Conns -> Places]
    BY <1>0 DEF TalkTyped
  <2>2. Changed(cpc', cpc, c, p)
    BY <1>0, <1>2, <2>1 DEF Changed
  <2> QED BY <1>3, <2>2 DEF StartGame, Send, Changed
<1>6. ASSUME cpc'[c] = p, up'[c] = up[c] \o u PROVE InTouch(c)' /\ (Claims(c)' => Claims(c))
  <2>1. Sequence(up[c]) /\ Len(up[c]) \in Nat /\ Sequence(down[c]) /\ Len(down[c]) \in Nat
    BY <1>0, SequenceLen DEF TalkTyped
  <2>2. Sevens(c)'
    <3>1. PICK s, v : s = up[c] /\ v = s \o u
      OBVIOUS
    <3>2. Sequence(s) /\ Len(s) \in Nat /\ \A k \in 1 .. Len(s) : s[k] = Word("7")
      BY <1>1, <2>1, <3>1 DEF Sevens
    <3>4. /\ Len(v) = Len(s) + 1
          /\ \A k \in 1 .. Len(s) : v[k] = s[k]
          /\ v[Len(s) + 1] = u[1]
      <4>1. Sequence(u)
        BY <1>4
      <4>2. Sequence(s)
        BY <3>2
      <4>3. /\ Len(v) = Len(s) + Len(u)
            /\ \A k \in 1 .. Len(s) : v[k] = s[k]
            /\ \A k \in 1 .. Len(u) : v[Len(s) + k] = u[k]
        BY <3>1, <4>1, <4>2, SequenceJoin
      <4>4. 1 \in 1 .. Len(u)
        BY <1>4
      <4> QED BY <1>4, <4>3, <4>4
    <3>3. ASSUME NEW k \in 1 .. Len(v) PROVE v[k] = Word("7")
      BY <1>4, <3>2, <3>4
    <3> QED BY <1>6, <3>1, <3>3 DEF Sevens
  <2>3. Ahead(c)'
    <3>1. CASE Doomed(cpc[c], down[c])
      BY <1>0, <2>2, <3>1 DEF Ahead
    <3>2. ASSUME NEW q \in Places, Takes(cpc[c], down[c], Len(down[c]), q), View(c, q) PROVE Ahead(c)'
      <4>1. q \in {"room", "game", "back"}
        BY <1>0, <2>1, <3>2, TakesFromRoom
      <4>2. View(c, q)'
        BY <1>0, <2>2, <3>2, <4>1, HoldsSame DEF View
      <4> QED BY <1>0, <3>2, <4>2 DEF Ahead
    <3> QED BY <1>1, <3>1, <3>2 DEF Ahead
  <2> QED BY <1>0, <1>1, <2>3 DEF InTouch, Claims, LoggedIn
<1> QED BY <1>0, <1>4, <1>5, <1>6, ClientSends

LEMMA KillKeeps ==
  ASSUME IInv, NEW c \in Conns, Kill(c)
  PROVE  IInv'
<1>0. UNCHANGED <<state, name, request, used, in_game, players, rused, alive, down, my_id>>
  BY DEF Kill, clientFrame, conns, room, thread
<1>2. PICK p \in Places : p = "off"
  BY DEF Places, Gone
<1>3. PICK u : u = <<EOF>>
  OBVIOUS
<1>4. Sequence(u)
  BY <1>3, SequenceShort
<1>5. Changed(cpc', cpc, c, p) /\ Changed(up', up, c, up[c] \o u)
  BY <1>2, <1>3 DEF Kill, Send, Changed
<1>6. cpc'[c] = p => InTouch(c)' /\ ~Claims(c)'
  BY <1>2 DEF InTouch, Gone, Claims, LoggedIn
<1> QED BY <1>0, <1>4, <1>5, <1>6, ClientSends

\* A client connects.
LEMMA ConnectKeeps ==
  ASSUME IInv, Connect
  PROVE  IInv'
<1>1. PICK c : c = Min(Free)
  OBVIOUS
<1>2. c \in Conns /\ state[c] = 0
  <2>1. Free \subseteq Nat /\ Free # {}
    BY DEF Free, Conns, Connect
  <2>2. c \in Free
    BY <1>1, <2>1, MinIn
  <2> QED BY <2>2 DEF Free
<1>3. /\ Changed(state', state, c, 1) /\ Changed(up', up, c, <<Word("1")>>) /\ Changed(down', down, c, <<>>)
      /\ Changed(cpc', cpc, c, "hello") /\ Changed(my_id', my_id, c, NoName)
      /\ UNCHANGED <<name, request, used, in_game, players, rused, alive>>
  BY <1>1 DEF Connect, Changed, room, thread
<1>4. /\ state \in [Conns -> 0 .. 2] /\ cpc \in [Conns -> Places]
      /\ FunctionOn(my_id, Conns) /\ FunctionOn(up, Conns) /\ FunctionOn(down, Conns)
  BY DEF IInv, TalkTyped
<1>5. /\ state' \in [Conns -> 0 .. 2] /\ state'[c] = 1 /\ \A d \in Conns : d # c => state'[d] = state[d]
  BY <1>2, <1>3, <1>4 DEF Changed
<1>6. cpc' \in [Conns -> Places] /\ cpc'[c] = "hello" /\ \A d \in Conns : d # c => cpc'[d] = cpc[d]
  BY <1>2, <1>3, <1>4 DEF Changed, Places, Reading
<1>7. FunctionOn(my_id', Conns) /\ \A d \in Conns : d # c => my_id'[d] = my_id[d]
  BY <1>2, <1>3, <1>4, FunctionExcept
<1>8. FunctionOn(up', Conns) /\ up'[c] = <<Word("1")>> /\ \A d \in Conns : d # c => up'[d] = up[d]
  <2>1. PICK u : u = <<Word("1")>>
    OBVIOUS
  <2>2. Changed(up', up, c, u)
    BY <1>3, <2>1
  <2>3. FunctionOn(up', Conns) /\ up'[c] = u /\ \A d \in Conns : d # c => up'[d] = up[d]
    BY <1>2, <1>4, <2>2, FunctionExcept
  <2> QED BY <2>1, <2>3
<1>9. FunctionOn(down', Conns) /\ down'[c] = <<>> /\ \A d \in Conns : d # c => down'[d] = down[d]
  BY <1>2, <1>3, <1>4, FunctionExcept
<1>10. TalkTyped'
  <2>1. \A d \in Conns : Sequence(up[d]) /\ Sequence(down[d])
    BY DEF IInv, TalkTyped
  <2>2. \A d \in Conns : Sequence(up'[d]) /\ Sequence(down'[d])
    <3>1. Sequence(up'[c]) /\ Sequence(down'[c])
      BY <1>8, <1>9, SequenceShort
    <3> QED BY <1>8, <1>9, <2>1, <3>1
  <2>3. /\ request \in [Conns -> {"none", "3", "4", "5"}]
        /\ players \in [Seats -> Conns \cup {None}] /\ rused \in [Seats -> Conns \cup {None}]
        /\ alive \subseteq Seats /\ used \in BOOLEAN /\ in_game \in BOOLEAN
        /\ FunctionOn(name, Conns)
    BY DEF IInv, TalkTyped
  <2> QED BY <1>3, <1>5, <1>6, <1>7, <1>8, <1>9, <2>2, <2>3 DEF TalkTyped
<1>11. RoomRight'
  <2>0. \A s \in Seats : /\ players[s] # None => players[s] \in Conns
                         /\ rused[s] # None => rused[s] \in Conns
    BY DEF IInv, TalkTyped
  <2>1. \A d \in Conns : state[d] = 2 => state'[d] = 2
    BY <1>2, <1>5
  <2>2. \A s \in Seats : Held(s)' <=> Held(s)
    BY <1>3, HoldsSame
  <2>3. \A s \in Seats : Held(s) => rused[s] \in Conns
    BY <2>0 DEF Held
  <2> QED BY <1>3, <2>0, <2>1, <2>2, <2>3 DEF IInv, RoomRight
<1>12. AllInTouch'
  <2> SUFFICES ASSUME NEW d \in Conns PROVE InTouch(d)'
    BY DEF AllInTouch
  <2>1. CASE d # c
    <3>1. InTouch(d) /\ (Holds(d)' <=> Holds(d))
      BY <1>3, HoldsSame DEF IInv, AllInTouch
    <3> QED BY <1>3, <1>5, <1>6, <1>7, <1>8, <1>9, <2>1, <3>1, Untouched
  <2>2. CASE d = c
    <3>1. PICK p \in Places : p = "hello"
      BY DEF Places, Reading
    <3>2. View(d, p)'
      BY <1>5, <1>8, <2>2, <3>1 DEF View
    <3>3. Takes(cpc'[d], down'[d], Len(down'[d]), p)
      BY <1>6, <1>9, <2>2, <3>1, TakesNone, SequenceShort
    <3>4. Ahead(d)'
      BY <3>2, <3>3 DEF Ahead
    <3> QED BY <1>5, <1>6, <2>2, <3>4 DEF InTouch
  <2> QED BY <2>1, <2>2
<1>13. NamesRight'
  <2> SUFFICES ASSUME NEW d \in Conns PROVE Claims(d)' => Claims(d) /\ name'[d] = name[d] /\ my_id'[d] = my_id[d]
    BY NamesKept DEF IInv
  <2>1. CASE d # c
    BY <1>3, <1>6, <1>7, <1>9, <2>1 DEF Claims
  <2>2. CASE d = c
    BY <1>6, <2>2 DEF Claims, LoggedIn
  <2> QED BY <2>1, <2>2
<1> QED BY <1>10, <1>11, <1>12, <1>13 DEF IInv

LEMMA ExpectsAfter ==
  ASSUME NEW c, cpc[c] \in Reading, NEW l
  PROVE  Expects(c, l) = After(cpc[c], l)
BY DEF Expects, After, Reading

LEMMA Follow ==
  ASSUME NEW p \in Reading, NEW l
  PROVE  /\ After(p, l) \in Places
         /\ After(p, l) # "loginwait"
         /\ After(p, l) \in LoggedIn => p \in LoggedIn \/ (p = "loginwait" /\ l.op = "2")
BY DEF After, Reading, Places, Gone, LoggedIn

\* A client that was let go or has left sends its token last.
LEMMA TokenSent ==
  ASSUME NEW c \in Conns, Sequence(up[c]), Sevens(c), up'[c] = up[c] \o <<Request(c)>>, my_id'[c] = my_id[c]
  PROVE  Asks(c)'
<1>1. PICK s, u : s = up[c] /\ u = <<Request(c)>>
  OBVIOUS
<1>2. Sequence(s) /\ Sequence(u) /\ Len(u) = 1 /\ u[1] = Request(c)
  BY <1>1, SequenceShort
<1>3. Len(s) \in Nat /\ \A k \in 1 .. Len(s) : s[k] = Word("7")
  BY <1>1, SequenceLen DEF Sevens
<1>4. PICK v : v = s \o u
  OBVIOUS
<1>5. /\ Len(v) = Len(s) + 1
      /\ \A k \in 1 .. Len(s) : v[k] = s[k]
      /\ v[Len(s) + 1] = u[1]
  <2>1. Sequence(u) /\ Sequence(s)
    BY <1>2
  <2>3. /\ Len(v) = Len(s) + Len(u)
        /\ \A k \in 1 .. Len(s) : v[k] = s[k]
        /\ \A k \in 1 .. Len(u) : v[Len(s) + k] = u[k]
    BY <1>4, <2>1, SequenceJoin
  <2>4. 1 \in 1 .. Len(u)
    BY <1>2
  <2> QED BY <1>2, <2>3, <2>4
<1>6. Word("7") # Request(c)
  <2>1. Word("7").op = "7" /\ Request(c).op = "token"
    BY DEF Word, Line, Request
  <2> QED BY <2>1
<1>7. ASSUME NEW k \in 1 .. Len(v)
      PROVE  v[k] \in {Word("6"), Word("7"), Word("8"), Request(c)} /\ (v[k] = Request(c) => k = Len(v))
  BY <1>2, <1>3, <1>5, <1>6
<1>8. Request(c)' = Request(c) /\ up'[c] = v
  BY <1>1, <1>4 DEF Request
<1> QED BY <1>7, <1>8 DEF Asks

\* A client reads a line: where it goes on is where the lines after it begin.
LEMMA ReadKeeps ==
  ASSUME IInv, NEW c \in Conns, Read(c)
  PROVE  IInv'
<1>0. /\ TalkTyped /\ InTouch(c) /\ down[c] # <<>> /\ cpc[c] \in Reading \cup {"back"}
      /\ Sequence(up[c]) /\ Sequence(down[c]) /\ FunctionOn(down, Conns) /\ FunctionOn(my_id, Conns)
      /\ UNCHANGED <<state, name, request, used, in_game, players, rused, alive, my_id>>
  BY DEF IInv, AllInTouch, TalkTyped, Read, Reading, clientFrame, conns, room, thread
<1>1. PICK p, d, l, x, rest : p = cpc[c] /\ d = down[c] /\ l = Head(d) /\ x = Expects(c, l) /\ rest = Tail(d)
  OBVIOUS
<1>2. PICK u : u = CASE x = "back" -> <<Request(c)>> [] x = "puzzled" -> <<EOF>> [] OTHER -> <<>>
  OBVIOUS
<1>3. /\ Changed(cpc', cpc, c, x) /\ Changed(up', up, c, up[c] \o u) /\ Changed(down', down, c, rest)
  BY <1>1, <1>2 DEF Read, Send, Changed
<1>4. /\ Sequence(d) /\ Sequence(rest) /\ l = d[1] /\ Len(d) \in Nat /\ Len(d) >= 1 /\ Len(rest) \in Nat
  BY <1>0, <1>1, SequenceTail, SequenceLen
<1>5. x \in Places
  <2>1. CASE p = "back"
    BY <1>1, <2>1 DEF Expects, Places, Gone
  <2>2. CASE p \in Reading
    BY <1>1, <2>2, ExpectsAfter, Follow
  <2> QED BY <1>0, <1>1, <2>1, <2>2
<1>6. Sequence(u)
  BY <1>2, SequenceShort
<1>7. /\ cpc' \in [Conns -> Places] /\ cpc'[c] = x
      /\ FunctionOn(up', Conns) /\ Sequence(up'[c]) /\ up'[c] = up[c] \o u
      /\ \A e \in Conns \ {c} : cpc'[e] = cpc[e] /\ up'[e] = up[e]
  BY <1>3, <1>5, <1>6, OneClient
<1>8. FunctionOn(down', Conns) /\ down'[c] = rest /\ \A e \in Conns : e # c => down'[e] = down[e]
  BY <1>0, <1>3, FunctionExcept
<1>9. \A e \in Conns \ {c} : Steady(e)
  BY <1>0, <1>7, <1>8 DEF Steady
<1>10. x \notin {"back", "puzzled"} => up'[c] = up[c]
  <2>1. x \notin {"back", "puzzled"} => u = <<>>
    BY <1>2
  <2>2. PICK S : up[c] \in Seq(S)
    BY <1>0 DEF Sequence
  <2>3. up[c] \o <<>> = up[c]
    BY <2>2
  <2> QED BY <1>7, <2>1, <2>3
<1>11. x \notin Gone \cup {"back"} => (\A q : View(c, q) => View(c, q)') /\ (Sevens(c) => Sevens(c)')
  <2>1. Holds(c)' <=> Holds(c)
    BY <1>0, HoldsSame
  <2> QED BY <1>0, <1>10, <2>1 DEF View, Sevens, Gone
<1>12. InTouch(c)' /\ (Claims(c)' => Claims(c))
  <2>0. x \in Gone => InTouch(c)' /\ ~Claims(c)'
    BY <1>7 DEF InTouch, Gone, Claims, LoggedIn
  <2>1. CASE p = "back" /\ l.op # "4"
    <3>1. x = "puzzled"
      BY <1>1, <2>1 DEF Expects
    <3> QED BY <2>0, <3>1 DEF Gone
  <2>2. CASE p = "back" /\ l.op = "4"
    <3>1. x = "lobby"
      BY <1>1, <2>2 DEF Expects
    <3>2. d = <<Word("4")>> /\ up[c] = <<>> /\ state[c] = 1
      BY <1>0, <1>1, <2>2 DEF InTouch, Patient
    <3>3. rest = <<>> /\ Len(rest) = 0
      BY <1>1, <3>2
    <3>4. View(c, x)'
      BY <1>0, <1>10, <3>1, <3>2 DEF View
    <3>5. Takes(cpc'[c], down'[c], Len(down'[c]), x)
      BY <1>5, <1>7, <1>8, <3>3, TakesNone
    <3>6. Ahead(c)'
      BY <1>5, <3>4, <3>5 DEF Ahead
    <3> QED BY <1>0, <1>1, <1>7, <2>2, <3>1, <3>2, <3>6 DEF InTouch, Claims, LoggedIn
  <2>3. CASE p \in Reading
    <3>1. x = After(p, l) /\ x # "loginwait" /\ (x \in LoggedIn => p \in LoggedIn \/ (p = "loginwait" /\ l.op = "2"))
      BY <1>1, <2>3, ExpectsAfter, Follow
    <3>2. Claims(c)' => Claims(c)
      <4>1. 1 \in 1 .. Len(down[c]) /\ down[c][1] = l
        BY <1>1, <1>4
      <4> QED BY <1>1, <1>7, <3>1, <4>1 DEF Claims
    <3>3. Ahead(c) /\ state[c] # 0
      BY <1>0, <1>1, <2>3 DEF InTouch, Gone, Reading
    <3>4. CASE x \in Gone
      BY <2>0, <3>4
    <3>5. CASE Doomed(p, d) /\ Sevens(c) /\ x \notin Gone
      <4>1. Doomed(x, rest)
        <5>1. ~(p = "room" /\ d[1] = Word("19"))
          BY <1>4, <3>1, <3>5, Ops DEF After, Gone
        <5> QED BY <1>1, <1>4, <3>1, <3>5, <5>1, DoomedFirst
      <4>2. x # "back"
        BY <1>4, <4>1, DoomedFirst DEF Reading
      <4>3. Sevens(c)'
        BY <1>11, <3>5, <4>2
      <4>4. Ahead(c)'
        BY <1>7, <1>8, <4>1, <4>3 DEF Ahead
      <4> QED BY <1>0, <1>7, <3>2, <3>3, <4>2, <4>4 DEF InTouch
    <3>6. ASSUME NEW q \in Places, Takes(p, d, Len(d), q), View(c, q), x \notin Gone
          PROVE  InTouch(c)' /\ (Claims(c)' => Claims(c))
      <4>1. Takes(x, rest, Len(rest), q)
        BY <1>0, <1>1, <1>4, <3>1, <3>6, TakesHead
      <4>2. CASE x = "back"
        <5>1. Len(rest) = 0 /\ q = "back"
          BY <1>4, <4>1, <4>2, TakesPlaces DEF Reading
        <5>2. rest = <<>> /\ Sevens(c)
          BY <1>4, <3>6, <5>1, SequenceLen DEF View
        <5>3. Asks(c)'
          BY <1>0, <1>2, <1>7, <4>2, <5>2, TokenSent
        <5>4. Patient(c)'
          BY <1>8, <5>2 DEF Patient
        <5> QED BY <1>0, <1>7, <3>2, <3>3, <4>2, <5>3, <5>4 DEF InTouch
      <4>3. CASE x # "back"
        <5>1. View(c, q)'
          BY <1>11, <3>6, <4>3
        <5>2. Ahead(c)'
          BY <1>7, <1>8, <4>1, <5>1 DEF Ahead
        <5> QED BY <1>0, <1>7, <3>2, <3>3, <4>3, <5>2 DEF InTouch
      <4> QED BY <4>2, <4>3
    <3> QED BY <1>1, <3>3, <3>4, <3>5, <3>6 DEF Ahead
  <2> QED BY <1>0, <1>1, <2>1, <2>2, <2>3
<1> QED BY <1>0, <1>4, <1>7, <1>8, <1>9, <1>12, ClientKeeps

-----------------------------------------------------------------------------
(* The steps of the server.                                                *)

\* Lines that do not grant a login make nobody's claim to a name.
LEMMA ClaimsKept ==
  ASSUME NEW c \in Conns, cpc'[c] = cpc[c], Sequence(down[c]), NEW e, Sequence(e), down'[c] = down[c] \o e,
         \A k \in 1 .. Len(e) : e[k].op # "2"
  PROVE  Claims(c)' => Claims(c)
<1> SUFFICES ASSUME NEW k \in 1 .. Len(down'[c]), down'[c][k].op = "2"
             PROVE  \E j \in 1 .. Len(down[c]) : down[c][j].op = "2"
  BY DEF Claims
<1>1. PICK d, f : d = down[c] /\ f = d \o e
  OBVIOUS
<1>2. Len(d) \in Nat /\ Len(e) \in Nat /\ Len(f) = Len(d) + Len(e)
  BY <1>1, SequenceLen, SequenceJoin
<1>3. \A j \in 1 .. Len(d) : f[j] = d[j]
  BY <1>1, SequenceJoin
<1>4. \A j \in 1 .. Len(e) : f[Len(d) + j] = e[j]
  BY <1>1, SequenceJoin
<1>5. k \in 1 .. Len(f) /\ f[k].op = "2"
  BY <1>1
<1>6. k \in 1 .. Len(d)
  <2> SUFFICES ASSUME k \notin 1 .. Len(d) PROVE FALSE
    OBVIOUS
  <2>1. PICK j \in 1 .. Len(e) : k = Len(d) + j
    <3>1. k - Len(d) \in 1 .. Len(e) /\ k = Len(d) + (k - Len(d))
      BY <1>2, <1>5
    <3> QED BY <3>1
  <2> QED BY <1>4, <1>5, <2>1
<1>7. d[k].op = "2"
  BY <1>3, <1>5, <1>6
<1> QED BY <1>1, <1>6, <1>7

\* The first line from a client that is there.
LEMMA FirstLine ==
  ASSUME TalkTyped, NEW c \in Conns, InTouch(c), up[c] # <<>>, cpc[c] \notin Gone
  PROVE  /\ cpc[c] = "back" => /\ Head(up[c]) \in {Word("6"), Word("7"), Word("8"), Request(c)}
                               /\ Head(up[c]) = Request(c) => Tail(up[c]) = <<>>
         /\ cpc[c] # "back" => \/ Head(up[c]) \in {Word("1"), Word("3"), Word("4"), Word("5"), Word("7")}
                               \/ Head(up[c]) = Line("2", my_id[c])
<1>1. Sequence(up[c]) /\ Len(up[c]) \in Nat /\ Len(up[c]) >= 1
  BY SequenceLen, SequenceTail DEF TalkTyped
<1>2. Head(up[c]) = up[c][1] /\ 1 \in 1 .. Len(up[c]) /\ Len(Tail(up[c])) = Len(up[c]) - 1 /\ Sequence(Tail(up[c]))
  BY <1>1, SequenceTail
<1>3. ASSUME cpc[c] = "back"
      PROVE  /\ Head(up[c]) \in {Word("6"), Word("7"), Word("8"), Request(c)}
             /\ Head(up[c]) = Request(c) => Tail(up[c]) = <<>>
  <2>1. /\ up[c][1] \in {Word("6"), Word("7"), Word("8"), Request(c)}
        /\ up[c][1] = Request(c) => 1 = Len(up[c])
    BY <1>2, <1>3 DEF InTouch, Asks
  <2>2. 1 = Len(up[c]) => Tail(up[c]) = <<>>
    <3>1. PICK r : r = Tail(up[c])
      OBVIOUS
    <3>2. Sequence(r) /\ (1 = Len(up[c]) => Len(r) = 0)
      BY <1>2, <3>1
    <3>3. Len(r) = 0 => r = <<>>
      BY <3>2, SequenceLen
    <3> QED BY <3>1, <3>2, <3>3
  <2> QED BY <1>2, <2>1, <2>2
<1>4. ASSUME cpc[c] # "back"
      PROVE  \/ Head(up[c]) \in {Word("1"), Word("3"), Word("4"), Word("5"), Word("7")}
             \/ Head(up[c]) = Line("2", my_id[c])
  <2>1. Sevens(c) => Head(up[c]) = Word("7")
    BY <1>2 DEF Sevens
  <2>2. ASSUME NEW q \in Places, View(c, q)
        PROVE  \/ Head(up[c]) \in {Word("1"), Word("3"), Word("4"), Word("5"), Word("7")}
               \/ Head(up[c]) = Line("2", my_id[c])
    <3>1. CASE Sevens(c)
      BY <2>1, <3>1
    <3>2. CASE up[c] = <<Word("1")>>
      BY <3>2
    <3>3. CASE up[c] = <<Line("2", my_id[c])>>
      BY <3>3
    <3>4. ASSUME NEW w \in {"3", "4", "5"}, up[c] = <<Word(w)>>
          PROVE  Head(up[c]) \in {Word("3"), Word("4"), Word("5")}
      BY <3>4
    <3> QED BY <2>2, <3>1, <3>2, <3>3, <3>4 DEF View
  <2>3. Ahead(c)
    BY <1>4 DEF InTouch
  <2> QED BY <2>1, <2>2, <2>3 DEF Ahead
<1> QED BY <1>3, <1>4

\* What is with main() is in no seat and with no handler.
LEMMA InLobby ==
  ASSUME TalkTyped, RoomRight, NEW c \in Conns, state[c] # 2
  PROVE  /\ ~Holds(c) /\ request[c] = "none"
         /\ ~in_game => \A s \in Seats : players[s] # c
<1>1. ~Holds(c) /\ request[c] = "none"
  BY DEF Holds, RoomRight
<1>2. ~in_game => \A s \in Seats : players[s] # c
  BY NoneApart DEF RoomRight
<1> QED BY <1>1, <1>2

\* The answers of main().
LEMMA Answers ==
  ASSUME NEW c \in Conns, NEW l
  PROVE  /\ Sequence(Answer(c, l))
         /\ l.op = "1" => Answer(c, l) = <<Word("1")>>
         /\ l.op = "token" => Answer(c, l) = <<Word("4")>>
         /\ l.op = "2" /\ HandleLogin(l.who, c) => Answer(c, l) = <<Word("2"), Word("4")>>
         /\ l.op = "2" /\ ~HandleLogin(l.who, c) => Answer(c, l) = <<Word("3")>>
         /\ l.op \notin {"1", "2", "token"} => Answer(c, l) = <<>>
<1>1. ASSUME NEW a, NEW b PROVE Sequence(<<>>) /\ Sequence(<<a>>) /\ Sequence(<<a, b>>)
  BY SequenceShort
<1>2. /\ l.op = "1" => Answer(c, l) = <<Word("1")>>
      /\ l.op = "token" => Answer(c, l) = <<Word("4")>>
      /\ l.op = "2" /\ HandleLogin(l.who, c) => Answer(c, l) = <<Word("2"), Word("4")>>
      /\ l.op = "2" /\ ~HandleLogin(l.who, c) => Answer(c, l) = <<Word("3")>>
      /\ l.op \notin {"1", "2", "token"} => Answer(c, l) = <<>>
  BY DEF Answer
<1> QED BY <1>1, <1>2

\* Where the answer takes a client.
LEMMA AnswerTakes ==
  /\ Takes("hello", <<Word("1")>>, 1, "login")
  /\ Takes("loginwait", <<Word("3")>>, 1, "login")
  /\ Takes("loginwait", <<Word("2"), Word("4")>>, 2, "lobby")
<1>1. Takes("hello", <<Word("1")>>, 1, "login")
  <2>1. PICK p, d : p = "hello" /\ d = <<Word("1")>>
    OBVIOUS
  <2>2. d[1].op = "1"
    BY <2>1, Ops
  <2>3. After(p, d[1]) = "login" /\ p \in Reading /\ "login" \in Places \ {"puzzled"}
    BY <2>1, <2>2 DEF After, Reading, Places
  <2>4. Takes(p, d, 1, After(p, d[1]))
    BY <2>3, TakesOne
  <2> QED BY <2>1, <2>3, <2>4
<1>2. Takes("loginwait", <<Word("3")>>, 1, "login")
  <2>1. PICK p, d : p = "loginwait" /\ d = <<Word("3")>>
    OBVIOUS
  <2>2. d[1].op = "3"
    BY <2>1, Ops
  <2>3. After(p, d[1]) = "login" /\ p \in Reading /\ "login" \in Places \ {"puzzled"}
    BY <2>1, <2>2 DEF After, Reading, Places
  <2>4. Takes(p, d, 1, After(p, d[1]))
    BY <2>3, TakesOne
  <2> QED BY <2>1, <2>3, <2>4
<1>3. Takes("loginwait", <<Word("2"), Word("4")>>, 2, "lobby")
  <2>1. PICK p, d, r : p = "loginwait" /\ d = <<Word("2"), Word("4")>>
                       /\ r = [k \in 0 .. 2 |-> IF k = 0 THEN p ELSE IF k = 1 THEN "tokenwait" ELSE "lobby"]
    OBVIOUS
  <2>2. d[1].op = "2" /\ d[2].op = "4"
    BY <2>1, Ops
  <2>3. r \in [0 .. 2 -> Places] /\ r[0] = p /\ r[1] = "tokenwait" /\ r[2] = "lobby"
    BY <2>1 DEF Places, Reading
  <2>4. After(p, d[1]) = "tokenwait" /\ After("tokenwait", d[2]) = "lobby"
    BY <2>1, <2>2 DEF After
  <2>5. ASSUME NEW k \in 1 .. 2 PROVE r[k - 1] \in Reading /\ r[k] # "puzzled" /\ r[k] = After(r[k - 1], d[k])
    <3>1. k = 1 \/ k = 2
      OBVIOUS
    <3>2. p \in Reading /\ "tokenwait" \in Reading
      BY <2>1 DEF Reading
    <3>3. CASE k = 1
      BY <2>3, <2>4, <3>2, <3>3
    <3>4. CASE k = 2
      BY <2>3, <2>4, <3>2, <3>4
    <3> QED BY <3>1, <3>3, <3>4
  <2>6. Takes(p, d, 2, "lobby")
    BY <2>3, <2>5 DEF Takes
  <2> QED BY <2>1, <2>6
<1> QED BY <1>1, <1>2, <1>3

\* main() reads a line.
LEMMA MainReadTouch ==
  ASSUME IInv, NEW c \in Conns, state[c] = 1, up[c] # <<>>, NEW l, l = Head(up[c]),
         cpc'[c] = cpc[c], my_id'[c] = my_id[c], down'[c] = down[c] \o Answer(c, l), up'[c] = Tail(up[c]),
         l # EOF => state'[c] = IF l.op \in {"3", "4", "5"} THEN 2 ELSE 1,
         ~Holds(c)'
  PROVE  InTouch(c)'
<1>0. TalkTyped /\ RoomRight /\ InTouch(c) /\ Sequence(down[c]) /\ Sequence(up[c])
  BY DEF IInv, AllInTouch, TalkTyped
<1>1. ~Holds(c)
  BY <1>0, InLobby
<1>2. PICK e : e = Answer(c, l)
  OBVIOUS
<1>3. Sequence(e)
  BY <1>2, Answers
<1>4. cpc[c] \notin Gone => l # EOF
  <2>1. EOF.op = "eof" /\ \A w, x : Word(w).op = w /\ Line(w, x).op = w
    BY Ops DEF EOF
  <2> QED BY <1>0, <2>1, FirstLine DEF Request
<1>5. cpc[c] \notin Gone => state'[c] # 0
  BY <1>4
<1>6. ASSUME cpc[c] = "back" /\ (down[c] = <<>> \/ (up[c] = <<>> /\ state[c] = 1)) PROVE Patient(c)'
  <2>1. down[c] = <<>>
    BY <1>6
  <2>2. /\ l \in {Word("6"), Word("7"), Word("8"), Request(c)}
        /\ l = Request(c) => Tail(up[c]) = <<>>
    BY <1>0, <1>6, FirstLine DEF Gone
  <2>3. CASE l = Request(c)
    <3>1. l.op = "token"
      BY <2>3, Ops DEF Request
    <3>2. e = <<Word("4")>>
      BY <1>2, <3>1, Answers
    <3>3. state'[c] = 1
      BY <1>4, <1>6, <3>1 DEF Gone
    <3>4. down'[c] = <<Word("4")>> /\ up'[c] = <<>>
      BY <1>2, <2>1, <2>2, <2>3, <3>2
    <3> QED BY <3>3, <3>4 DEF Patient
  <2>4. CASE l \in {Word("6"), Word("7"), Word("8")}
    <3>1. l.op \in {"6", "7", "8"}
      BY <2>4 DEF Word
    <3>2. e = <<>>
      BY <1>2, <3>1, Answers
    <3> QED BY <1>2, <2>1, <3>2 DEF Patient
  <2> QED BY <2>2, <2>3, <2>4
<1>7. ASSUME NEW q \in Places, cpc[c] \notin Gone \cup {"back"}, View(c, q)
      PROVE  \E z \in Places : Takes(q, e, Len(e), z) /\ View(c, z)'
  <2>0. PICK y, v, w : y = "login" /\ v = "lobby" /\ w = "enter"
    OBVIOUS
  <2>p. y \in Places /\ v \in Places /\ w \in Places
    BY <2>0 DEF Places, Reading
  <2>1. CASE q = "hello" /\ up[c] = <<Word("1")>>
    <3>1. l = Word("1") /\ up'[c] = <<>>
      BY <2>1
    <3>2. l.op = "1"
      BY <3>1, Ops
    <3>3. e = <<Word("1")>> /\ Len(e) = 1
      BY <1>2, <3>2, Answers
    <3>4. state'[c] = 1
      BY <1>4, <1>7, <3>2
    <3>5. Takes(q, e, Len(e), y)
      BY <2>0, <2>1, <3>3, AnswerTakes
    <3>6. View(c, y)'
      BY <2>0, <3>1, <3>4 DEF View
    <3> QED BY <2>p, <3>5, <3>6
  <2>2. CASE q = "loginwait" /\ up[c] = <<Line("2", my_id[c])>>
    <3>1. l = Line("2", my_id[c]) /\ up'[c] = <<>>
      BY <2>2
    <3>2. l.op = "2"
      BY <3>1, Ops
    <3>4. state'[c] = 1
      BY <1>4, <1>7, <3>2
    <3>5. View(c, y)' /\ View(c, v)'
      BY <2>0, <3>1, <3>4 DEF View
    <3>6. CASE HandleLogin(l.who, c)
      <4>1. e = <<Word("2"), Word("4")>> /\ Len(e) = 2
        BY <1>2, <3>2, <3>6, Answers
      <4>2. Takes(q, e, Len(e), v)
        BY <2>0, <2>2, <4>1, AnswerTakes
      <4> QED BY <2>p, <3>5, <4>2
    <3>7. CASE ~HandleLogin(l.who, c)
      <4>1. e = <<Word("3")>> /\ Len(e) = 1
        BY <1>2, <3>2, <3>7, Answers
      <4>2. Takes(q, e, Len(e), y)
        BY <2>0, <2>2, <4>1, AnswerTakes
      <4> QED BY <2>p, <3>5, <4>2
    <3> QED BY <3>6, <3>7
  <2>3. ASSUME q = "enter", NEW x \in {"3", "4", "5"}, up[c] = <<Word(x)>>
        PROVE  \E z \in Places : Takes(q, e, Len(e), z) /\ View(c, z)'
    <3>1. l = Word(x) /\ up'[c] = <<>>
      BY <2>3
    <3>2. l.op = x
      BY <3>1, Ops
    <3>3. e = <<>> /\ Len(e) = 0
      BY <1>2, <3>2, Answers
    <3>4. state'[c] = 2
      BY <1>4, <1>7, <3>2
    <3>5. Takes(q, e, Len(e), q)
      BY <3>3, TakesNone
    <3>6. View(c, q)'
      BY <2>3, <3>1, <3>4 DEF View
    <3> QED BY <3>5, <3>6
  <2>4. CASE q = "back" /\ Sevens(c)
    <3>1. l = Word("7")
      <4>1. 1 \in 1 .. Len(up[c]) /\ l = up[c][1]
        BY <1>0, SequenceTail, SequenceLen
      <4> QED BY <2>4, <4>1 DEF Sevens
    <3>2. l.op = "7"
      BY <3>1, Ops
    <3>3. e = <<>> /\ Len(e) = 0
      BY <1>2, <3>2, Answers
    <3>4. state'[c] = 1
      BY <1>4, <1>7, <3>2
    <3>5. Takes(q, e, Len(e), q)
      BY <3>3, TakesNone
    <3>6. Sevens(c)'
      <4>1. PICK s, r : s = up[c] /\ r = Tail(s)
        OBVIOUS
      <4>2. Len(s) \in Nat /\ Len(r) = Len(s) - 1 /\ \A k \in 1 .. Len(s) - 1 : r[k] = s[k + 1]
        BY <1>0, <4>1, SequenceTail, SequenceLen
      <4>3. \A k \in 1 .. Len(s) : s[k] = Word("7")
        BY <2>4, <4>1 DEF Sevens
      <4>4. \A k \in 1 .. Len(r) : r[k] = Word("7")
        BY <4>2, <4>3
      <4> QED BY <4>1, <4>4 DEF Sevens
    <3>7. View(c, q)'
      BY <2>4, <3>4, <3>6 DEF View
    <3> QED BY <3>5, <3>7
  <2> QED BY <1>1, <1>7, <2>1, <2>2, <2>3, <2>4 DEF View
<1> QED BY <1>0, <1>2, <1>3, <1>5, <1>6, <1>7, Sent

LEMMA MainReadKeeps ==
  ASSUME IInv, NEW c \in Conns, MainRead(c)
  PROVE  IInv'
<1>0. /\ TalkTyped /\ RoomRight /\ NamesRight /\ InTouch(c) /\ Sequence(down[c]) /\ Sequence(up[c])
      /\ state[c] = 1 /\ up[c] # <<>> /\ UNCHANGED <<used, in_game, players, rused, alive, cpc, my_id>>
  BY DEF IInv, AllInTouch, TalkTyped, MainRead, room, thread, client
<1>1. PICK l : l = Head(up[c])
  OBVIOUS
<1>2. PICK e, u, d, a, r, n :
        /\ e = Answer(c, l) /\ u = Tail(up[c]) /\ d = down[c] \o e
        /\ a = (CASE l = EOF -> 0 [] l.op \in {"3", "4", "5"} -> 2 [] OTHER -> 1)
        /\ r = (IF l.op \in {"3", "4", "5"} THEN l.op ELSE request[c])
        /\ n = (IF l.op = "token" \/ (l.op = "2" /\ HandleLogin(l.who, c)) THEN l.who ELSE name[c])
  OBVIOUS
<1>3. /\ Changed(up', up, c, u) /\ Changed(down', down, c, d) /\ Changed(state', state, c, a)
      /\ Changed(request', request, c, r) /\ Changed(name', name, c, n)
  BY <1>1, <1>2 DEF MainRead, Taken, Tell, Changed
<1>4. Sequence(e) /\ Sequence(u) /\ Sequence(d)
  BY <1>0, <1>2, Answers, SequenceTail, SequenceJoin
<1>5. /\ state \in [Conns -> 0 .. 2] /\ request \in [Conns -> {"none", "3", "4", "5"}]
      /\ FunctionOn(name, Conns) /\ FunctionOn(up, Conns) /\ FunctionOn(down, Conns)
  BY <1>0 DEF TalkTyped
<1>6. a \in 0 .. 2 /\ r \in {"none", "3", "4", "5"} /\ (l.op \in {"3", "4", "5"} => l # EOF)
  <2>1. l = EOF => l.op = "eof"
    BY Ops DEF EOF
  <2>2. request[c] \in {"none", "3", "4", "5"}
    BY <1>5
  <2> QED BY <1>2, <2>1, <2>2
<1>7. state' \in [Conns -> 0 .. 2] /\ state'[c] = a /\ \A x \in Conns : x # c => state'[x] = state[x]
  BY <1>3, <1>5, <1>6 DEF Changed
<1>8. /\ request' \in [Conns -> {"none", "3", "4", "5"}] /\ request'[c] = r
      /\ \A x \in Conns : x # c => request'[x] = request[x]
  BY <1>3, <1>5, <1>6 DEF Changed
<1>9. FunctionOn(name', Conns) /\ name'[c] = n /\ \A x \in Conns : x # c => name'[x] = name[x]
  BY <1>3, <1>5, FunctionExcept
<1>10. FunctionOn(up', Conns) /\ up'[c] = u /\ \A x \in Conns : x # c => up'[x] = up[x]
  BY <1>3, <1>5, FunctionExcept
<1>11. FunctionOn(down', Conns) /\ down'[c] = d /\ \A x \in Conns : x # c => down'[x] = down[x]
  BY <1>3, <1>5, FunctionExcept
<1>12. TalkTyped'
  <2>1. \A x \in Conns : Sequence(up[x]) /\ Sequence(down[x])
    BY <1>0 DEF TalkTyped
  <2>2. \A x \in Conns : Sequence(up'[x]) /\ Sequence(down'[x])
    BY <1>4, <1>10, <1>11, <2>1
  <2>3. /\ players \in [Seats -> Conns \cup {None}] /\ rused \in [Seats -> Conns \cup {None}]
        /\ alive \subseteq Seats /\ used \in BOOLEAN /\ in_game \in BOOLEAN
        /\ cpc \in [Conns -> Places] /\ FunctionOn(my_id, Conns)
    BY <1>0 DEF TalkTyped
  <2> QED BY <1>0, <1>7, <1>8, <1>9, <1>10, <1>11, <2>2, <2>3 DEF TalkTyped
<1>13. ~Holds(c) /\ request[c] = "none" /\ (~in_game => \A s \in Seats : players[s] # c)
  BY <1>0, InLobby
<1>14. \A s \in Seats : (Held(s)' <=> Held(s)) /\ (Held(s) => rused[s] \in Conns \ {c})
  <2>1. \A s \in Seats : rused[s] \in Conns \cup {None}
    BY <1>0 DEF TalkTyped
  <2>2. \A s \in Seats : Held(s) => rused[s] # c
    BY <1>13 DEF Holds
  <2> QED BY <1>0, <2>1, <2>2, HoldsSame DEF Held
<1>15. RoomRight'
  <2>1. \A s \in Seats : players[s] \in Conns \cup {None}
    BY <1>0 DEF TalkTyped
  <2>2. \A x \in Conns : request'[x] # "none" => state'[x] = 2
    <3>1. r # "none" => a = 2
      BY <1>2, <1>6, <1>13
    <3> QED BY <1>0, <1>7, <1>8, <3>1 DEF RoomRight
  <2>3. ~in_game => \A s \in Seats : players[s] # None => state'[players[s]] = 2 /\ request'[players[s]] = "none"
    BY <1>0, <1>7, <1>8, <1>13, <2>1 DEF RoomRight
  <2>4. \A s \in Seats : Held(s) => state'[rused[s]] = 2 /\ request'[rused[s]] = "none"
    BY <1>0, <1>7, <1>8, <1>14 DEF RoomRight
  <2> QED BY <1>0, <1>14, <2>2, <2>3, <2>4 DEF RoomRight
<1>16. AllInTouch'
  <2> SUFFICES ASSUME NEW x \in Conns PROVE InTouch(x)'
    BY DEF AllInTouch
  <2>0. InTouch(x) /\ (Holds(x)' <=> Holds(x))
    BY <1>0, HoldsSame DEF IInv, AllInTouch
  <2>1. CASE x # c
    BY <1>0, <1>7, <1>10, <1>11, <2>0, <2>1, Untouched
  <2>2. CASE x = c
    <3>1. l # EOF => state'[c] = IF l.op \in {"3", "4", "5"} THEN 2 ELSE 1
      BY <1>2, <1>7
    <3>2. InTouch(c)'
      BY <1>0, <1>1, <1>2, <1>10, <1>11, <1>13, <2>0, <2>2, <3>1, MainReadTouch
    <3> QED BY <2>2, <3>2
  <2> QED BY <2>1, <2>2
<1>17. NamesRight'
  <2>1. \A x \in Conns : x # c => (Claims(x)' <=> Claims(x)) /\ name'[x] = name[x]
    BY <1>0, <1>9, <1>11 DEF Claims
  <2>2. CASE l.op = "2" /\ HandleLogin(l.who, c) /\ cpc[c] \notin Gone
    <3>1. l.who = my_id[c]
      <4>1. \A w, x : Word(w).op = w /\ Line(w, x).op = w /\ Line(w, x).who = x
        BY Ops
      <4> QED BY <1>0, <1>1, <2>2, <4>1, FirstLine DEF Request
    <3>2. name'[c] = my_id[c]
      BY <1>2, <1>9, <2>2, <3>1
    <3>3. \A x \in Conns : x # c /\ Claims(x) => name[x] # my_id[c]
      <4> SUFFICES ASSUME NEW x \in Conns, x # c, Claims(x) PROVE name[x] # my_id[c]
        OBVIOUS
      <4>1. cpc[x] \notin Gone /\ InTouch(x)
        BY DEF Claims, LoggedIn, Gone, IInv, AllInTouch
      <4>2. state[x] # 0
        BY <4>1 DEF InTouch
      <4> QED BY <2>2, <3>1, <4>2 DEF HandleLogin
    <3> QED BY <1>0, <2>1, <3>2, <3>3 DEF NamesRight
  <2>3. CASE cpc[c] \in Gone
    <3>1. ~Claims(c)'
      BY <1>0, <2>3 DEF Claims, LoggedIn, Gone
    <3> QED BY <1>0, <2>1, <3>1 DEF NamesRight
  <2>4. CASE ~(l.op = "2" /\ HandleLogin(l.who, c)) /\ cpc[c] \notin Gone
    <3>1. Claims(c)' => Claims(c)
      <4>1. \A k \in 1 .. Len(e) : e[k].op # "2"
        <5>1. e \in {<<>>, <<Word("1")>>, <<Word("4")>>, <<Word("3")>>}
          BY <1>2, <2>4, Answers
        <5>2. Len(e) \in {0, 1} /\ (Len(e) = 1 => e[1] \in {Word("1"), Word("4"), Word("3")})
          BY <5>1
        <5>3. \A k \in 1 .. Len(e) : e[k] \in {Word("1"), Word("4"), Word("3")}
          BY <5>2
        <5> QED BY <5>3 DEF Word
      <4> QED BY <1>0, <1>2, <1>4, <1>11, <4>1, ClaimsKept
    <3>2. Claims(c) => name'[c] = my_id[c]
      <4>1. l.op # "token" => name'[c] = name[c]
        BY <1>2, <1>9, <2>4
      <4>2. l.op = "token" => l = Request(c)
        <5>1. \A w, x : Word(w).op = w /\ Line(w, x).op = w
          BY Ops
        <5> QED BY <1>0, <1>1, <2>4, <5>1, FirstLine
      <4>3. l.op = "token" => name'[c] = my_id[c]
        BY <1>2, <1>9, <4>2, Ops DEF Request
      <4> QED BY <1>0, <4>1, <4>3 DEF NamesRight
    <3>3. Claims(c) => name'[c] = name[c]
      BY <1>0, <3>2 DEF NamesRight
    <3> QED BY <1>0, <2>1, <3>1, <3>2, <3>3 DEF NamesRight
  <2> QED BY <2>2, <2>3, <2>4
<1> QED BY <1>12, <1>15, <1>16, <1>17 DEF IInv

\* What a handler has is in no seat.
LEMMA Asking ==
  ASSUME TalkTyped, RoomRight, NEW c \in Conns, request[c] # "none"
  PROVE  /\ state[c] = 2 /\ ~Holds(c)
         /\ ~in_game => \A s \in Seats : players[s] # c
<1>1. state[c] = 2 /\ ~Holds(c)
  BY DEF Holds, RoomRight
<1>2. ~in_game => \A s \in Seats : players[s] # c
  BY NoneApart DEF RoomRight
<1> QED BY <1>1, <1>2

\* A handler refuses a seat.
LEMMA RefuseKeeps ==
  ASSUME IInv, NEW c \in Conns, Refuse(c)
  PROVE  IInv'
<1>0. /\ TalkTyped /\ RoomRight /\ NamesRight /\ InTouch(c) /\ Sequence(down[c]) /\ Sequence(up[c])
      /\ request[c] # "none" /\ UNCHANGED <<name, used, in_game, players, rused, alive, up, cpc, my_id>>
  BY DEF IInv, AllInTouch, TalkTyped, Refuse, room, thread, client
<1>1. PICK w \in {"16", "17", "18"} : w = Refusal(request[c])
  BY DEF Refuse, Refusal
<1>2. PICK e, d : e = <<Word(w)>> /\ d = down[c] \o e
  OBVIOUS
<1>3. Changed(down', down, c, d) /\ Changed(state', state, c, 1) /\ Changed(request', request, c, "none")
  BY <1>1, <1>2 DEF Refuse, Tell, Changed
<1>4. Sequence(e) /\ Len(e) = 1 /\ e[1] = Word(w) /\ e[1].op = w
  BY <1>2, SequenceShort, Ops
<1>5. Sequence(d)
  BY <1>0, <1>2, <1>4, SequenceJoin
<1>6. /\ state \in [Conns -> 0 .. 2] /\ request \in [Conns -> {"none", "3", "4", "5"}] /\ FunctionOn(down, Conns)
  BY <1>0 DEF TalkTyped
<1>7. state' \in [Conns -> 0 .. 2] /\ state'[c] = 1 /\ \A x \in Conns : x # c => state'[x] = state[x]
  BY <1>3, <1>6 DEF Changed
<1>8. /\ request' \in [Conns -> {"none", "3", "4", "5"}] /\ request'[c] = "none"
      /\ \A x \in Conns : x # c => request'[x] = request[x]
  BY <1>3, <1>6 DEF Changed
<1>9. FunctionOn(down', Conns) /\ down'[c] = d /\ \A x \in Conns : x # c => down'[x] = down[x]
  BY <1>3, <1>6, FunctionExcept
<1>10. TalkTyped'
  <2>1. \A x \in Conns : Sequence(up[x]) /\ Sequence(down[x])
    BY <1>0 DEF TalkTyped
  <2>2. \A x \in Conns : Sequence(up'[x]) /\ Sequence(down'[x])
    BY <1>0, <1>5, <1>9, <2>1
  <2>3. /\ players \in [Seats -> Conns \cup {None}] /\ rused \in [Seats -> Conns \cup {None}]
        /\ alive \subseteq Seats /\ used \in BOOLEAN /\ in_game \in BOOLEAN
        /\ cpc \in [Conns -> Places] /\ FunctionOn(my_id, Conns) /\ FunctionOn(name, Conns) /\ FunctionOn(up, Conns)
    BY <1>0 DEF TalkTyped
  <2> QED BY <1>0, <1>7, <1>8, <1>9, <2>2, <2>3 DEF TalkTyped
<1>11. state[c] = 2 /\ ~Holds(c) /\ (~in_game => \A s \in Seats : players[s] # c)
  BY <1>0, Asking
<1>12. \A s \in Seats : (Held(s)' <=> Held(s)) /\ (Held(s) => rused[s] \in Conns \ {c})
  <2>1. \A s \in Seats : rused[s] \in Conns \cup {None}
    BY <1>0 DEF TalkTyped
  <2>2. \A s \in Seats : Held(s) => rused[s] # c
    BY <1>11 DEF Holds
  <2> QED BY <1>0, <2>1, <2>2, HoldsSame DEF Held
<1>13. RoomRight'
  <2>1. \A s \in Seats : players[s] \in Conns \cup {None}
    BY <1>0 DEF TalkTyped
  <2>2. \A x \in Conns : request'[x] # "none" => state'[x] = 2
    BY <1>0, <1>7, <1>8 DEF RoomRight
  <2>3. ~in_game => \A s \in Seats : players[s] # None => state'[players[s]] = 2 /\ request'[players[s]] = "none"
    BY <1>0, <1>7, <1>8, <1>11, <2>1 DEF RoomRight
  <2>4. \A s \in Seats : Held(s) => state'[rused[s]] = 2 /\ request'[rused[s]] = "none"
    BY <1>0, <1>7, <1>8, <1>12 DEF RoomRight
  <2> QED BY <1>0, <1>12, <2>2, <2>3, <2>4 DEF RoomRight
<1>14. InTouch(c)'
  <2>0. ~Holds(c)'
    BY <1>0, <1>11, HoldsSame
  <2>1. ASSUME cpc[c] = "back" /\ (down[c] = <<>> \/ (up[c] = <<>> /\ state[c] = 1)) PROVE Patient(c)'
    <3>1. down'[c] = <<Word(w)>>
      <4>1. down[c] = <<>>
        BY <1>11, <2>1
      <4>2. <<>> \o e = e
        BY <1>2
      <4> QED BY <1>2, <1>9, <4>1, <4>2
    <3>2. Head(down'[c]).op = w
      BY <3>1, Ops
    <3> QED BY <3>2 DEF Patient
  <2>2. ASSUME NEW q \in Places, View(c, q)
        PROVE  \E z \in Places : Takes(q, e, Len(e), z) /\ View(c, z)'
    <3>1. q = "enter" /\ up[c] = <<>>
      BY <1>11, <2>2 DEF View
    <3>2. After(q, e[1]) = "back" /\ q \in Reading
      BY <1>4, <3>1 DEF After, Reading
    <3>3. PICK z \in Places \ {"puzzled"} : z = "back"
      BY DEF Places
    <3>4. Takes(q, e, Len(e), z)
      BY <1>4, <3>2, <3>3, TakesOne
    <3>5. View(c, z)'
      BY <1>0, <1>7, <3>1, <3>3, SequenceShort DEF View, Sevens
    <3> QED BY <3>4, <3>5
  <2>3. down'[c] = down[c] \o e /\ state'[c] # 0
    BY <1>2, <1>7, <1>9
  <2>4. Sequence(e)
    BY <1>4
  <2> QED BY <1>0, <2>1, <2>2, <2>3, <2>4, Sent
<1>15. AllInTouch'
  <2> SUFFICES ASSUME NEW x \in Conns, x # c PROVE InTouch(x)'
    BY <1>14 DEF AllInTouch
  <2>0. InTouch(x) /\ (Holds(x)' <=> Holds(x))
    BY <1>0, HoldsSame DEF IInv, AllInTouch
  <2> QED BY <1>0, <1>7, <1>9, <2>0, Untouched
<1>16. NamesRight'
  <2>1. \A k \in 1 .. Len(e) : e[k].op # "2"
    BY <1>4
  <2>2. Sequence(e) /\ down'[c] = down[c] \o e
    BY <1>2, <1>4, <1>9
  <2>3. Claims(c)' => Claims(c)
    BY <1>0, <2>1, <2>2, ClaimsKept
  <2>4. \A x \in Conns : x # c => (Claims(x)' => Claims(x))
    BY <1>0, <1>9 DEF Claims
  <2> QED BY <1>0, <2>3, <2>4, NamesKept
<1> QED BY <1>10, <1>13, <1>15, <1>16 DEF IInv

\* A seat is found in a room with fewer than ROOMCAP players.
LEMMA SeatFree ==
  ASSUME TalkTyped, Cardinality(Taking) < ROOMCAP
  PROVE  Min(Seats \ Taking) \in Seats \ Taking
<1>1. NSEAT \in Nat \ {0} /\ ROOMCAP \in 1 .. NSEAT - 1
  BY TalkAssumption
<1>2. Cardinality(Seats) = NSEAT
  BY <1>1, FS_Interval DEF Seats
<1>3. Taking # Seats
  BY <1>1, <1>2
<1>4. Taking \subseteq Seats /\ Seats \subseteq Nat
  BY <1>1 DEF Taking, Seats
<1>5. PICK S : S = Seats \ Taking
  OBVIOUS
<1>6. S \subseteq Nat /\ S # {}
  BY <1>3, <1>4, <1>5
<1>7. Min(S) \in S
  BY <1>6, MinIn
<1> QED BY <1>5, <1>7

\* A handler gives a seat.
LEMMA SeatKeeps ==
  ASSUME IInv, NEW c \in Conns, Seat(c)
  PROVE  IInv'
<1>0. /\ TalkTyped /\ RoomRight /\ NamesRight /\ request[c] # "none"
      /\ UNCHANGED <<state, name, in_game, alive, up, down, cpc, my_id>>
      /\ used' = TRUE /\ Changed(request', request, c, "none")
      /\ used => UNCHANGED rused
      /\ ~used => rused' = [s \in Seats |-> None]
  BY DEF IInv, Seat, conns, wires, client, Changed
<1>1. PICK x : x = IF used THEN Min(Seats \ Taking) ELSE 0
  OBVIOUS
<1>2. Changed(players', players, x, c)
  BY <1>1 DEF Seat, Changed
<1>3. x \in Seats /\ players[x] = None
  <2>1. CASE used
    <3>1. x \in Seats \ Taking
      BY <1>0, <1>1, <2>1, SeatFree DEF Seat
    <3> QED BY <3>1 DEF Taking
  <2>2. CASE ~used
    <3>1. 0 \in Seats
      BY TalkAssumption DEF Seats
    <3> QED BY <1>0, <1>1, <2>2, <3>1 DEF RoomRight
  <2> QED BY <2>1, <2>2
<1>4. /\ request \in [Conns -> {"none", "3", "4", "5"}]
      /\ players \in [Seats -> Conns \cup {None}] /\ rused \in [Seats -> Conns \cup {None}]
  BY <1>0 DEF TalkTyped
<1>5. /\ request' \in [Conns -> {"none", "3", "4", "5"}] /\ request'[c] = "none"
      /\ \A y \in Conns : y # c => request'[y] = request[y]
  BY <1>0, <1>4 DEF Changed
<1>6. /\ players' \in [Seats -> Conns \cup {None}] /\ players'[x] = c
      /\ \A s \in Seats : s # x => players'[s] = players[s]
  BY <1>2, <1>3, <1>4 DEF Changed
<1>7. rused' \in [Seats -> Conns \cup {None}]
  BY <1>0, <1>4
<1>8. TalkTyped'
  <2>1. /\ state \in [Conns -> 0 .. 2] /\ alive \subseteq Seats /\ in_game \in BOOLEAN
        /\ cpc \in [Conns -> Places]
        /\ FunctionOn(my_id, Conns) /\ FunctionOn(name, Conns) /\ FunctionOn(up, Conns) /\ FunctionOn(down, Conns)
        /\ \A y \in Conns : Sequence(up[y]) /\ Sequence(down[y])
    BY <1>0 DEF TalkTyped
  <2> QED BY <1>0, <1>5, <1>6, <1>7, <2>1 DEF TalkTyped
<1>9. \A s \in Seats : (Held(s)' <=> Held(s)) /\ (Held(s) => rused'[s] = rused[s] /\ rused[s] \in Conns)
  BY <1>0, <1>4 DEF Held
<1>10. state[c] = 2 /\ ~Holds(c) /\ (~in_game => \A s \in Seats : players[s] # c)
  BY <1>0, Asking
<1>11. RoomRight'
  <2>2. \A y \in Conns : request'[y] # "none" => state'[y] = 2
    BY <1>0, <1>5 DEF RoomRight
  <2>3. ~in_game => \A s \in Seats : players'[s] # None => state'[players'[s]] = 2 /\ request'[players'[s]] = "none"
    <3> SUFFICES ASSUME ~in_game, NEW s \in Seats, players'[s] # None
                 PROVE  state[players'[s]] = 2 /\ request'[players'[s]] = "none"
      BY <1>0
    <3>1. CASE s = x
      BY <1>5, <1>6, <1>10, <3>1
    <3>2. CASE s # x
      BY <1>0, <1>4, <1>5, <1>6, <1>10, <3>2 DEF RoomRight
    <3> QED BY <3>1, <3>2
  <2>4. ~in_game => \A s, t \in Seats : players'[s] = players'[t] /\ s # t => players'[s] = None
    BY <1>0, <1>6, <1>10 DEF RoomRight
  <2>5. ASSUME NEW s \in Seats, Held(s)
        PROVE  state[rused[s]] = 2 /\ request'[rused[s]] = "none" /\ (~in_game => players'[s] = rused[s])
    <3>1. state[rused[s]] = 2 /\ request[rused[s]] = "none" /\ (~in_game => players[s] = rused[s])
      BY <1>0, <2>5 DEF RoomRight
    <3>2. rused[s] \in Conns /\ rused[s] # None
      BY <1>9, <2>5 DEF Held
    <3> QED BY <1>3, <1>5, <1>6, <3>1, <3>2
  <2>6. \A s \in Seats : Held(s)' => /\ state'[rused'[s]] = 2 /\ request'[rused'[s]] = "none"
                                     /\ ~in_game' => players'[s] = rused'[s]
    BY <1>0, <1>9, <2>5
  <2>7. \A s, t \in Seats : Held(s)' /\ Held(t)' /\ rused'[s] = rused'[t] => s = t
    BY <1>0, <1>9 DEF RoomRight
  <2>8. (in_game' => used') /\ (~used' => \A s \in Seats : players'[s] = None)
    BY <1>0
  <2> QED BY <1>0, <2>2, <2>3, <2>4, <2>6, <2>7, <2>8 DEF RoomRight
<1>12. AllInTouch'
  <2> SUFFICES ASSUME NEW y \in Conns PROVE InTouch(y)'
    BY DEF AllInTouch
  <2>1. InTouch(y)
    BY DEF IInv, AllInTouch
  <2>2. Holds(y)' <=> Holds(y)
    BY <1>9 DEF Holds
  <2> QED BY <1>0, <2>1, <2>2, Untouched
<1>13. NamesRight'
  BY <1>0, NamesKept DEF Claims
<1> QED BY <1>8, <1>11, <1>12, <1>13 DEF IInv

-----------------------------------------------------------------------------
(* The room thread and the game.                                           *)

\* Lines e to the connections in seats S.
Sending(S, e) == [c \in Conns |-> IF \E t \in S : rused[t] = c THEN down[c] \o e ELSE down[c]]

LEMMA Sendings ==
  ASSUME TalkTyped, NEW S, NEW e, Sequence(e)
  PROVE  /\ FunctionOn(Sending(S, e), Conns)
         /\ \A c \in Conns : /\ Sequence(Sending(S, e)[c])
                             /\ (\E t \in S : rused[t] = c) => Sending(S, e)[c] = down[c] \o e
                             /\ ~(\E t \in S : rused[t] = c) => Sending(S, e)[c] = down[c]
<1>1. FunctionOn(Sending(S, e), Conns)
  BY DEF FunctionOn, Sending
<1>2. ASSUME NEW c \in Conns
      PROVE  /\ Sequence(Sending(S, e)[c])
             /\ (\E t \in S : rused[t] = c) => Sending(S, e)[c] = down[c] \o e
             /\ ~(\E t \in S : rused[t] = c) => Sending(S, e)[c] = down[c]
  <2>1. Sequence(down[c])
    BY DEF TalkTyped
  <2>2. Sequence(down[c] \o e)
    BY <2>1, SequenceJoin
  <2> QED BY <2>1, <2>2 DEF Sending
<1> QED BY <1>1, <1>2

\* Nobody comes to a name by what the room sends.
LEMMA SendingNames ==
  ASSUME TalkTyped, NamesRight, NEW S, NEW e, Sequence(e), \A k \in 1 .. Len(e) : e[k].op # "2",
         down' = Sending(S, e), UNCHANGED <<name, cpc, my_id>>
  PROVE  NamesRight'
<1> SUFFICES ASSUME NEW c \in Conns PROVE Claims(c)' => Claims(c)
  BY NamesKept
<1>1. Sequence(down[c])
  BY DEF TalkTyped
<1>2. CASE \E t \in S : rused[t] = c
  <2>1. down'[c] = down[c] \o e
    BY <1>2, Sendings
  <2> QED BY <1>1, <2>1, ClaimsKept
<1>3. CASE ~\E t \in S : rused[t] = c
  <2>1. down'[c] = down[c]
    BY <1>3, Sendings
  <2> QED BY <2>1 DEF Claims
<1> QED BY <1>2, <1>3

\* Nothing more, or one line more, at the end.
LEMMA SequenceMore ==
  ASSUME NEW s, Sequence(s), NEW a, NEW b
  PROVE  /\ s \o <<>> = s /\ Append(s, a) = s \o <<a>>
         /\ Append(Append(s, a), b) = s \o <<a, b>>
<1>1. PICK S : s \in Seq(S) /\ a \in S /\ b \in S
  <2>1. PICK T : T = {s[k] : k \in 1 .. Len(s)} \cup {a, b}
    OBVIOUS
  <2>2. s \in Seq({s[k] : k \in 1 .. Len(s)})
    BY DEF Sequence
  <2>3. Len(s) \in Nat /\ s = [k \in 1 .. Len(s) |-> s[k]] /\ \A k \in 1 .. Len(s) : s[k] \in T
    BY <2>1, <2>2
  <2>4. s \in Seq(T) /\ a \in T /\ b \in T
    BY <2>1, <2>3
  <2> QED BY <2>4
<1>2. s \o <<>> = s
  BY <1>1
<1>3. Append(s, a) = s \o <<a>>
  BY <1>1
<1>4. Append(Append(s, a), b) = s \o <<a, b>>
  BY <1>1
<1> QED BY <1>2, <1>3, <1>4

\* What the room sends when it is closed.
Closing(S, told) == [c \in Conns |-> IF \E t \in S : rused[t] = c THEN Append(told[c], Word("15")) ELSE told[c]]

\* The lines of the room put in terms of Sending.
LEMMA ToSeatsSending ==
  ASSUME TalkTyped, NEW S, NEW a
  PROVE  /\ ToSeats(S, a) = Sending(S, <<a>>)
         /\ down = Sending(S, <<>>)
         /\ Closing(S, ToSeats(S, a)) = Sending(S, <<a, Word("15")>>)
         /\ Closing(S, down) = Sending(S, <<Word("15")>>)
<1>0. PICK b : b = Word("15")
  OBVIOUS
<1>1. ASSUME NEW c \in Conns
      PROVE  /\ down[c] \o <<>> = down[c] /\ Append(down[c], a) = down[c] \o <<a>>
             /\ Append(down[c], b) = down[c] \o <<b>> /\ Append(Append(down[c], a), b) = down[c] \o <<a, b>>
  <2>0. PICK d : d = down[c]
    OBVIOUS
  <2>1. Sequence(d)
    BY <2>0 DEF TalkTyped
  <2>2. \A x, y : d \o <<>> = d /\ Append(d, x) = d \o <<x>> /\ Append(Append(d, x), y) = d \o <<x, y>>
    <3> TAKE x, y
    <3> QED BY <2>1, SequenceMore
  <2> QED BY <2>0, <2>2
<1>2. down = [c \in Conns |-> down[c]]
  BY DEF TalkTyped, FunctionOn
<1>3. ToSeats(S, a) = Sending(S, <<a>>)
  BY <1>1 DEF ToSeats, Sending
<1>4. down = Sending(S, <<>>)
  BY <1>1, <1>2 DEF Sending
<1>5. Closing(S, ToSeats(S, a)) = Sending(S, <<a, b>>)
  BY <1>0, <1>1 DEF ToSeats, Sending, Closing
<1>6. Closing(S, down) = Sending(S, <<b>>)
  BY <1>0, <1>1 DEF Sending, Closing
<1> QED BY <1>0, <1>3, <1>4, <1>5, <1>6

\* The first line is taken.
LEMMA SevensTail ==
  ASSUME NEW c \in Conns, Sequence(up[c]), Sevens(c),
         up'[c] = up[c] \/ (up[c] # <<>> /\ up'[c] = Tail(up[c]))
  PROVE  Sevens(c)'
<1>1. CASE up'[c] = up[c]
  BY <1>1 DEF Sevens
<1>2. CASE up[c] # <<>> /\ up'[c] = Tail(up[c])
  <2>1. PICK s, r : s = up[c] /\ r = Tail(s)
    OBVIOUS
  <2>2. Len(s) \in Nat /\ Len(r) = Len(s) - 1 /\ \A k \in 1 .. Len(s) - 1 : r[k] = s[k + 1]
    BY <1>2, <2>1, SequenceTail, SequenceLen
  <2>3. \A k \in 1 .. Len(s) : s[k] = Word("7")
    BY <2>1 DEF Sevens
  <2>4. \A k \in 1 .. Len(r) : r[k] = Word("7")
    BY <2>2, <2>3
  <2> QED BY <1>2, <2>1, <2>4 DEF Sevens
<1> QED BY <1>1, <1>2

\* A player in the room or the game is told lines e.
LEMMA HolderTold ==
  ASSUME IInv, NEW c \in Conns, Holds(c), NEW e, Sequence(e), e = <<>> \/ Head(e).op # "4",
         cpc'[c] = cpc[c], my_id'[c] = my_id[c], state'[c] # 0, down'[c] = down[c] \o e,
         up'[c] = up[c] \/ (up[c] # <<>> /\ up'[c] = Tail(up[c])),
         NEW p, p = IF in_game THEN "game" ELSE "room",
         NEW z \in Places, Doomed(p, e) \/ (Takes(p, e, Len(e), z) /\ (Sevens(c)' => View(c, z)'))
  PROVE  InTouch(c)'
<1>0. TalkTyped /\ RoomRight /\ InTouch(c) /\ Sequence(down[c]) /\ Sequence(up[c])
  BY DEF IInv, AllInTouch, TalkTyped
<1>1. state[c] = 2
  BY <1>0 DEF Holds, RoomRight
<1>2. ASSUME cpc[c] = "back" /\ (down[c] = <<>> \/ (up[c] = <<>> /\ state[c] = 1)) PROVE Patient(c)'
  <2>1. down[c] = <<>>
    BY <1>1, <1>2
  <2>2. <<>> \o e = e
    BY DEF Sequence
  <2>3. down'[c] = e
    BY <2>1, <2>2
  <2> QED BY <2>3 DEF Patient
<1>3. ASSUME NEW q \in Places, View(c, q)
      PROVE  (Doomed(q, e) /\ Sevens(c)) \/ \E y \in Places : Takes(q, e, Len(e), y) /\ View(c, y)'
  <2>1. q = p /\ Sevens(c)
    BY <1>1, <1>3 DEF View
  <2>2. Sevens(c)'
    BY <1>0, <2>1, SevensTail
  <2> QED BY <2>1, <2>2
<1> QED BY <1>0, <1>2, <1>3, Sent

\* A player leaves, in order or not.
LEMMA LeaverTouch ==
  ASSUME IInv, NEW c \in Conns, state[c] = 2, up[c] # <<>>, NEW l, l = Head(up[c]),
         l \in {Word("6"), Word("8"), EOF},
         cpc'[c] = cpc[c], my_id'[c] = my_id[c], state'[c] = AfterLeave(l), down'[c] = down[c],
         up'[c] = Tail(up[c])
  PROVE  InTouch(c)'
<1>0. TalkTyped /\ InTouch(c) /\ Sequence(down[c]) /\ Sequence(up[c])
  BY DEF IInv, AllInTouch, TalkTyped
<1>1. \A w, x : Word(w).op = w /\ Line(w, x).op = w
  BY Ops
<1>2. cpc[c] \in Gone \/ (cpc[c] = "back" /\ l # EOF)
  BY <1>0, <1>1, FirstLine DEF EOF, Request
<1>3. cpc[c] \notin Gone => state'[c] # 0
  BY <1>2 DEF AfterLeave
<1>4. PICK e : e = <<>>
  OBVIOUS
<1>5. Sequence(e) /\ down'[c] = down[c] \o e
  BY <1>0, <1>4, SequenceMore, SequenceShort
<1>6. down[c] = <<>> => Patient(c)'
  BY DEF Patient
<1>7. cpc[c] \in Gone \cup {"back"}
  BY <1>2
<1> QED BY <1>0, <1>3, <1>5, <1>6, <1>7, Sent

\* Where the lines of the room and of the game take a player.
LEMMA RoomTakes ==
  /\ \A x : Takes("room", <<Line("7", x)>>, 1, "room") /\ Takes("room", <<Line("8", x)>>, 1, "room")
  /\ \A x : Takes("game", <<Line("7", x)>>, 1, "game")
  /\ Doomed("room", <<Word("19")>>)
  /\ Takes("room", Opening, 2, "game")
  /\ \A x : Takes("game", <<Line("7", x), Word("15")>>, 2, "back")
  /\ Takes("game", <<Word("15")>>, 1, "back")
<1>0. PICK room_, game_, back_ : room_ = "room" /\ game_ = "game" /\ back_ = "back"
  OBVIOUS
<1>p. room_ \in Reading /\ game_ \in Reading /\ {room_, game_, back_} \subseteq Places \ {"puzzled"}
  BY <1>0 DEF Reading, Places
<1>1. ASSUME NEW x, NEW w \in {"7", "8"} PROVE Takes(room_, <<Line(w, x)>>, 1, room_)
  <2>1. PICK d : d = <<Line(w, x)>>
    OBVIOUS
  <2>2. d[1].op = w
    BY <2>1, Ops
  <2>3. After(room_, d[1]) = room_
    BY <1>0, <2>2 DEF After
  <2>4. Takes(room_, d, 1, After(room_, d[1]))
    BY <1>p, <2>3, TakesOne
  <2> QED BY <2>1, <2>3, <2>4
<1>2. ASSUME NEW x PROVE Takes(game_, <<Line("7", x)>>, 1, game_)
  <2>1. PICK d : d = <<Line("7", x)>>
    OBVIOUS
  <2>2. d[1].op = "7"
    BY <2>1, Ops
  <2>3. After(game_, d[1]) = game_
    BY <1>0, <2>2 DEF After, GameWords
  <2>4. Takes(game_, d, 1, After(game_, d[1]))
    BY <1>p, <2>3, TakesOne
  <2> QED BY <2>1, <2>3, <2>4
<1>3. Doomed("room", <<Word("19")>>)
  <2>1. PICK d : d = <<Word("19")>>
    OBVIOUS
  <2>2. Len(d) = 1 /\ d[1] = Word("19")
    BY <2>1
  <2>3. Takes(room_, d, 0, room_)
    BY <1>p, TakesNone
  <2>4. 1 \in 1 .. Len(d) /\ 1 - 1 = 0
    BY <2>2
  <2>5. Doomed(room_, d)
    BY <1>0, <2>2, <2>3, <2>4 DEF Doomed
  <2> QED BY <1>0, <2>1, <2>5
<1>4. Takes(game_, <<Word("15")>>, 1, back_)
  <2>1. PICK d : d = <<Word("15")>>
    OBVIOUS
  <2>2. d[1].op = "15"
    BY <2>1, Ops
  <2>3. After(game_, d[1]) = back_
    BY <1>0, <2>2 DEF After
  <2>4. Takes(game_, d, 1, After(game_, d[1]))
    BY <1>p, <2>3, TakesOne
  <2> QED BY <2>1, <2>3, <2>4
<1>5. ASSUME NEW p, NEW q, NEW z, NEW a, NEW b, Takes(p, <<a>>, 1, q), Takes(q, <<b>>, 1, z)
      PROVE  Takes(p, <<a, b>>, 2, z)
  <2>1. PICK d, e, f, n, m : d = <<a>> /\ e = <<b>> /\ f = <<a, b>> /\ n = 1 /\ m = 2
    OBVIOUS
  <2>2. Takes(p, d, n, q) /\ Takes(q, e, n, z) /\ n \in Nat /\ m = n + n
    BY <1>5, <2>1
  <2>3. f[1] = d[1] /\ f[2] = e[1]
    BY <2>1
  <2>4. Follows(f, d, n, e, n)
    BY <2>1, <2>3 DEF Follows
  <2>5. Takes(p, f, m, z)
    BY <2>2, <2>4, TakesOn
  <2> QED BY <2>1, <2>5
<1>6. Takes(room_, <<Word("9"), Word("10")>>, 2, game_)
  <2>1. PICK d, e : d = <<Word("9")>> /\ e = <<Word("10")>>
    OBVIOUS
  <2>2. d[1].op = "9" /\ e[1].op = "10"
    BY <2>1, Ops
  <2>3. After(room_, d[1]) = game_ /\ After(game_, e[1]) = game_
    BY <1>0, <2>2 DEF After, GameWords
  <2>4. Takes(room_, d, 1, After(room_, d[1]))
    BY <1>p, <2>3, TakesOne
  <2>5. Takes(game_, e, 1, After(game_, e[1]))
    BY <1>p, <2>3, TakesOne
  <2>6. Takes(room_, <<Word("9")>>, 1, game_) /\ Takes(game_, <<Word("10")>>, 1, game_)
    BY <2>1, <2>3, <2>4, <2>5
  <2> QED BY <2>6, <1>5
<1>7. ASSUME NEW x PROVE Takes(game_, <<Line("7", x), Word("15")>>, 2, back_)
  BY <1>2, <1>4, <1>5
<1>8. \A x : Takes("room", <<Line("7", x)>>, 1, "room") /\ Takes("room", <<Line("8", x)>>, 1, "room")
  BY <1>0, <1>1
<1> QED BY <1>0, <1>2, <1>3, <1>4, <1>6, <1>7, <1>8 DEF Opening

\* A player in a seat that the room thread reads.
LEMMA Seated ==
  ASSUME TalkTyped, RoomRight, NEW s \in Seats, Held(s)
  PROVE  /\ rused[s] \in Conns /\ state[rused[s]] = 2 /\ request[rused[s]] = "none" /\ Holds(rused[s])
         /\ \A t \in Seats : Held(t) /\ rused[t] = rused[s] => t = s
         /\ ~in_game => players[s] = rused[s] /\ \A t \in Seats : players[t] = rused[s] => t = s
<1>1. rused[s] \in Conns
  BY DEF TalkTyped, Held
<1>2. state[rused[s]] = 2 /\ request[rused[s]] = "none" /\ Holds(rused[s]) /\ (~in_game => players[s] = rused[s])
  BY DEF RoomRight, Holds
<1>3. \A t \in Seats : Held(t) /\ rused[t] = rused[s] => t = s
  BY DEF RoomRight
<1>4. ~in_game => \A t \in Seats : players[t] = rused[s] => t = s
  BY <1>1, <1>2, NoneApart DEF RoomRight
<1> QED BY <1>1, <1>2, <1>3, <1>4

\* The thread takes a line from seat s and tells seats S lines e.
LEMMA ThreadTyped ==
  ASSUME TalkTyped, NEW c \in Conns, up[c] # <<>>, Changed(up', up, c, Tail(up[c])),
         NEW S, NEW e, Sequence(e), down' = Sending(S, e), UNCHANGED <<name, request, cpc, my_id>>,
         state' \in [Conns -> 0 .. 2], players' \in [Seats -> Conns \cup {None}],
         rused' \in [Seats -> Conns \cup {None}], alive' \subseteq Seats,
         used' \in BOOLEAN, in_game' \in BOOLEAN
  PROVE  TalkTyped' /\ up'[c] = Tail(up[c]) /\ \A x \in Conns : x # c => up'[x] = up[x]
<1>1. \A x \in Conns : Sequence(up[x])
  BY DEF TalkTyped
<1>2. PICK u : u = Tail(up[c])
  OBVIOUS
<1>3. Sequence(u)
  BY <1>1, <1>2, SequenceTail
<1>4. FunctionOn(up, Conns) /\ Changed(up', up, c, u)
  BY <1>2 DEF TalkTyped
<1>5. FunctionOn(up', Conns) /\ up'[c] = u /\ \A x \in Conns : x # c => up'[x] = up[x]
  BY <1>4, FunctionExcept
<1>6. FunctionOn(down', Conns) /\ \A x \in Conns : Sequence(down'[x])
  BY Sendings
<1>7. /\ request \in [Conns -> {"none", "3", "4", "5"}] /\ cpc \in [Conns -> Places]
      /\ FunctionOn(name, Conns) /\ FunctionOn(my_id, Conns)
  BY DEF TalkTyped
<1>8. \A x \in Conns : Sequence(up'[x])
  BY <1>1, <1>3, <1>5
<1>9. TalkTyped'
  BY <1>5, <1>6, <1>7, <1>8 DEF TalkTyped
<1> QED BY <1>2, <1>5, <1>9

\* A player leaves the room.
LEMMA RoomLeaveKeeps ==
  ASSUME IInv, NEW s \in Seats, RoomLeave(s)
  PROVE  IInv'
<1>0. /\ TalkTyped /\ RoomRight /\ NamesRight /\ used /\ ~in_game /\ rused[s] # None /\ Held(s)
      /\ UNCHANGED <<name, request, in_game, alive, cpc, my_id>>
  BY DEF IInv, RoomLeave, RoomLine, Held, client
<1>1. PICK c, l, H, heir, last :
        /\ c = rused[s] /\ l = Head(up[c]) /\ H = Inside \ {s} /\ last = (Taking = {s})
        /\ heir = IF s = owner /\ H # {} THEN Min(H) ELSE owner
  OBVIOUS
<1>2. /\ up[c] # <<>> /\ l \in {Word("6"), EOF}
      /\ Changed(up', up, c, Tail(up[c])) /\ Changed(state', state, c, AfterLeave(l))
      /\ Changed(players', players, s, None) /\ Changed(rused', rused, s, None)
      /\ used' = ~(Taking = {s})
      /\ down' = IF Taking = {s} THEN down
                 ELSE IF s = owner THEN ToSeats(H, Line("8", NameOf(rused[heir])))
                 ELSE ToSeats(H, Line("7", name[c]))
  BY <1>1 DEF RoomLeave, RoomLine, Taken, Changed
<1>3. /\ c \in Conns /\ state[c] = 2 /\ request[c] = "none" /\ Holds(c)
      /\ \A t \in Seats : Held(t) /\ rused[t] = c => t = s
      /\ players[s] = c /\ \A t \in Seats : players[t] = c => t = s
  BY <1>0, <1>1, Seated
<1>4. PICK e : /\ down' = Sending(H, e) /\ Sequence(e)
               /\ \/ Taking = {s} /\ e = <<>>
                  \/ Taking # {s} /\ \E w \in {"7", "8"} : \E x : e = <<Line(w, x)>>
  <2>1. CASE Taking = {s}
    <3>1. down' = Sending(H, <<>>)
      BY <1>0, <1>2, <2>1, ToSeatsSending
    <3> QED BY <2>1, <3>1, SequenceShort
  <2>2. CASE Taking # {s}
    <3>1. PICK w \in {"7", "8"} : w = IF s = owner THEN "8" ELSE "7"
      OBVIOUS
    <3>2. PICK x : x = IF s = owner THEN NameOf(rused[heir]) ELSE name[c]
      OBVIOUS
    <3>3. PICK y : y = Line(w, x)
      OBVIOUS
    <3>4. down' = ToSeats(H, y)
      BY <1>2, <2>2, <3>1, <3>2, <3>3
    <3>5. down' = Sending(H, <<y>>) /\ Sequence(<<y>>)
      BY <1>0, <3>4, ToSeatsSending, SequenceShort
    <3> QED BY <2>2, <3>3, <3>5
  <2> QED BY <2>1, <2>2
<1>5. /\ state \in [Conns -> 0 .. 2] /\ players \in [Seats -> Conns \cup {None}]
      /\ rused \in [Seats -> Conns \cup {None}] /\ alive \subseteq Seats
  BY <1>0 DEF TalkTyped
<1>6. /\ state' \in [Conns -> 0 .. 2] /\ state'[c] = AfterLeave(l)
      /\ \A x \in Conns : x # c => state'[x] = state[x]
  <2>1. AfterLeave(l) \in 0 .. 2
    BY DEF AfterLeave
  <2> QED BY <1>2, <1>3, <1>5, <2>1 DEF Changed
<1>7. /\ players' \in [Seats -> Conns \cup {None}] /\ players'[s] = None
      /\ \A t \in Seats : t # s => players'[t] = players[t]
  BY <1>2, <1>5 DEF Changed
<1>8. /\ rused' \in [Seats -> Conns \cup {None}] /\ rused'[s] = None
      /\ \A t \in Seats : t # s => rused'[t] = rused[t]
  BY <1>2, <1>5 DEF Changed
<1>9. TalkTyped' /\ up'[c] = Tail(up[c]) /\ \A x \in Conns : x # c => up'[x] = up[x]
  <2>1. used' \in BOOLEAN /\ in_game' \in BOOLEAN /\ alive' \subseteq Seats
    BY <1>0, <1>2, <1>5 DEF TalkTyped
  <2> QED BY <1>0, <1>2, <1>3, <1>4, <1>6, <1>7, <1>8, <2>1, ThreadTyped
<1>10. \A t \in Seats : Held(t) <=> rused[t] # None
  BY <1>0 DEF Held
<1>11. \A t \in Seats : Held(t)' <=> Taking # {s} /\ Held(t) /\ t # s
  BY <1>0, <1>2, <1>8, <1>10 DEF Held
<1>12. \A t \in Seats : t \in H <=> Held(t) /\ t # s
  BY <1>1, <1>10 DEF Inside
<1>13. \A t \in Seats : Held(t) => t \in Taking
  BY <1>0, <1>10 DEF RoomRight, Taking
<1>14. RoomRight'
  <2>1. ~used' => \A t \in Seats : players'[t] = None
    BY <1>2, <1>7 DEF Taking
  <2>2. \A x \in Conns : request[x] # "none" => state'[x] = 2
    BY <1>0, <1>3, <1>6 DEF RoomRight
  <2>3. \A t \in Seats : players'[t] # None => state'[players'[t]] = 2 /\ request[players'[t]] = "none"
    BY <1>0, <1>3, <1>5, <1>6, <1>7 DEF RoomRight
  <2>4. \A t, v \in Seats : players'[t] = players'[v] /\ t # v => players'[t] = None
    BY <1>0, <1>7 DEF RoomRight
  <2>5. ASSUME NEW t \in Seats, Held(t), t # s
        PROVE  state'[rused'[t]] = 2 /\ request[rused'[t]] = "none" /\ players'[t] = rused'[t]
    <3>1. rused[t] \in Conns /\ rused[t] # c /\ state[rused[t]] = 2 /\ request[rused[t]] = "none" /\ players[t] = rused[t]
      BY <1>0, <1>3, <2>5, Seated
    <3> QED BY <1>6, <1>7, <1>8, <2>5, <3>1
  <2>6. \A t, v \in Seats : Held(t)' /\ Held(v)' /\ rused'[t] = rused'[v] => t = v
    BY <1>0, <1>8, <1>11 DEF RoomRight
  <2> QED BY <1>0, <1>11, <2>1, <2>2, <2>3, <2>4, <2>5, <2>6 DEF RoomRight
<1>15. AllInTouch'
  <2> SUFFICES ASSUME NEW x \in Conns PROVE InTouch(x)'
    BY DEF AllInTouch
  <2>1. CASE x = c
    <3>1. ~\E t \in H : rused[t] = c
      BY <1>1, <1>3, <1>12 DEF Inside
    <3>2. down'[c] = down[c]
      BY <1>0, <1>3, <1>4, <3>1, Sendings
    <3>3. l \in {Word("6"), Word("8"), EOF} /\ cpc'[c] = cpc[c] /\ my_id'[c] = my_id[c]
      BY <1>0, <1>2
    <3>4. InTouch(c)'
      BY <1>1, <1>2, <1>3, <1>6, <1>9, <3>2, <3>3, LeaverTouch
    <3> QED BY <2>1, <3>4
  <2>2. CASE x # c /\ ~\E t \in H : rused[t] = x
    <3>1. down'[x] = down[x]
      BY <1>0, <1>4, <2>2, Sendings
    <3>2. ~Holds(x) /\ ~Holds(x)'
      BY <1>1, <1>8, <1>11, <1>12, <2>2 DEF Holds
    <3>3. InTouch(x)
      BY DEF IInv, AllInTouch
    <3> QED BY <1>0, <1>6, <1>9, <2>2, <3>1, <3>2, <3>3, Untouched
  <2>3. ASSUME x # c, NEW t \in H, rused[t] = x PROVE InTouch(x)'
    <3>0. t \in Seats /\ Held(t) /\ t # s
      BY <1>1, <1>12 DEF Inside
    <3>1. down'[x] = down[x] \o e
      BY <1>0, <1>4, <2>3, Sendings
    <3>2. Taking # {s}
      BY <1>13, <3>0
    <3>3. Holds(x) /\ Holds(x)'
      <4>1. Held(t)' /\ rused'[t] = x
        BY <1>8, <1>11, <2>3, <3>0, <3>2
      <4> QED BY <2>3, <3>0, <4>1 DEF Holds
    <3>w. PICK w \in {"7", "8"} : \E y : e = <<Line(w, y)>>
      BY <1>4, <3>2
    <3>4. PICK y : e = <<Line(w, y)>>
      BY <3>w
    <3>5. PICK p \in Places : p = "room"
      BY DEF Places, Reading
    <3>6. Takes(p, e, Len(e), p)
      <4>1. Takes("room", <<Line(w, y)>>, 1, "room")
        BY RoomTakes
      <4>2. Len(e) = 1
        BY <3>4
      <4> QED BY <3>4, <3>5, <4>1, <4>2
    <3>7. Head(e).op # "4"
      BY <3>4, Ops
    <3>8. Sevens(x)' => View(x, p)'
      BY <1>0, <3>3, <3>5 DEF View
    <3>9. state'[x] # 0 /\ up'[x] = up[x] /\ cpc'[x] = cpc[x] /\ my_id'[x] = my_id[x]
      BY <1>0, <1>6, <1>9, <2>3, <3>0, Seated
    <3>10. p = IF in_game THEN "game" ELSE "room"
      BY <1>0, <3>5
    <3> QED BY <1>4, <3>1, <3>3, <3>6, <3>7, <3>8, <3>9, <3>10, HolderTold
  <2> QED BY <2>1, <2>2, <2>3
<1>16. NamesRight'
  <2>1. \A k \in 1 .. Len(e) : e[k].op # "2"
    <3>1. CASE e = <<>>
      BY <3>1
    <3>2. ASSUME NEW w \in {"7", "8"}, NEW x, e = <<Line(w, x)>> PROVE \A k \in 1 .. Len(e) : e[k].op # "2"
      <4>1. Len(e) = 1 /\ e[1] = Line(w, x) /\ Line(w, x).op = w
        BY <3>2, Ops
      <4> QED BY <4>1
    <3> QED BY <1>4, <3>1, <3>2
  <2> QED BY <1>0, <1>4, <2>1, SendingNames
<1> QED BY <1>9, <1>14, <1>15, <1>16 DEF IInv

\* Somebody in the room asks for the game.
LEMMA RoomStartKeeps ==
  ASSUME IInv, NEW s \in Seats, RoomStart(s)
  PROVE  IInv'
<1>0. /\ TalkTyped /\ RoomRight /\ NamesRight /\ used /\ ~in_game /\ rused[s] # None /\ Held(s)
      /\ UNCHANGED <<state, name, request, used, players, rused, cpc, my_id>>
  BY DEF IInv, RoomStart, RoomLine, Held, conns, client
<1>1. PICK c, few : c = rused[s] /\ few = (player_num < 2)
  OBVIOUS
<1>2. up[c] # <<>> /\ Changed(up', up, c, Tail(up[c]))
  BY <1>1 DEF RoomStart, RoomLine, Taken, Changed
<1>3. c \in Conns /\ state[c] = 2
  BY <1>0, <1>1, Seated
<1>4. PICK e : /\ down' = Sending(Inside, e) /\ Sequence(e)
               /\ \/ e = <<Word("19")>> /\ UNCHANGED <<in_game, alive>>
                  \/ e = Opening /\ in_game' = TRUE /\ alive' = Inside
  <2>1. CASE player_num < 2
    <3>1. down' = Sending(Inside, <<Word("19")>>)
      BY <1>0, <2>1, ToSeatsSending DEF RoomStart
    <3> QED BY <2>1, <3>1, SequenceShort DEF RoomStart
  <2>2. CASE ~(player_num < 2)
    <3>1. down' = Sending(Inside, Opening)
      BY <2>2 DEF RoomStart, Sending
    <3> QED BY <2>2, <3>1, SequenceShort DEF RoomStart, Opening
  <2> QED BY <2>1, <2>2
<1>5. /\ state \in [Conns -> 0 .. 2] /\ players \in [Seats -> Conns \cup {None}] /\ used \in BOOLEAN
      /\ rused \in [Seats -> Conns \cup {None}] /\ alive \subseteq Seats /\ in_game \in BOOLEAN
  BY <1>0 DEF TalkTyped
<1>6. TalkTyped' /\ up'[c] = Tail(up[c]) /\ \A x \in Conns : x # c => up'[x] = up[x]
  <2>1. used' \in BOOLEAN /\ in_game' \in BOOLEAN /\ alive' \subseteq Seats
    BY <1>0, <1>4, <1>5 DEF Inside
  <2>2. /\ state' \in [Conns -> 0 .. 2] /\ players' \in [Seats -> Conns \cup {None}]
        /\ rused' \in [Seats -> Conns \cup {None}]
    BY <1>0, <1>5
  <2> QED BY <1>0, <1>2, <1>3, <1>4, <2>1, <2>2, ThreadTyped
<1>7. \A t \in Seats : Held(t) <=> t \in Inside
  BY <1>0 DEF Held, Inside
<1>8. \A t \in Seats : Held(t)' <=> Held(t)
  <2>1. \A t \in Seats : Held(t)' <=> rused[t] # None /\ (in_game' => t \in alive')
    BY <1>0 DEF Held
  <2> QED BY <1>0, <1>4, <1>7, <2>1 DEF Inside
<1>9. RoomRight'
  <2>1. in_game' => \A t \in alive' : rused'[t] # None
    BY <1>0, <1>4 DEF Inside
  <2>2. \A t \in Seats : Held(t) => state[rused[t]] = 2 /\ request[rused[t]] = "none" /\ players[t] = rused[t]
    BY <1>0 DEF RoomRight
  <2>3. \A t, v \in Seats : Held(t) /\ Held(v) /\ rused[t] = rused[v] => t = v
    BY <1>0 DEF RoomRight
  <2>4. /\ \A x \in Conns : request[x] # "none" => state[x] = 2
        /\ \A t \in Seats : players[t] # None => state[players[t]] = 2 /\ request[players[t]] = "none"
        /\ \A t, v \in Seats : players[t] = players[v] /\ t # v => players[t] = None
    BY <1>0 DEF RoomRight
  <2> QED BY <1>0, <1>8, <2>1, <2>2, <2>3, <2>4 DEF RoomRight
<1>10. AllInTouch'
  <2> SUFFICES ASSUME NEW x \in Conns PROVE InTouch(x)'
    BY DEF AllInTouch
  <2>0. Holds(x)' <=> Holds(x)
    BY <1>0, <1>8 DEF Holds
  <2>1. CASE ~\E t \in Inside : rused[t] = x
    <3>1. down'[x] = down[x]
      BY <1>0, <1>4, <2>1, Sendings
    <3>2. ~Holds(x) /\ x # c
      BY <1>0, <1>1, <1>7, <2>1 DEF Holds
    <3>3. InTouch(x)
      BY DEF IInv, AllInTouch
    <3> QED BY <1>0, <1>6, <2>0, <3>1, <3>2, <3>3, Untouched
  <2>2. ASSUME NEW t \in Inside, rused[t] = x PROVE InTouch(x)'
    <3>0. t \in Seats /\ Held(t)
      BY <1>7 DEF Inside
    <3>1. down'[x] = down[x] \o e /\ Sequence(e)
      BY <1>0, <1>4, <2>2, Sendings
    <3>2. Holds(x) /\ Holds(x)' /\ state[x] = 2
      BY <1>0, <2>0, <2>2, <3>0, Seated
    <3>3. PICK p \in Places : p = "room"
      BY DEF Places, Reading
    <3>4. PICK z \in Places : z = "game"
      BY DEF Places, Reading
    <3>5. Doomed(p, e) \/ (Takes(p, e, Len(e), z) /\ (Sevens(x)' => View(x, z)'))
      <4>1. CASE e = <<Word("19")>>
        BY <3>3, <4>1, RoomTakes
      <4>2. CASE e = Opening /\ in_game' = TRUE
        <5>1. Takes(p, e, Len(e), z)
          <6>1. Len(Opening) = 2
            BY DEF Opening
          <6> QED BY <3>3, <3>4, <4>2, <6>1, RoomTakes
        <5>2. Sevens(x)' => View(x, z)'
          BY <3>2, <3>4, <4>2 DEF View
        <5> QED BY <5>1, <5>2
      <4> QED BY <1>4, <4>1, <4>2
    <3>6. Head(e).op # "4"
      <4>1. Head(e) = Word("19") \/ Head(e) = Word("9")
        BY <1>4 DEF Opening
      <4> QED BY <4>1, Ops
    <3>7. state'[x] # 0 /\ cpc'[x] = cpc[x] /\ my_id'[x] = my_id[x]
      BY <1>0, <3>2
    <3>8. up'[x] = up[x] \/ (up[x] # <<>> /\ up'[x] = Tail(up[x]))
      BY <1>2, <1>6
    <3>9. p = IF in_game THEN "game" ELSE "room"
      BY <1>0, <3>3
    <3> QED BY <3>1, <3>2, <3>5, <3>6, <3>7, <3>8, <3>9, HolderTold
  <2> QED BY <2>1, <2>2
<1>11. NamesRight'
  <2>1. \A k \in 1 .. Len(e) : e[k].op # "2"
    <3>1. CASE e = <<Word("19")>>
      <4>1. Len(e) = 1 /\ e[1].op = "19"
        BY <3>1, Ops
      <4> QED BY <4>1
    <3>2. CASE e = Opening
      <4>1. Len(e) = 2 /\ e[1].op = "9" /\ e[2].op = "10"
        BY <3>2, Ops DEF Opening
      <4>2. \A k \in 1 .. 2 : k = 1 \/ k = 2
        OBVIOUS
      <4> QED BY <4>1, <4>2
    <3> QED BY <1>4, <3>1, <3>2
  <2> QED BY <1>0, <1>4, <2>1, SendingNames
<1> QED BY <1>6, <1>9, <1>10, <1>11 DEF IInv

\* The game ends for the seats S: lines e end with "15".
LEMMA ClosedTouch ==
  ASSUME IInv, in_game, NEW x \in Conns, Holds(x), NEW e, Sequence(e), NEW y,
         e = <<Word("15")>> \/ e = <<Line("7", y), Word("15")>>,
         down'[x] = down[x] \o e, state'[x] = 1, up'[x] = up[x], cpc'[x] = cpc[x], my_id'[x] = my_id[x]
  PROVE  InTouch(x)'
<1>1. PICK p \in Places : p = "game"
  BY DEF Places, Reading
<1>2. PICK z \in Places : z = "back"
  BY DEF Places
<1>3. Takes(p, e, Len(e), z)
  <2>1. CASE e = <<Word("15")>>
    <3>1. Len(e) = 1
      BY <2>1
    <3> QED BY <1>1, <1>2, <2>1, <3>1, RoomTakes
  <2>2. CASE e = <<Line("7", y), Word("15")>>
    <3>1. Len(e) = 2
      BY <2>2
    <3> QED BY <1>1, <1>2, <2>2, <3>1, RoomTakes
  <2> QED BY <2>1, <2>2
<1>4. Sevens(x)' => View(x, z)'
  BY <1>2 DEF View
<1>5. Head(e).op # "4"
  <2>1. PICK h : h = Head(e)
    OBVIOUS
  <2>2. h = Word("15") \/ h = Line("7", y)
    BY <2>1
  <2>3. Word("15").op = "15" /\ Line("7", y).op = "7"
    BY Ops
  <2>4. h.op # "4"
    BY <2>2, <2>3
  <2> QED BY <2>1, <2>4
<1>6. p = IF in_game THEN "game" ELSE "room"
  BY <1>1
<1>7. state'[x] # 0
  OBVIOUS
<1> QED BY <1>3, <1>4, <1>5, <1>6, <1>7, HolderTold

\* What GameRead finds.
LEMMA GameReads ==
  ASSUME IInv, NEW s \in Seats, GameRead(s), NEW c, c = rused[s]
  PROVE  /\ TalkTyped /\ RoomRight /\ NamesRight /\ in_game /\ used /\ s \in alive /\ Held(s)
         /\ c \in Conns /\ state[c] = 2 /\ request[c] = "none" /\ Holds(c)
         /\ up[c] # <<>> /\ Changed(up', up, c, Tail(up[c]))
         /\ UNCHANGED <<name, request, rused, cpc, my_id>>
         /\ \A t \in Seats : Held(t) /\ rused[t] = c => t = s
         /\ \A t \in Seats : Held(t) <=> t \in alive
<1>1. /\ TalkTyped /\ RoomRight /\ NamesRight /\ in_game /\ s \in alive
      /\ up[c] # <<>> /\ Changed(up', up, c, Tail(up[c]))
      /\ UNCHANGED <<name, request, rused, cpc, my_id>>
  BY DEF IInv, GameRead, Taken, Changed, client
<1>2. used /\ \A t \in alive : rused[t] # None
  BY <1>1 DEF RoomRight
<1>3. \A t \in Seats : Held(t) <=> t \in alive
  BY <1>1, <1>2 DEF Held
<1>4. Held(s)
  BY <1>1, <1>3
<1>5. /\ c \in Conns /\ state[c] = 2 /\ request[c] = "none" /\ Holds(c)
      /\ \A t \in Seats : Held(t) /\ rused[t] = c => t = s
  BY <1>1, <1>4, Seated
<1> QED BY <1>1, <1>2, <1>3, <1>4, <1>5

\* A line of the game's own.
LEMMA GameWordKeeps ==
  ASSUME IInv, NEW s \in Seats, GameRead(s), Head(up[rused[s]]) \notin {Word("8"), EOF}
  PROVE  IInv'
<1>1. PICK c : c = rused[s]
  OBVIOUS
<1>2. /\ TalkTyped /\ RoomRight /\ NamesRight /\ in_game /\ Held(s) /\ c \in Conns /\ Holds(c) /\ state[c] = 2
      /\ up[c] # <<>> /\ Changed(up', up, c, Tail(up[c]))
      /\ UNCHANGED <<name, request, rused, cpc, my_id>>
  BY <1>1, GameReads
<1>3. UNCHANGED <<state, down, used, in_game, players, alive>>
  BY DEF GameRead
<1>4. PICK S, e : S = {} /\ e = <<>>
  OBVIOUS
<1>5. down' = Sending(S, e) /\ Sequence(e)
  BY <1>2, <1>3, <1>4, ToSeatsSending, SequenceShort
<1>6. TalkTyped' /\ up'[c] = Tail(up[c]) /\ \A x \in Conns : x # c => up'[x] = up[x]
  <2>1. /\ state' \in [Conns -> 0 .. 2] /\ players' \in [Seats -> Conns \cup {None}]
        /\ rused' \in [Seats -> Conns \cup {None}] /\ alive' \subseteq Seats
        /\ used' \in BOOLEAN /\ in_game' \in BOOLEAN
    BY <1>2, <1>3 DEF TalkTyped
  <2> QED BY <1>2, <1>5, <2>1, ThreadTyped
<1>7. RoomRight'
  BY <1>2, <1>3, HoldsSame DEF RoomRight, Held
<1>8. AllInTouch'
  <2> SUFFICES ASSUME NEW x \in Conns PROVE InTouch(x)'
    BY DEF AllInTouch
  <2>0. (Holds(x)' <=> Holds(x)) /\ InTouch(x)
    BY <1>2, <1>3, HoldsSame DEF IInv, AllInTouch
  <2>1. CASE x # c
    BY <1>2, <1>3, <1>6, <2>0, <2>1, Untouched
  <2>2. CASE x = c
    <3>1. PICK p \in Places : p = "game"
      BY DEF Places, Reading
    <3>2. Takes(p, e, Len(e), p)
      <4>1. Len(e) = 0
        BY <1>4
      <4> QED BY <4>1, TakesNone
    <3>3. Sevens(c)' => View(c, p)'
      BY <1>2, <1>3, <2>0, <2>2, <3>1 DEF View
    <3>4. p = IF in_game THEN "game" ELSE "room"
      BY <1>2, <3>1
    <3>5. down'[c] = down[c] \o e /\ state'[c] # 0 /\ cpc'[c] = cpc[c] /\ my_id'[c] = my_id[c]
      <4>1. Sequence(down[c])
        BY <1>2 DEF TalkTyped
      <4>2. down[c] \o <<>> = down[c]
        BY <4>1, SequenceMore
      <4> QED BY <1>2, <1>3, <1>4, <4>2
    <3>6. InTouch(c)'
      BY <1>2, <1>4, <1>5, <1>6, <3>2, <3>3, <3>4, <3>5, HolderTold
    <3> QED BY <2>2, <3>6
  <2> QED BY <2>1, <2>2
<1>9. NamesRight'
  BY <1>2, <1>3, NamesKept DEF Claims
<1> QED BY <1>6, <1>7, <1>8, <1>9 DEF IInv

\* A player leaves a game that goes on.
LEMMA GameLeftKeeps ==
  ASSUME IInv, NEW s \in Seats, GameRead(s), Head(up[rused[s]]) \in {Word("8"), EOF}, ~(player_num - 1 < 2)
  PROVE  IInv'
<1>1. PICK c, l, H, y : c = rused[s] /\ l = Head(up[c]) /\ H = alive \ {s} /\ y = Line("7", name[c])
  OBVIOUS
<1>2. /\ TalkTyped /\ RoomRight /\ NamesRight /\ in_game /\ used /\ s \in alive /\ Held(s)
      /\ c \in Conns /\ state[c] = 2 /\ request[c] = "none" /\ Holds(c)
      /\ up[c] # <<>> /\ Changed(up', up, c, Tail(up[c]))
      /\ UNCHANGED <<name, request, rused, cpc, my_id>>
      /\ \A t \in Seats : Held(t) /\ rused[t] = c => t = s
      /\ \A t \in Seats : Held(t) <=> t \in alive
  BY <1>1, GameReads
<1>3. /\ UNCHANGED <<used, in_game, players>> /\ alive' = H /\ down' = ToSeats(H, y)
      /\ Changed(state', state, c, AfterLeave(l)) /\ l \in {Word("8"), EOF}
  BY <1>1 DEF GameRead, Changed
<1>4. PICK e : e = <<y>>
  OBVIOUS
<1>5. down' = Sending(H, e) /\ Sequence(e) /\ Len(e) = 1 /\ e[1] = y /\ Head(e) = y /\ e[1].op = "7"
  <2>1. down' = Sending(H, e) /\ Sequence(e)
    BY <1>2, <1>3, <1>4, ToSeatsSending, SequenceShort
  <2>2. Len(e) = 1 /\ e[1] = y /\ Head(e) = y
    BY <1>4
  <2> QED BY <1>1, <2>1, <2>2, Ops
<1>6. /\ state \in [Conns -> 0 .. 2] /\ players \in [Seats -> Conns \cup {None}] /\ used \in BOOLEAN
      /\ rused \in [Seats -> Conns \cup {None}] /\ alive \subseteq Seats /\ in_game \in BOOLEAN
  BY <1>2 DEF TalkTyped
<1>7. /\ state' \in [Conns -> 0 .. 2] /\ state'[c] = AfterLeave(l)
      /\ \A x \in Conns : x # c => state'[x] = state[x]
  <2>1. AfterLeave(l) \in 0 .. 2
    BY DEF AfterLeave
  <2> QED BY <1>2, <1>3, <1>6, <2>1 DEF Changed
<1>8. TalkTyped' /\ up'[c] = Tail(up[c]) /\ \A x \in Conns : x # c => up'[x] = up[x]
  <2>1. used' \in BOOLEAN /\ in_game' \in BOOLEAN /\ alive' \subseteq Seats
    BY <1>1, <1>3, <1>6
  <2>2. /\ players' \in [Seats -> Conns \cup {None}] /\ rused' \in [Seats -> Conns \cup {None}]
    BY <1>2, <1>3, <1>6
  <2>3. Sequence(e) /\ down' = Sending(H, e)
    BY <1>5
  <2> QED BY <1>2, <1>7, <2>1, <2>2, <2>3, ThreadTyped
<1>9. \A t \in Seats : (Held(t)' <=> Held(t) /\ t # s) /\ (t \in H <=> Held(t) /\ t # s)
  <2>1. \A t \in Seats : t \in H <=> Held(t) /\ t # s
    BY <1>1, <1>2
  <2>2. \A t \in Seats : Held(t)' <=> rused[t] # None /\ t \in H
    BY <1>2, <1>3 DEF Held
  <2> QED BY <2>1, <2>2 DEF Held
<1>10. RoomRight'
  <2>1. in_game' => used' /\ \A t \in alive' : rused'[t] # None
    BY <1>1, <1>2, <1>3 DEF RoomRight
  <2>2. \A x \in Conns : request[x] # "none" => state'[x] = 2
    BY <1>2, <1>7 DEF RoomRight
  <2>3. \A t \in Seats : Held(t)' => state'[rused[t]] = 2 /\ request[rused[t]] = "none"
    BY <1>2, <1>6, <1>7, <1>9, Seated
  <2>4. \A t, v \in Seats : Held(t)' /\ Held(v)' /\ rused[t] = rused[v] => t = v
    BY <1>2, <1>9 DEF RoomRight
  <2> QED BY <1>2, <1>3, <2>1, <2>2, <2>3, <2>4 DEF RoomRight
<1>11. AllInTouch'
  <2> SUFFICES ASSUME NEW x \in Conns PROVE InTouch(x)'
    BY DEF AllInTouch
  <2>1. CASE x = c
    <3>1. ~\E t \in H : rused[t] = c
      BY <1>1, <1>2, <1>6
    <3>2. down'[c] = down[c]
      BY <1>2, <1>5, <3>1, Sendings
    <3>3. l \in {Word("6"), Word("8"), EOF} /\ cpc'[c] = cpc[c] /\ my_id'[c] = my_id[c]
      BY <1>2, <1>3
    <3>4. InTouch(c)'
      BY <1>1, <1>2, <1>7, <1>8, <3>2, <3>3, LeaverTouch
    <3> QED BY <2>1, <3>4
  <2>2. CASE x # c /\ ~\E t \in H : rused[t] = x
    <3>1. down'[x] = down[x]
      BY <1>2, <1>5, <2>2, Sendings
    <3>2. ~Holds(x) /\ ~Holds(x)'
      BY <1>1, <1>2, <1>9, <2>2 DEF Holds
    <3>3. InTouch(x)
      BY DEF IInv, AllInTouch
    <3> QED BY <1>2, <1>7, <1>8, <2>2, <3>1, <3>2, <3>3, Untouched
  <2>3. ASSUME x # c, NEW t \in H, rused[t] = x PROVE InTouch(x)'
    <3>0. t \in Seats /\ Held(t) /\ t # s
      BY <1>1, <1>6, <1>9
    <3>1. down'[x] = down[x] \o e /\ Sequence(e)
      BY <1>2, <1>5, <2>3, Sendings
    <3>3. Holds(x) /\ Holds(x)'
      <4>1. Held(t)' /\ rused'[t] = x
        BY <1>2, <1>9, <2>3, <3>0
      <4> QED BY <2>3, <3>0, <4>1 DEF Holds
    <3>5. PICK p \in Places : p = "game"
      BY DEF Places, Reading
    <3>6. Takes(p, e, Len(e), p)
      <4>1. Takes("game", <<Line("7", name[c])>>, 1, "game")
        BY RoomTakes
      <4> QED BY <1>1, <1>4, <1>5, <3>5, <4>1
    <3>7. Head(e).op # "4"
      BY <1>5
    <3>8. Sevens(x)' => View(x, p)'
      BY <1>2, <1>3, <3>3, <3>5 DEF View
    <3>9. state'[x] # 0 /\ up'[x] = up[x] /\ cpc'[x] = cpc[x] /\ my_id'[x] = my_id[x]
      BY <1>2, <1>7, <1>8, <2>3, <3>0, Seated
    <3>10. p = IF in_game THEN "game" ELSE "room"
      BY <1>2, <3>5
    <3> QED BY <3>1, <3>3, <3>6, <3>7, <3>8, <3>9, <3>10, HolderTold
  <2> QED BY <2>1, <2>2, <2>3
<1>12. NamesRight'
  <2>1. \A k \in 1 .. Len(e) : e[k].op # "2"
    BY <1>5
  <2>2. Sequence(e) /\ down' = Sending(H, e)
    BY <1>5
  <2> QED BY <1>2, <2>1, <2>2, SendingNames
<1> QED BY <1>8, <1>10, <1>11, <1>12 DEF IInv

\* Once the room is closed, nobody is in it.
LEMMA ClosedRoom ==
  ASSUME TalkTyped, RoomRight, used' = FALSE, in_game' = FALSE, players' = [s \in Seats |-> None],
         UNCHANGED request, \A x \in Conns : request[x] # "none" => state'[x] = state[x]
  PROVE  RoomRight' /\ \A x \in Conns : ~Holds(x)'
<1>1. \A t \in Seats : ~Held(t)' /\ players'[t] = None
  BY DEF Held
<1>2. \A x \in Conns : request'[x] # "none" => state'[x] = 2
  BY DEF RoomRight
<1>3. RoomRight'
  BY <1>1, <1>2 DEF RoomRight
<1> QED BY <1>1, <1>3 DEF Holds

\* A player leaves and the last one has won.
LEMMA GameOverKeeps ==
  ASSUME IInv, NEW s \in Seats, GameRead(s), Head(up[rused[s]]) \in {Word("8"), EOF}, player_num - 1 < 2
  PROVE  IInv'
<1>1. PICK c, l, H, y : c = rused[s] /\ l = Head(up[c]) /\ H = alive \ {s} /\ y = Line("7", name[c])
  OBVIOUS
<1>2. /\ TalkTyped /\ RoomRight /\ NamesRight /\ in_game /\ used /\ s \in alive /\ Held(s)
      /\ c \in Conns /\ state[c] = 2 /\ request[c] = "none" /\ Holds(c)
      /\ up[c] # <<>> /\ Changed(up', up, c, Tail(up[c]))
      /\ UNCHANGED <<name, request, rused, cpc, my_id>>
      /\ \A t \in Seats : Held(t) /\ rused[t] = c => t = s
      /\ \A t \in Seats : Held(t) <=> t \in alive
  BY <1>1, GameReads
<1>3. /\ used' = FALSE /\ in_game' = FALSE /\ players' = [t \in Seats |-> None] /\ alive' = {}
      /\ down' = [x \in Conns |-> IF \E t \in H : rused[t] = x THEN Append(ToSeats(H, y)[x], Word("15"))
                                  ELSE ToSeats(H, y)[x]]
      /\ state' = [x \in Conns |-> CASE x = c -> AfterLeave(l)
                                     [] \E t \in H : rused[t] = x -> 1
                                     [] OTHER -> state[x]]
      /\ l \in {Word("8"), EOF}
  BY <1>1 DEF GameRead, CloseRoom
<1>4. PICK e : e = <<y, Word("15")>>
  OBVIOUS
<1>5. down' = Sending(H, e) /\ Sequence(e)
  <2>1. TalkTyped
    BY <1>2
  <2>2. Closing(H, ToSeats(H, y)) = Sending(H, <<y, Word("15")>>)
    BY <2>1, ToSeatsSending
  <2>3. Sequence(<<y, Word("15")>>)
    BY SequenceShort
  <2>4. down' = Closing(H, ToSeats(H, y))
    BY <1>3 DEF Closing
  <2> QED BY <1>4, <2>2, <2>3, <2>4
<1>6. /\ state \in [Conns -> 0 .. 2] /\ rused \in [Seats -> Conns \cup {None}] /\ alive \subseteq Seats
  BY <1>2 DEF TalkTyped
<1>h. ~\E t \in H : rused[t] = c
  BY <1>1, <1>2, <1>6
<1>7. /\ state' \in [Conns -> 0 .. 2] /\ state'[c] = AfterLeave(l)
      /\ \A x \in Conns : x # c => state'[x] = IF \E t \in H : rused[t] = x THEN 1 ELSE state[x]
  <2>1. AfterLeave(l) \in 0 .. 2
    BY DEF AfterLeave
  <2>2. \A x \in Conns : state'[x] = IF x = c THEN AfterLeave(l) ELSE IF \E t \in H : rused[t] = x THEN 1 ELSE state[x]
    BY <1>3, <1>h
  <2>3. state' \in [Conns -> 0 .. 2]
    <3>1. \A x \in Conns : state'[x] \in 0 .. 2
      BY <1>6, <2>1, <2>2
    <3> QED BY <1>3, <3>1
  <2> QED BY <1>2, <2>2, <2>3
<1>8. TalkTyped' /\ up'[c] = Tail(up[c]) /\ \A x \in Conns : x # c => up'[x] = up[x]
  <2>1. used' \in BOOLEAN /\ in_game' \in BOOLEAN /\ alive' \subseteq Seats
    BY <1>3
  <2>2. /\ players' \in [Seats -> Conns \cup {None}] /\ rused' \in [Seats -> Conns \cup {None}]
    BY <1>2, <1>3, <1>6
  <2> QED BY <1>2, <1>5, <1>7, <2>1, <2>2, ThreadTyped
<1>9. \A t \in Seats : t \in H <=> Held(t) /\ t # s
  BY <1>1, <1>2
<1>10. \A x \in Conns : request[x] # "none" => state'[x] = state[x]
  <2>1. ASSUME NEW x \in Conns, request[x] # "none" PROVE x # c /\ ~\E t \in H : rused[t] = x
    BY <1>1, <1>2, <1>6, <1>9, <2>1 DEF RoomRight
  <2> QED BY <1>7, <2>1
<1>11. RoomRight' /\ \A x \in Conns : ~Holds(x)'
  BY <1>2, <1>3, <1>10, ClosedRoom
<1>12. AllInTouch'
  <2> SUFFICES ASSUME NEW x \in Conns PROVE InTouch(x)'
    BY DEF AllInTouch
  <2>1. CASE x = c
    <3>2. down'[c] = down[c]
      BY <1>2, <1>5, <1>h, Sendings
    <3>3. l \in {Word("6"), Word("8"), EOF} /\ cpc'[c] = cpc[c] /\ my_id'[c] = my_id[c]
      BY <1>2, <1>3
    <3>4. InTouch(c)'
      BY <1>1, <1>2, <1>7, <1>8, <3>2, <3>3, LeaverTouch
    <3> QED BY <2>1, <3>4
  <2>2. CASE x # c /\ ~\E t \in H : rused[t] = x
    <3>1. down'[x] = down[x]
      BY <1>2, <1>5, <2>2, Sendings
    <3>2. ~Holds(x) /\ ~Holds(x)'
      BY <1>1, <1>2, <1>9, <1>11, <2>2 DEF Holds
    <3>3. InTouch(x) /\ state'[x] = state[x]
      BY <1>7, <2>2 DEF IInv, AllInTouch
    <3> QED BY <1>2, <1>8, <2>2, <3>1, <3>2, <3>3, Untouched
  <2>3. ASSUME x # c, NEW t \in H, rused[t] = x PROVE InTouch(x)'
    <3>0. t \in Seats /\ Held(t) /\ t # s
      BY <1>1, <1>6, <1>9
    <3>1. down'[x] = down[x] \o e
      BY <1>2, <1>5, <2>3, Sendings
    <3>2. Holds(x)
      BY <2>3, <3>0 DEF Holds
    <3>3. state'[x] = 1 /\ up'[x] = up[x] /\ cpc'[x] = cpc[x] /\ my_id'[x] = my_id[x]
      BY <1>2, <1>7, <1>8, <2>3
    <3>4. e = <<Line("7", name[c]), Word("15")>>
      BY <1>1, <1>4
    <3> QED BY <1>2, <1>5, <3>1, <3>2, <3>3, <3>4, ClosedTouch
  <2> QED BY <2>1, <2>2, <2>3
<1>13. NamesRight'
  <2>1. \A k \in 1 .. Len(e) : e[k].op # "2"
    <3>1. Len(e) = 2 /\ e[1] = y /\ e[2] = Word("15")
      BY <1>4
    <3>2. y.op = "7" /\ Word("15").op = "15"
      BY <1>1, Ops
    <3>3. \A k \in 1 .. 2 : k = 1 \/ k = 2
      OBVIOUS
    <3> QED BY <3>1, <3>2, <3>3
  <2> QED BY <1>2, <1>5, <2>1, SendingNames
<1> QED BY <1>8, <1>11, <1>12, <1>13 DEF IInv

\* Somebody wins.
LEMMA GameWonKeeps ==
  ASSUME IInv, GameWon
  PROVE  IInv'
<1>1. PICK H : H = alive
  OBVIOUS
<1>2. /\ TalkTyped /\ RoomRight /\ NamesRight /\ in_game
      /\ UNCHANGED <<name, request, rused, up, cpc, my_id>>
      /\ used' = FALSE /\ in_game' = FALSE /\ players' = [t \in Seats |-> None] /\ alive' = {}
      /\ down' = [x \in Conns |-> IF \E t \in H : rused[t] = x THEN Append(down[x], Word("15")) ELSE down[x]]
      /\ state' = [x \in Conns |-> IF \E t \in H : rused[t] = x THEN 1 ELSE state[x]]
  BY <1>1 DEF IInv, GameWon, CloseRoom, client
<1>3. \A t \in Seats : Held(t) <=> t \in H
  BY <1>1, <1>2 DEF Held, RoomRight
<1>4. PICK e : e = <<Word("15")>>
  OBVIOUS
<1>5. down' = Sending(H, e) /\ Sequence(e)
  <2>1. TalkTyped
    BY <1>2
  <2>2. Closing(H, down) = Sending(H, <<Word("15")>>)
    BY <2>1, ToSeatsSending
  <2>3. Sequence(<<Word("15")>>)
    BY SequenceShort
  <2>4. down' = Closing(H, down)
    BY <1>2 DEF Closing
  <2> QED BY <1>4, <2>2, <2>3, <2>4
<1>6. /\ state \in [Conns -> 0 .. 2] /\ rused \in [Seats -> Conns \cup {None}] /\ H \subseteq Seats
  BY <1>1, <1>2 DEF TalkTyped
<1>7. state' \in [Conns -> 0 .. 2]
  BY <1>2, <1>6
<1>8. TalkTyped'
  <2>0. TalkTyped
    BY <1>2
  <2>1. FunctionOn(down', Conns) /\ \A x \in Conns : Sequence(down'[x])
    BY <1>5, <2>0, Sendings
  <2>2. /\ request \in [Conns -> {"none", "3", "4", "5"}] /\ cpc \in [Conns -> Places]
        /\ FunctionOn(name, Conns) /\ FunctionOn(my_id, Conns) /\ FunctionOn(up, Conns)
        /\ \A x \in Conns : Sequence(up[x])
    BY <1>2 DEF TalkTyped
  <2>3. players' \in [Seats -> Conns \cup {None}] /\ used' \in BOOLEAN /\ in_game' \in BOOLEAN /\ alive' \subseteq Seats
    BY <1>2
  <2> QED BY <1>2, <1>6, <1>7, <2>1, <2>2, <2>3 DEF TalkTyped
<1>9. \A x \in Conns : request[x] # "none" => state'[x] = state[x]
  <2>1. ASSUME NEW x \in Conns, request[x] # "none" PROVE ~\E t \in H : rused[t] = x
    BY <1>2, <1>3, <1>6, <2>1 DEF RoomRight
  <2> QED BY <1>2, <2>1
<1>10. RoomRight' /\ \A x \in Conns : ~Holds(x)'
  BY <1>2, <1>9, ClosedRoom
<1>11. AllInTouch'
  <2> SUFFICES ASSUME NEW x \in Conns PROVE InTouch(x)'
    BY DEF AllInTouch
  <2>2. CASE ~\E t \in H : rused[t] = x
    <3>1. down'[x] = down[x]
      BY <1>2, <1>5, <2>2, Sendings
    <3>2. ~Holds(x) /\ ~Holds(x)'
      BY <1>3, <1>10, <2>2 DEF Holds
    <3>3. InTouch(x) /\ state'[x] = state[x]
      BY <1>2, <2>2 DEF IInv, AllInTouch
    <3> QED BY <1>2, <3>1, <3>2, <3>3, Untouched
  <2>3. ASSUME NEW t \in H, rused[t] = x PROVE InTouch(x)'
    <3>0. t \in Seats /\ Held(t)
      BY <1>3, <1>6
    <3>1. down'[x] = down[x] \o e
      BY <1>2, <1>5, <2>3, Sendings
    <3>2. Holds(x)
      BY <2>3, <3>0 DEF Holds
    <3>3. state'[x] = 1 /\ up'[x] = up[x] /\ cpc'[x] = cpc[x] /\ my_id'[x] = my_id[x]
      BY <1>2, <2>3
    <3> QED BY <1>2, <1>4, <1>5, <3>1, <3>2, <3>3, ClosedTouch
  <2> QED BY <2>2, <2>3
<1>12. NamesRight'
  <2>1. \A k \in 1 .. Len(e) : e[k].op # "2"
    <3>1. Len(e) = 1 /\ e[1].op = "15"
      BY <1>4, Ops
    <3> QED BY <3>1
  <2> QED BY <1>2, <1>5, <2>1, SendingNames
<1> QED BY <1>8, <1>10, <1>11, <1>12 DEF IInv

\* The lines about newcomers: all of them "6".
LEMMA JoinLinesSix ==
  ASSUME NEW s \in Seats
  PROVE  Sequence(JoinLines(s)) /\ \A k \in 1 .. Len(JoinLines(s)) : JoinLines(s)[k].op = "6"
<1>1. PICK told : told = {t \in Newcomers : s \in Newcomers => t > s}
  OBVIOUS
<1>2. IsFiniteSet(Seats)
  BY TalkAssumption, FS_Interval DEF Seats
<1>3. told \subseteq Seats
  BY <1>1 DEF Newcomers, Taking
<1>4. Cardinality(told) \in Nat
  BY <1>2, <1>3, FS_Subset, FS_CardinalityType
<1>5. PICK n : n = Cardinality(told)
  OBVIOUS
<1>6. PICK g : JoinLines(s) = [k \in 1 .. n |-> Line("6", NameOf(players[g[k]]))]
  <2>1. JoinLines(s) = [k \in 1 .. n |-> Line("6", NameOf(players[NthSeat(told, k)]))]
    BY <1>1, <1>5 DEF JoinLines
  <2>2. PICK h : h = [k \in 1 .. n |-> NthSeat(told, k)]
    OBVIOUS
  <2>3. \A k \in 1 .. n : h[k] = NthSeat(told, k)
    BY <2>2
  <2> QED BY <2>1, <2>3
<1>7. PICK J : J = JoinLines(s)
  OBVIOUS
<1>8. J = [k \in 1 .. n |-> J[k]]
  BY <1>6, <1>7
<1>9. ASSUME NEW k \in 1 .. n PROVE J[k].op = "6"
  <2>1. PICK x : J[k] = Line("6", x)
    BY <1>6, <1>7
  <2> QED BY <2>1, Ops
<1>10. J \in Seq({J[k] : k \in 1 .. n}) /\ Len(J) = n
  BY <1>4, <1>5, <1>8
<1>11. Sequence(J)
  BY <1>10, SequenceOf
<1> QED BY <1>7, <1>9, <1>10, <1>11

\* Who is let in comes from the choice of a room into the room, who is there stays.
LEMMA JoinTakes ==
  ASSUME NEW J, Sequence(J), \A k \in 1 .. Len(J) : J[k].op = "6", NEW w, w.op = "5"
  PROVE  /\ Takes("room", J, Len(J), "room")
         /\ Sequence(<<w>> \o J) /\ Takes("enter", <<w>> \o J, Len(<<w>> \o J), "room")
         /\ J = <<>> \/ Head(J).op # "4"
         /\ Head(<<w>> \o J).op # "4"
         /\ \A k \in 1 .. Len(<<w>> \o J) : (<<w>> \o J)[k].op # "2"
<1>0. PICK p, q, d, f, n, m, l :
        p = "enter" /\ q = "room" /\ d = <<w>> /\ f = d \o J /\ n = 1 /\ m = Len(J) /\ l = Len(f)
  OBVIOUS
<1>1. p \in Reading /\ q \in Reading /\ q \in Places \ {"puzzled"}
  BY <1>0 DEF Reading, Places
<1>2. Sequence(d) /\ Len(d) = 1 /\ d[1] = w
  BY <1>0, SequenceShort
<1>3. /\ Sequence(f) /\ l = Len(d) + m
      /\ \A k \in 1 .. Len(d) : f[k] = d[k]
      /\ \A k \in 1 .. m : f[Len(d) + k] = J[k]
  <2>1. Sequence(d)
    BY <1>2
  <2> QED BY <1>0, <2>1, SequenceJoin
<1>4. m \in Nat /\ l = n + m /\ n \in Nat
  BY <1>0, <1>2, <1>3, SequenceLen
<1>5. Takes(q, J, m, q)
  <2>1. \A k \in 1 .. m : After(q, J[k]) = q
    BY <1>0 DEF After
  <2> QED BY <1>1, <1>4, <2>1, TakesNowhere
<1>6. Takes(p, d, n, q)
  <2>1. After(p, d[1]) = q
    BY <1>0, <1>2 DEF After
  <2>2. Takes(p, d, 1, After(p, d[1]))
    BY <1>1, <2>1, TakesOne
  <2> QED BY <1>0, <2>1, <2>2
<1>7. Follows(f, d, n, J, m)
  BY <1>0, <1>2, <1>3 DEF Follows
<1>8. Takes(p, f, l, q)
  BY <1>4, <1>5, <1>6, <1>7, TakesOn
<1>9. J = <<>> \/ Head(J).op # "4"
  <2>1. J # <<>> => Head(J) = J[1] /\ 1 \in 1 .. Len(J)
    BY <1>0, <1>4, SequenceTail
  <2> QED BY <2>1
<1>10. f[1] = w /\ f # <<>> /\ Head(f) = w
  <2>1. f[1] = w
    BY <1>2, <1>3
  <2>2. f # <<>>
    BY <1>0, <1>3, <1>4, SequenceLen
  <2> QED BY <1>3, <2>1, <2>2, SequenceTail
<1>11. ASSUME NEW k \in 1 .. l PROVE f[k].op # "2"
  <2>1. CASE k = 1
    BY <1>10, <2>1
  <2>2. CASE k # 1
    <3>1. PICK j \in 1 .. m : k = 1 + j
      <4>1. k - 1 \in 1 .. m /\ k = 1 + (k - 1)
        BY <1>0, <1>4, <2>2
      <4> QED BY <4>1
    <3>2. f[k] = J[j]
      BY <1>2, <1>3, <3>1
    <3> QED BY <1>0, <3>1, <3>2
  <2> QED BY <2>1, <2>2
<1> QED BY <1>0, <1>3, <1>5, <1>8, <1>9, <1>10, <1>11

LEMMA SequenceAssoc ==
  ASSUME NEW a, NEW b, NEW c, Sequence(a), Sequence(b), Sequence(c)
  PROVE  (a \o b) \o c = a \o (b \o c) /\ a \o <<>> = a
<1>1. PICK S : S = {a[k] : k \in 1 .. Len(a)} \cup {b[k] : k \in 1 .. Len(b)} \cup {c[k] : k \in 1 .. Len(c)}
  OBVIOUS
<1>2. a \in Seq(S) /\ b \in Seq(S) /\ c \in Seq(S)
  <2>1. /\ Len(a) \in Nat /\ a = [k \in 1 .. Len(a) |-> a[k]] /\ \A k \in 1 .. Len(a) : a[k] \in S
    BY <1>1 DEF Sequence
  <2>2. /\ Len(b) \in Nat /\ b = [k \in 1 .. Len(b) |-> b[k]] /\ \A k \in 1 .. Len(b) : b[k] \in S
    BY <1>1 DEF Sequence
  <2>3. /\ Len(c) \in Nat /\ c = [k \in 1 .. Len(c) |-> c[k]] /\ \A k \in 1 .. Len(c) : c[k] \in S
    BY <1>1 DEF Sequence
  <2> QED BY <2>1, <2>2, <2>3
<1> QED BY <1>2, ConcatAssociative

\* What a player in seat s is told when the newcomers are let in.
AdmitLines(s) == (IF s \in Newcomers THEN <<Welcome(s)>> ELSE <<>>) \o JoinLines(s)

LEMMA AdmitTold ==
  ASSUME NEW s \in Seats
  PROVE  /\ Sequence(AdmitLines(s)) /\ (AdmitLines(s) = <<>> \/ Head(AdmitLines(s)).op # "4")
         /\ \A k \in 1 .. Len(AdmitLines(s)) : AdmitLines(s)[k].op # "2"
         /\ s \in Newcomers => Takes("enter", AdmitLines(s), Len(AdmitLines(s)), "room")
         /\ s \notin Newcomers => Takes("room", AdmitLines(s), Len(AdmitLines(s)), "room")
         /\ \A d : Sequence(d) =>
              d \o (IF s \in Newcomers THEN <<Welcome(s)>> ELSE <<>>) \o JoinLines(s) = d \o AdmitLines(s)
<1>1. PICK J, w, e, f : J = JoinLines(s) /\ w = Welcome(s) /\ e = AdmitLines(s)
                        /\ f = IF s \in Newcomers THEN <<w>> ELSE <<>>
  OBVIOUS
<1>2. Sequence(J) /\ \A k \in 1 .. Len(J) : J[k].op = "6"
  BY <1>1, JoinLinesSix
<1>3. w.op = "5"
  BY <1>1 DEF Welcome
<1>4. /\ Takes("room", J, Len(J), "room")
      /\ Sequence(<<w>> \o J) /\ Takes("enter", <<w>> \o J, Len(<<w>> \o J), "room")
      /\ J = <<>> \/ Head(J).op # "4"
      /\ Head(<<w>> \o J).op # "4"
      /\ \A k \in 1 .. Len(<<w>> \o J) : (<<w>> \o J)[k].op # "2"
  BY <1>2, <1>3, JoinTakes
<1>5. Sequence(f)
  BY <1>1, SequenceShort
<1>6. e = f \o J
  BY <1>1 DEF AdmitLines
<1>7. ASSUME NEW d, Sequence(d) PROVE (d \o f) \o J = d \o e
  BY <1>2, <1>5, <1>6, <1>7, SequenceAssoc
<1>8. s \notin Newcomers => e = J
  <2>1. <<>> \o J = J
    BY <1>2 DEF Sequence
  <2> QED BY <1>1, <1>6, <2>1
<1>9. s \in Newcomers => e = <<w>> \o J
  BY <1>1, <1>6
<1>10. /\ Sequence(e) /\ (e = <<>> \/ Head(e).op # "4") /\ \A k \in 1 .. Len(e) : e[k].op # "2"
       /\ s \in Newcomers => Takes("enter", e, Len(e), "room")
       /\ s \notin Newcomers => Takes("room", e, Len(e), "room")
  <2>1. CASE s \in Newcomers
    BY <1>4, <1>9, <2>1
  <2>2. CASE s \notin Newcomers
    BY <1>2, <1>4, <1>8, <2>2
  <2> QED BY <2>1, <2>2
<1> QED BY <1>1, <1>7, <1>10

\* What the thread has, and whom it tells what, once the newcomers are let in.
LEMMA Admits ==
  ASSUME IInv, Admit, NEW M, M = Inside \cup Newcomers
  PROVE  /\ M \subseteq Seats
         /\ \A s \in Seats : (Held(s) <=> s \in Inside) /\ (Held(s)' <=> s \in M)
         /\ \A s \in Inside : s \notin Newcomers /\ players[s] = rused[s] /\ players[s] # None
         /\ \A s \in Newcomers : rused[s] = None /\ players[s] # None
         /\ \A s, t \in M : players[s] = players[t] => s = t
         /\ \A s \in M : rused'[s] = players[s] /\ players[s] \in Conns
         /\ \A x \in Conns, s \in M : players[s] = x => down'[x] = down[x] \o AdmitLines(s)
         /\ \A x \in Conns : ~(\E s \in M : players[s] = x) => down'[x] = down[x]
<1>0. /\ TalkTyped /\ RoomRight /\ used /\ ~in_game
      /\ UNCHANGED <<used, in_game, players>>
  BY DEF IInv, Admit
<1>1. PICK I, N : I = Inside /\ N = Newcomers /\ M = I \cup N
  OBVIOUS
<1>2. rused' = [s \in Seats |-> IF s \in N THEN players[s] ELSE rused[s]]
  BY <1>1 DEF Admit
<1>3. /\ players \in [Seats -> Conns \cup {None}] /\ rused \in [Seats -> Conns \cup {None}]
      /\ \A x \in Conns : Sequence(down[x])
  BY <1>0 DEF TalkTyped
<1>4. /\ M \subseteq Seats
      /\ \A s \in Seats : Held(s) <=> s \in I
      /\ \A s \in I : s \notin N /\ players[s] = rused[s] /\ players[s] # None
      /\ \A s \in N : rused[s] = None /\ players[s] # None
  <2>1. M \subseteq Seats /\ \A s \in N : rused[s] = None /\ players[s] # None
    BY <1>1 DEF Inside, Newcomers, Taking
  <2>2. \A s \in Seats : Held(s) <=> s \in I
    BY <1>0, <1>1 DEF Held, Inside
  <2>3. \A s \in I : s \in Seats /\ rused[s] # None
    BY <1>1 DEF Inside
  <2>4. \A s \in I : s \notin N /\ players[s] = rused[s] /\ players[s] # None
    BY <1>0, <2>1, <2>2, <2>3 DEF RoomRight
  <2> QED BY <2>1, <2>2, <2>4
<1>5. \A s, t \in M : players[s] = players[t] => s = t
  BY <1>0, <1>1, <1>4 DEF RoomRight
<1>6. \A s \in M : rused'[s] = players[s] /\ players[s] \in Conns
  BY <1>1, <1>2, <1>3, <1>4
<1>7. \A s \in Seats : Held(s)' <=> s \in M
  <2>1. \A s \in Seats : Held(s)' <=> rused'[s] # None
    BY <1>0 DEF Held
  <2>2. ASSUME NEW s \in Seats, s \notin M PROVE rused'[s] = None
    BY <1>0, <1>1, <1>2, <1>4, <2>2 DEF Held
  <2>3. \A s \in M : rused'[s] # None
    BY <1>6, NoneApart
  <2> QED BY <1>4, <2>1, <2>2, <2>3
<1>8. ASSUME NEW x \in Conns, NEW s \in M, players[s] = x PROVE down'[x] = down[x] \o AdmitLines(s)
  <2>1. PICK y : y = CHOOSE t \in I \cup N : players[t] = x
    OBVIOUS
  <2>2. y \in M /\ players[y] = x
    BY <1>1, <1>8, <2>1
  <2>3. y = s
    BY <1>5, <1>8, <2>2
  <2>4. down'[x] = down[x] \o (IF y \in Newcomers THEN <<Welcome(y)>> ELSE <<>>) \o JoinLines(y)
    BY <1>1, <1>8, <2>1 DEF Admit
  <2> QED BY <1>3, <1>4, <2>3, <2>4, AdmitTold
<1>9. ASSUME NEW x \in Conns, ~\E s \in M : players[s] = x PROVE down'[x] = down[x]
  BY <1>1, <1>9 DEF Admit
<1> QED BY <1>1, <1>4, <1>5, <1>6, <1>7, <1>8, <1>9

\* The newcomers are let in.
LEMMA AdmitKeeps ==
  ASSUME IInv, Admit
  PROVE  IInv'
<1>0. /\ TalkTyped /\ RoomRight /\ NamesRight /\ used /\ ~in_game
      /\ UNCHANGED <<state, name, request, used, in_game, players, alive, up, cpc, my_id>>
  BY DEF IInv, Admit, conns, client
<1>1. PICK I, N, M : I = Inside /\ N = Newcomers /\ M = I \cup N
  OBVIOUS
<1>2. rused' = [s \in Seats |-> IF s \in N THEN players[s] ELSE rused[s]]
  BY <1>1 DEF Admit
<1>3. /\ players \in [Seats -> Conns \cup {None}] /\ rused \in [Seats -> Conns \cup {None}]
      /\ \A x \in Conns : Sequence(up[x]) /\ Sequence(down[x])
  BY <1>0 DEF TalkTyped
<1>a. /\ M \subseteq Seats
      /\ \A s \in Seats : (Held(s) <=> s \in Inside) /\ (Held(s)' <=> s \in M)
      /\ \A s \in Inside : s \notin Newcomers /\ players[s] = rused[s] /\ players[s] # None
      /\ \A s \in Newcomers : rused[s] = None /\ players[s] # None
      /\ \A s, t \in M : players[s] = players[t] => s = t
      /\ \A s \in M : rused'[s] = players[s] /\ players[s] \in Conns
      /\ \A x \in Conns, s \in M : players[s] = x => down'[x] = down[x] \o AdmitLines(s)
      /\ \A x \in Conns : ~(\E s \in M : players[s] = x) => down'[x] = down[x]
  <2>1. M = Inside \cup Newcomers
    BY <1>1
  <2> QED BY <2>1, Admits, Zenon
<1>4. /\ M \subseteq Seats
      /\ \A s \in Seats : Held(s) <=> s \in I
      /\ \A s \in I : s \notin N /\ players[s] = rused[s] /\ players[s] # None
      /\ \A s \in N : rused[s] = None /\ players[s] # None
  BY <1>1, <1>a
<1>5. \A s, t \in M : players[s] = players[t] => s = t
  BY <1>a
<1>6. \A s \in M : rused'[s] = players[s] /\ players[s] \in Conns
  BY <1>a
<1>7. \A s \in Seats : Held(s)' <=> s \in M
  BY <1>a
<1>8. ASSUME NEW x \in Conns, NEW s \in M, players[s] = x PROVE down'[x] = down[x] \o AdmitLines(s)
  BY <1>8, <1>a
<1>9. ASSUME NEW x \in Conns, ~\E s \in M : players[s] = x PROVE down'[x] = down[x]
  BY <1>9, <1>a
<1>10. TalkTyped'
  <2>1. rused' \in [Seats -> Conns \cup {None}]
    BY <1>2, <1>3
  <2>2. FunctionOn(down', Conns)
    BY DEF Admit, FunctionOn
  <2>3. ASSUME NEW x \in Conns PROVE Sequence(down'[x])
    <3>1. ASSUME NEW s \in M, players[s] = x PROVE Sequence(down'[x])
      <4>1. Sequence(down[x]) /\ Sequence(AdmitLines(s))
        BY <1>3, <1>4, AdmitTold
      <4>2. PICK d, e : d = down[x] /\ e = AdmitLines(s)
        OBVIOUS
      <4>3. Sequence(d \o e)
        BY <4>1, <4>2, SequenceJoin
      <4>4. down'[x] = d \o e
        BY <1>8, <3>1, <4>2
      <4> QED BY <4>3, <4>4
    <3>2. CASE ~\E s \in M : players[s] = x
      BY <1>3, <1>9, <3>2
    <3> QED BY <3>1, <3>2
  <2>4. /\ state \in [Conns -> 0 .. 2] /\ request \in [Conns -> {"none", "3", "4", "5"}]
        /\ alive \subseteq Seats /\ used \in BOOLEAN /\ in_game \in BOOLEAN /\ cpc \in [Conns -> Places]
        /\ FunctionOn(name, Conns) /\ FunctionOn(my_id, Conns) /\ FunctionOn(up, Conns)
    BY <1>0 DEF TalkTyped
  <2> QED BY <1>0, <1>3, <2>1, <2>2, <2>3, <2>4 DEF TalkTyped
<1>11. RoomRight'
  <2>1. /\ \A x \in Conns : request[x] # "none" => state[x] = 2
        /\ \A t \in Seats : players[t] # None => state[players[t]] = 2 /\ request[players[t]] = "none"
        /\ \A t, v \in Seats : players[t] = players[v] /\ t # v => players[t] = None
    BY <1>0 DEF RoomRight
  <2>2. \A s \in Seats : Held(s)' => /\ state[rused'[s]] = 2 /\ request[rused'[s]] = "none"
                                     /\ players[s] = rused'[s]
    BY <1>4, <1>6, <1>7, <2>1, NoneApart
  <2>3. \A s, t \in Seats : Held(s)' /\ Held(t)' /\ rused'[s] = rused'[t] => s = t
    BY <1>5, <1>6, <1>7
  <2> QED BY <1>0, <2>1, <2>2, <2>3 DEF RoomRight
<1>12. AllInTouch'
  <2> SUFFICES ASSUME NEW x \in Conns PROVE InTouch(x)'
    BY DEF AllInTouch
  <2>0. InTouch(x)
    BY DEF IInv, AllInTouch
  <2>1. CASE ~\E s \in M : players[s] = x
    <3>1. ~Holds(x) /\ ~Holds(x)'
      BY <1>1, <1>4, <1>6, <1>7, <2>1 DEF Holds
    <3>2. down'[x] = down[x]
      BY <1>9, <2>1
    <3> QED BY <1>0, <2>0, <3>1, <3>2, Untouched
  <2>2. ASSUME NEW s \in M, players[s] = x PROVE InTouch(x)'
    <3>1. PICK e : e = AdmitLines(s)
      OBVIOUS
    <3>2. /\ Sequence(e) /\ (e = <<>> \/ Head(e).op # "4")
          /\ s \in N => Takes("enter", e, Len(e), "room")
          /\ s \notin N => Takes("room", e, Len(e), "room")
      BY <1>1, <1>4, <3>1, AdmitTold
    <3>3. down'[x] = down[x] \o e
      BY <1>8, <2>2, <3>1
    <3>4. Holds(x)'
      BY <1>4, <1>6, <1>7, <2>2 DEF Holds
    <3>5. state[x] = 2
      BY <1>0, <1>4, <2>2, NoneApart DEF RoomRight
    <3>6. PICK z \in Places : z = "room"
      BY DEF Places, Reading
    <3>7. Sevens(x)' => View(x, z)'
      BY <1>0, <3>4, <3>6 DEF View
    <3>8. CASE s \in I
      <4>1. Holds(x)
        BY <1>1, <1>4, <2>2, <3>8 DEF Holds
      <4>2. Takes(z, e, Len(e), z)
        BY <1>4, <3>2, <3>6, <3>8
      <4>3. z = IF in_game THEN "game" ELSE "room"
        BY <1>0, <3>6
      <4>4. cpc'[x] = cpc[x] /\ my_id'[x] = my_id[x] /\ state'[x] # 0 /\ up'[x] = up[x]
        BY <1>0, <3>5
      <4> QED BY <3>2, <3>3, <3>7, <4>1, <4>2, <4>3, <4>4, HolderTold
    <3>9. CASE s \in N
      <4>1. ~Holds(x)
        <5> SUFFICES ASSUME NEW t \in Seats, Held(t), rused[t] = x PROVE FALSE
          BY DEF Holds
        <5>1. t \in I /\ players[t] = x
          BY <1>4
        <5>2. t = s
          BY <1>1, <1>5, <2>2, <5>1
        <5> QED BY <1>4, <3>9, <5>1, <5>2
      <4>2. ASSUME cpc[x] = "back" /\ (down[x] = <<>> \/ (up[x] = <<>> /\ state[x] = 1)) PROVE Patient(x)'
        <5>1. down[x] = <<>>
          BY <3>5, <4>2
        <5>2. <<>> \o e = e
          BY <3>2 DEF Sequence
        <5>3. down'[x] = e
          BY <3>3, <5>1, <5>2
        <5> QED BY <3>2, <5>3 DEF Patient
      <4>3. ASSUME NEW q \in Places, View(x, q)
            PROVE  \E y \in Places : Takes(q, e, Len(e), y) /\ View(x, y)'
        <5>1. q = "enter" /\ up[x] = <<>>
          BY <3>5, <4>1, <4>3 DEF View
        <5>2. Sevens(x)'
          BY <1>0, <5>1, SequenceShort DEF Sevens
        <5>3. Takes(q, e, Len(e), z)
          BY <3>2, <3>6, <3>9, <5>1
        <5> QED BY <3>7, <5>2, <5>3
      <4>4. cpc'[x] = cpc[x] /\ my_id'[x] = my_id[x] /\ state'[x] # 0 /\ up'[x] = up[x]
        BY <1>0, <3>5
      <4>5. Sequence(e) /\ Sequence(down[x]) /\ Sequence(up[x])
        BY <1>3, <3>2
      <4> QED BY <2>0, <3>3, <4>2, <4>3, <4>4, <4>5, Sent
    <3> QED BY <1>1, <3>8, <3>9
  <2> QED BY <2>1, <2>2
<1>13. NamesRight'
  <2> SUFFICES ASSUME NEW x \in Conns PROVE Claims(x)' => Claims(x)
    BY <1>0, NamesKept
  <2>1. CASE ~\E s \in M : players[s] = x
    <3>1. down'[x] = down[x]
      BY <1>9, <2>1
    <3> QED BY <1>0, <3>1 DEF Claims
  <2>2. ASSUME NEW s \in M, players[s] = x PROVE Claims(x)' => Claims(x)
    <3>1. PICK e : e = AdmitLines(s)
      OBVIOUS
    <3>2. Sequence(e) /\ \A k \in 1 .. Len(e) : e[k].op # "2"
      BY <1>4, <3>1, AdmitTold
    <3>3. down'[x] = down[x] \o e /\ Sequence(down[x]) /\ cpc'[x] = cpc[x]
      BY <1>0, <1>3, <1>8, <2>2, <3>1
    <3> QED BY <3>2, <3>3, ClaimsKept
  <2> QED BY <2>1, <2>2
<1> QED BY <1>10, <1>11, <1>12, <1>13 DEF IInv

-----------------------------------------------------------------------------
(* The theorems.                                                           *)

LEMMA InitIInv == Init => IInv
<1> SUFFICES ASSUME Init PROVE IInv
  OBVIOUS
<1>1. Sequence(<<>>) /\ Len(<<>>) = 0
  BY SequenceShort
<1>2. TalkTyped
  <2>1. FunctionOn(name, Conns) /\ FunctionOn(my_id, Conns) /\ FunctionOn(up, Conns) /\ FunctionOn(down, Conns)
    BY DEF Init, FunctionOn
  <2>2. \A c \in Conns : Sequence(up[c]) /\ Sequence(down[c])
    BY <1>1 DEF Init
  <2>3. /\ state \in [Conns -> 0 .. 2] /\ request \in [Conns -> {"none", "3", "4", "5"}]
        /\ players \in [Seats -> Conns \cup {None}] /\ rused \in [Seats -> Conns \cup {None}]
        /\ alive \subseteq Seats /\ used \in BOOLEAN /\ in_game \in BOOLEAN
    <3>1. state \in [Conns -> 0 .. 2]
      BY DEF Init
    <3>2. request \in [Conns -> {"none", "3", "4", "5"}]
      BY DEF Init
    <3>3. players \in [Seats -> Conns \cup {None}] /\ rused \in [Seats -> Conns \cup {None}]
      BY DEF Init
    <3>4. alive \subseteq Seats /\ used \in BOOLEAN /\ in_game \in BOOLEAN
      BY DEF Init
    <3> QED BY <3>1, <3>2, <3>3, <3>4
  <2>4. cpc \in [Conns -> Places]
    BY DEF Init, Places, Gone
  <2> QED BY <2>1, <2>2, <2>3, <2>4 DEF TalkTyped
<1>3. RoomRight
  BY DEF Init, RoomRight, Held
<1>4. \A c \in Conns : cpc[c] = "off"
  BY DEF Init
<1>5. AllInTouch
  BY <1>4 DEF AllInTouch, InTouch, Gone
<1>6. NamesRight
  BY <1>4 DEF NamesRight, Claims, LoggedIn
<1> QED BY <1>2, <1>3, <1>5, <1>6 DEF IInv

LEMMA StillIInv ==
  ASSUME IInv, UNCHANGED vars
  PROVE  IInv'
<1>0. UNCHANGED <<state, name, request, used, in_game, players, rused, alive, up, down, cpc, my_id>>
  BY DEF vars, conns, room, thread, wires, client
<1>1. TalkTyped'
  BY <1>0 DEF IInv, TalkTyped
<1>2. RoomRight'
  BY <1>0, HoldsSame DEF IInv, RoomRight
<1>3. AllInTouch'
  <2> SUFFICES ASSUME NEW c \in Conns PROVE InTouch(c)'
    BY DEF AllInTouch
  <2>1. InTouch(c)
    BY DEF IInv, AllInTouch
  <2> QED BY <1>0, <2>1, HoldsSame, Untouched
<1>4. NamesRight'
  BY <1>0, NamesKept DEF IInv, Claims
<1> QED BY <1>1, <1>2, <1>3, <1>4 DEF IInv

LEMMA NextIInv == IInv /\ [Next]_vars => IInv'
<1> SUFFICES ASSUME IInv, [Next]_vars PROVE IInv'
  OBVIOUS
<1>1. CASE Connect
  BY <1>1, ConnectKeeps
<1>2. CASE GameWon
  BY <1>2, GameWonKeeps
<1>3. CASE ServerStep
  <2>1. ASSUME NEW c \in Conns, MainRead(c) \/ Refuse(c) \/ Seat(c) PROVE IInv'
    BY <2>1, MainReadKeeps, RefuseKeeps, SeatKeeps
  <2>2. CASE Admit
    BY <2>2, AdmitKeeps
  <2>3. ASSUME NEW s \in Seats, RoomLeave(s) \/ RoomStart(s) PROVE IInv'
    BY <2>3, RoomLeaveKeeps, RoomStartKeeps
  <2>4. ASSUME NEW s \in Seats, GameRead(s) PROVE IInv'
    BY <2>4, GameWordKeeps, GameLeftKeeps, GameOverKeeps
  <2> QED BY <1>3, <2>1, <2>2, <2>3, <2>4 DEF ServerStep
<1>4. ASSUME NEW c \in Conns, Read(c) PROVE IInv'
  BY <1>4, ReadKeeps
<1>5. ASSUME NEW c \in Conns, ClientStep(c) PROVE IInv'
  <2>1. ASSUME NEW n \in Names, Login(c, n) PROVE IInv'
    BY <2>1, LoginKeeps
  <2>2. ASSUME NEW w \in {"3", "4", "5"}, AskRoom(c, w) PROVE IInv'
    BY <2>2, AskRoomKeeps
  <2>3. CASE LeaveRoom(c)
    <3>1. PICK w \in {"6", "8"} : w = "6"
      OBVIOUS
    <3>2. PICK q \in {"room", "game"} : q = "room"
      OBVIOUS
    <3>3. /\ cpc[c] = q /\ Send(c, <<Word(w), Request(c)>>) /\ cpc' = [cpc EXCEPT ![c] = "back"]
          /\ UNCHANGED <<clientFrame, down, my_id>>
      BY <2>3, <3>1, <3>2 DEF LeaveRoom
    <3> QED BY <3>3, LeaveKeeps
  <2>4. CASE GiveUp(c)
    <3>1. PICK w \in {"6", "8"} : w = "8"
      OBVIOUS
    <3>2. PICK q \in {"room", "game"} : q = "game"
      OBVIOUS
    <3>3. /\ cpc[c] = q /\ Send(c, <<Word(w), Request(c)>>) /\ cpc' = [cpc EXCEPT ![c] = "back"]
          /\ UNCHANGED <<clientFrame, down, my_id>>
      BY <2>4, <3>1, <3>2 DEF GiveUp
    <3> QED BY <3>3, LeaveKeeps
  <2>5. CASE StartGame(c) \/ Kill(c)
    BY <2>5, StartGameKeeps, KillKeeps
  <2> QED BY <1>5, <2>1, <2>2, <2>3, <2>4, <2>5 DEF ClientStep
<1>6. CASE UNCHANGED vars
  BY <1>6, StillIInv
<1> QED BY <1>1, <1>2, <1>3, <1>4, <1>5, <1>6 DEF Next

\* Who is logged in has the name that the server has for it, and HandleLogin()
\* gave nobody else that name.
LEMMA NamesFollow == IInv => NamesDiffer
BY DEF IInv, NamesRight, NamesDiffer, Claims

\* Two players who are logged in never have the same name, however logins,
\* tokens and ends of connections cross on their way (final_server.c:100-109,
\* 1332-1366).
THEOREM NamesStayDifferent == Spec => []NamesDiffer
<1>1. Init => IInv
  BY InitIInv
<1>2. IInv /\ [Next]_vars => IInv'
  BY NextIInv
<1>3. IInv => NamesDiffer
  BY NamesFollow
<1> QED BY <1>1, <1>2, <1>3, PTL DEF Spec

\* A client that reads a line it does not expect waited for an answer or had
\* the room's "19".
LEMMA PuzzledWhen ==
  ASSUME IInv, NEW c \in Conns, Read(c), cpc'[c] = "puzzled"
  PROVE  cpc[c] = "back" \/ Head(down[c]) = Word("19")
<1>0. /\ InTouch(c) /\ Sequence(down[c]) /\ down[c] # <<>> /\ cpc[c] \in Reading \cup {"back"}
      /\ cpc'[c] = Expects(c, Head(down[c]))
  <2>1. cpc \in [Conns -> Places]
    BY DEF IInv, TalkTyped
  <2>2. cpc'[c] = Expects(c, Head(down[c]))
    BY <2>1 DEF Read
  <2> QED BY <2>2 DEF IInv, AllInTouch, TalkTyped, Read, Reading
<1> SUFFICES ASSUME cpc[c] # "back" PROVE Head(down[c]) = Word("19")
  OBVIOUS
<1>1. PICK p, d : p = cpc[c] /\ d = down[c]
  OBVIOUS
<1>2. p \in Reading /\ After(p, Head(d)) = "puzzled" /\ Sequence(d) /\ d # <<>>
  BY <1>0, <1>1, ExpectsAfter
<1>3. Ahead(c)
  BY <1>0, <1>1, <1>2 DEF InTouch, Gone, Reading
<1>4. Head(d) = d[1]
  BY <1>2, SequenceTail
<1>5. CASE Doomed(p, d)
  BY <1>1, <1>2, <1>4, <1>5, DoomedFirst
<1>6. ASSUME NEW q \in Places, Takes(p, d, Len(d), q) PROVE FALSE
  BY <1>2, <1>6, TakesHead
<1> QED BY <1>1, <1>3, <1>5, <1>6 DEF Ahead

\* Client and server stay in step: a client gives up over a line only while it
\* waits for the answer to a request, or over the "19" that goto_room() does
\* not know (final_cli.c:60-70, 360-363; final_server.c:838).
THEOREM KeptInStep == Spec => InStep
<1> DEFINE Calm == \A c \in Conns :
             cpc[c] # "puzzled" /\ cpc'[c] = "puzzled" => cpc[c] = "back" \/ Head(down[c]) = Word("19")
<1>1. Init => IInv
  BY InitIInv
<1>2. IInv /\ [Next]_vars => IInv'
  BY NextIInv
<1>3. IInv /\ [Next]_vars => [Calm]_vars
  <2> SUFFICES ASSUME IInv, Next, NEW c \in Conns, cpc[c] # "puzzled", cpc'[c] = "puzzled"
               PROVE  cpc[c] = "back" \/ Head(down[c]) = Word("19")
    OBVIOUS
  <2>0. cpc \in [Conns -> Places] /\ cpc' # cpc
    BY DEF IInv, TalkTyped
  <2>1. ASSUME Connect PROVE FALSE
    <3>1. PICK d : d = Min(Free)
      OBVIOUS
    <3>2. cpc' = [cpc EXCEPT ![d] = "hello"]
      BY <2>1, <3>1 DEF Connect
    <3> QED BY <2>0, <3>2
  <2>2. ASSUME GameWon \/ ServerStep PROVE FALSE
    BY <2>0, <2>2 DEF GameWon, ServerStep, MainRead, Refuse, Seat, Admit, RoomLeave, RoomStart, GameRead, client
  <2>3. ASSUME NEW d \in Conns, Read(d) PROVE d = c
    <3>1. PICK x : cpc' = [cpc EXCEPT ![d] = x]
      BY <2>3 DEF Read
    <3> QED BY <2>0, <3>1
  <2>4. ASSUME NEW d \in Conns, ClientStep(d) PROVE FALSE
    <3>1. cpc' = cpc \/ \E x \in {"loginwait", "enter", "back", "off"} : cpc' = [cpc EXCEPT ![d] = x]
      BY <2>4 DEF ClientStep, Login, AskRoom, LeaveRoom, StartGame, GiveUp, Kill, client
    <3> QED BY <2>0, <3>1
  <2>5. Read(c)
    BY <2>1, <2>2, <2>3, <2>4 DEF Next
  <2> QED BY <2>5, PuzzledWhen
<1>4. [][Calm]_vars => InStep
  BY DEF InStep
<1> QED BY <1>1, <1>2, <1>3, <1>4, PTL DEF Spec

-----------------------------------------------------------------------------
(* What the lines on their way make of the room that a client shows.       *)

\* The room that a client named me shows after line l, if it showed v.
Told(me, v, l) ==
  [player |-> CASE l.op = "5" -> l.others \cup (IF me = l.who THEN {} ELSE {me})
                [] l.op = "6" -> v.player \cup {l.who}
                [] l.op \in {"7", "8"} -> v.player \ {l.who}
                [] OTHER -> v.player,
   master |-> IF l.op \in {"5", "8"} THEN l.who ELSE v.master]

\* The first n lines of d make w of v.
Shows(me, d, n, v, w) ==
  \E r : r[0] = v /\ r[n] = w /\ \A k \in 1 .. n : r[k] = Told(me, r[k - 1], d[k])

LEMMA ShowsNone == ASSUME NEW me, NEW d, NEW v PROVE Shows(me, d, 0, v, v)
<1> DEFINE r == [k \in 0 .. 0 |-> v]
<1>1. r[0] = v /\ 1 .. 0 = {}
  OBVIOUS
<1> HIDE DEF r
<1> QED BY <1>1 DEF Shows

\* Lines that follow go on from there.
LEMMA ShowsOn ==
  ASSUME NEW me, NEW d, NEW n \in Nat, NEW v, NEW w, Shows(me, d, n, v, w),
         NEW e, NEW m \in Nat, NEW x, Shows(me, e, m, w, x),
         NEW f, Follows(f, d, n, e, m), NEW l, l = n + m
  PROVE  Shows(me, f, l, v, x)
<1>1. PICK r : r[0] = v /\ r[n] = w /\ \A k \in 1 .. n : r[k] = Told(me, r[k - 1], d[k])
  BY DEF Shows
<1>2. PICK t : t[0] = w /\ t[m] = x /\ \A k \in 1 .. m : t[k] = Told(me, t[k - 1], e[k])
  BY DEF Shows
<1> DEFINE u == [k \in 0 .. n + m |-> IF k <= n THEN r[k] ELSE t[k - n]]
<1>3. \A k \in 0 .. n : u[k] = r[k]
  OBVIOUS
<1>4. \A k \in 0 .. m : u[n + k] = t[k]
  <2> TAKE k \in 0 .. m
  <2>1. CASE k = 0
    BY <1>1, <1>2, <2>1
  <2>2. CASE k # 0
    <3>1. n + k \in 0 .. n + m /\ ~(n + k <= n) /\ (n + k) - n = k
      BY <2>2
    <3> QED BY <3>1
  <2> QED BY <2>1, <2>2
<1> HIDE DEF u
<1>5. u[0] = v /\ u[n + m] = x
  BY <1>1, <1>2, <1>3, <1>4
<1>6. ASSUME NEW k \in 1 .. n + m PROVE u[k] = Told(me, u[k - 1], f[k])
  <2>1. CASE k <= n
    <3>1. k \in 1 .. n /\ k \in 0 .. n /\ k - 1 \in 0 .. n
      BY <2>1
    <3> QED BY <1>1, <1>3, <3>1 DEF Follows
  <2>2. CASE k > n
    <3>1. PICK j \in 1 .. m : k = n + j
      <4>1. k - n \in 1 .. m /\ k = n + (k - n)
        BY <2>2
      <4> QED BY <4>1
    <3>2. j \in 0 .. m /\ j - 1 \in 0 .. m /\ k - 1 = n + (j - 1)
      BY <3>1
    <3>3. u[k] = t[j] /\ u[k - 1] = t[j - 1]
      BY <1>4, <3>1, <3>2
    <3>4. f[k] = e[j]
      BY <3>1 DEF Follows
    <3> QED BY <1>2, <3>3, <3>4
  <2> QED BY <2>1, <2>2
<1> QED BY <1>5, <1>6 DEF Shows

LEMMA ShowsJoin ==
  ASSUME NEW me, NEW d, NEW e, Sequence(d), Sequence(e), NEW v, NEW w, NEW x,
         Shows(me, d, Len(d), v, w), Shows(me, e, Len(e), w, x)
  PROVE  Shows(me, d \o e, Len(d \o e), v, x)
<1>1. PICK f, n, m, l : f = d \o e /\ n = Len(d) /\ m = Len(e) /\ l = Len(f)
  OBVIOUS
<1>2. n \in Nat /\ m \in Nat /\ l = n + m /\ Follows(f, d, n, e, m)
  BY <1>1, SequenceLen, SequenceJoin DEF Follows
<1>3. Shows(me, f, l, v, x)
  BY <1>1, <1>2, ShowsOn
<1> QED BY <1>1, <1>3

\* The first line is read.
LEMMA ShowsHead ==
  ASSUME NEW me, NEW d, Sequence(d), d # <<>>, NEW v, NEW w, Shows(me, d, Len(d), v, w)
  PROVE  Shows(me, Tail(d), Len(Tail(d)), Told(me, v, Head(d)), w)
<1>1. PICK f, n : f = Tail(d) /\ n = Len(d)
  OBVIOUS
<1>2. /\ n \in Nat \ {0} /\ Len(f) = n - 1 /\ Head(d) = d[1]
      /\ \A k \in 1 .. n - 1 : f[k] = d[k + 1]
  BY <1>1, SequenceLen, SequenceTail
<1>3. PICK r : r[0] = v /\ r[n] = w /\ \A k \in 1 .. n : r[k] = Told(me, r[k - 1], d[k])
  BY <1>1 DEF Shows
<1> DEFINE u == [k \in 0 .. n - 1 |-> r[k + 1]]
<1>4. \A k \in 0 .. n - 1 : u[k] = r[k + 1]
  OBVIOUS
<1> HIDE DEF u
<1>5. u[0] = Told(me, v, d[1])
  <2>1. 0 \in 0 .. n - 1 /\ 1 \in 1 .. n /\ 0 + 1 = 1 /\ 1 - 1 = 0
    BY <1>2
  <2> QED BY <1>3, <1>4, <2>1
<1>6. u[n - 1] = w
  BY <1>2, <1>3, <1>4
<1>7. ASSUME NEW k \in 1 .. n - 1 PROVE u[k] = Told(me, u[k - 1], f[k])
  <2>1. k + 1 \in 1 .. n /\ k \in 0 .. n - 1 /\ k - 1 \in 0 .. n - 1 /\ (k - 1) + 1 = k /\ (k + 1) - 1 = k
    BY <1>2
  <2> QED BY <1>2, <1>3, <1>4, <2>1
<1>8. Shows(me, f, n - 1, Told(me, v, d[1]), w)
  BY <1>5, <1>6, <1>7 DEF Shows
<1> QED BY <1>1, <1>2, <1>8

LEMMA ShowsOne ==
  ASSUME NEW me, NEW l, NEW v
  PROVE  Shows(me, <<l>>, 1, v, Told(me, v, l))
<1> DEFINE r == [k \in 0 .. 1 |-> IF k = 0 THEN v ELSE Told(me, v, l)]
<1>1. r[0] = v /\ r[1] = Told(me, v, l) /\ \A k \in 1 .. 1 : k = 1 /\ k - 1 = 0
  OBVIOUS
<1>2. PICK d : d = <<l>>
  OBVIOUS
<1>3. d[1] = l
  BY <1>2
<1> HIDE DEF r
<1>4. Shows(me, d, 1, v, Told(me, v, l))
  BY <1>1, <1>3 DEF Shows
<1> QED BY <1>2, <1>4

\* Lines "6" add the names they carry.
LEMMA ShowsAll ==
  ASSUME NEW me, NEW J, NEW n \in Nat, NEW x, \A k \in 1 .. n : J[k] = Line("6", x[k]),
         NEW P, NEW o, NEW Q, Q = P \cup {x[k] : k \in 1 .. n}
  PROVE  Shows(me, J, n, [player |-> P, master |-> o], [player |-> Q, master |-> o])
<1> DEFINE r == [k \in 0 .. n |-> [player |-> P \cup {x[j] : j \in 1 .. k}, master |-> o]]
<1>1. r[0] = [player |-> P, master |-> o] /\ r[n] = [player |-> Q, master |-> o]
  <2>1. PICK A : A = P \cup {x[j] : j \in 1 .. 0}
    OBVIOUS
  <2>2. A = P
    BY <2>1
  <2>3. r[0] = [player |-> A, master |-> o] /\ r[n] = [player |-> Q, master |-> o]
    BY <2>1
  <2> QED BY <2>2, <2>3
<1>2. ASSUME NEW k \in 1 .. n PROVE r[k] = Told(me, r[k - 1], J[k])
  <2>1. J[k].op = "6" /\ J[k].who = x[k]
    BY Ops
  <2>2. PICK A, B : A = P \cup {x[j] : j \in 1 .. k - 1} /\ B = P \cup {x[j] : j \in 1 .. k}
    OBVIOUS
  <2>3. r[k - 1] = [player |-> A, master |-> o] /\ r[k] = [player |-> B, master |-> o]
    BY <2>2
  <2>4. B = A \cup {x[k]}
    <3>1. \A j : j \in 1 .. k <=> j \in 1 .. k - 1 \/ j = k
      OBVIOUS
    <3> QED BY <2>2, <3>1
  <2> HIDE DEF r
  <2>5. Told(me, r[k - 1], J[k]) = [player |-> A \cup {x[k]}, master |-> o]
    BY <2>1, <2>3 DEF Told
  <2> QED BY <2>3, <2>4, <2>5
<1> HIDE DEF r
<1> QED BY <1>1, <1>2 DEF Shows

\* Going through the seats S in order misses none of them.
Ordered(S) == \E n \in Nat : n = Cardinality(S) /\ {NthSeat(S, k) : k \in 1 .. n} = S

LEMMA SeatsInOrder ==
  ASSUME NEW S, S \subseteq Seats
  PROVE  Ordered(S)
<1>1. IsFiniteSet(S) /\ S \subseteq Nat
  <2>1. IsFiniteSet(Seats) /\ Seats \subseteq Nat
    BY TalkAssumption, FS_Interval DEF Seats
  <2> QED BY <2>1, FS_Subset
<1>2. PICK n \in Nat : n = Cardinality(S)
  BY <1>1, FS_CardinalityType
<1> DEFINE Below(t) == {u \in S : u < t}
           f == [t \in S |-> Cardinality(Below(t)) + 1]
<1>3. \A t \in S : IsFiniteSet(Below(t)) /\ Cardinality(Below(t)) \in Nat
  <2> TAKE t \in S
  <2>1. PICK B : B = Below(t)
    OBVIOUS
  <2>2. B \in SUBSET S
    BY <2>1
  <2>3. IsFiniteSet(B)
    BY <1>1, <2>2, FS_Subset
  <2> QED BY <2>1, <2>3, FS_CardinalityType
<1>4. ASSUME NEW t \in S PROVE Cardinality(Below(t)) < n
  <2>1. PICK B : B = Below(t)
    OBVIOUS
  <2>2. B \in SUBSET S /\ t \notin B
    BY <1>1, <2>1
  <2>3. Cardinality(B) <= n /\ Cardinality(B) # n
    BY <1>1, <1>2, <2>2, FS_Subset
  <2>4. Cardinality(B) \in Nat
    BY <1>3, <2>1
  <2> QED BY <2>1, <2>3, <2>4
<1>5. ASSUME NEW t \in S, NEW u \in S, u < t PROVE Cardinality(Below(u)) < Cardinality(Below(t))
  <2>1. PICK A, B : A = Below(u) /\ B = Below(t)
    OBVIOUS
  <2>2. A \in SUBSET B /\ u \in B /\ u \notin A
    <3>1. u \in Nat /\ t \in Nat /\ S \subseteq Nat
      BY <1>1
    <3>2. \A w \in Nat : w < u => w < t
      BY <1>5, <3>1
    <3>3. ~(u < u)
      BY <3>1
    <3>4. u < t
      BY <1>5
    <3> QED BY <2>1, <3>1, <3>2, <3>3, <3>4
  <2>3. IsFiniteSet(B) /\ Cardinality(A) \in Nat /\ Cardinality(B) \in Nat
    BY <1>3, <2>1
  <2>4. Cardinality(A) <= Cardinality(B) /\ Cardinality(A) # Cardinality(B)
    BY <2>2, <2>3, FS_Subset
  <2> QED BY <2>1, <2>3, <2>4
<1>6. \A t, u \in S : Cardinality(Below(t)) = Cardinality(Below(u)) => t = u
  <2> SUFFICES ASSUME NEW t \in S, NEW u \in S, t # u PROVE Cardinality(Below(t)) # Cardinality(Below(u))
    OBVIOUS
  <2>1. t < u \/ u < t
    BY <1>1
  <2>2. Cardinality(Below(t)) \in Nat /\ Cardinality(Below(u)) \in Nat
    BY <1>3
  <2> QED BY <1>5, <2>1, <2>2
<1>7. f \in Injection(S, 1 .. n)
  <2>1. ASSUME NEW t \in S PROVE Cardinality(Below(t)) + 1 \in 1 .. n
    <3>1. PICK m \in Nat : m = Cardinality(Below(t))
      BY <1>3
    <3>2. m < n
      BY <1>4, <3>1
    <3> QED BY <3>1, <3>2
  <2>2. f \in [S -> 1 .. n]
    BY <2>1
  <2>3. ASSUME NEW t \in S, NEW u \in S, f[t] = f[u] PROVE t = u
    <3>1. PICK a \in Nat, b \in Nat : a = Cardinality(Below(t)) /\ b = Cardinality(Below(u))
      BY <1>3
    <3>2. f[t] = a + 1 /\ f[u] = b + 1
      BY <3>1
    <3>3. a = b
      <4>1. a + 1 = b + 1
        <5> HIDE DEF f
        <5> QED BY <2>3, <3>2, Zenon
      <4> QED BY <4>1
    <3> QED BY <1>6, <3>1, <3>3
  <2> HIDE DEF f
  <2> QED BY <2>2, <2>3 DEF Injection, IsInjective
<1>8. f \in Surjection(S, 1 .. n)
  <2>1. IsFiniteSet(1 .. n) /\ Cardinality(1 .. n) = n
    BY FS_Interval
  <2> HIDE DEF f
  <2> QED BY <1>2, <1>7, <2>1, FS_Injection
<1>9. ASSUME NEW k \in 1 .. n PROVE NthSeat(S, k) \in S /\ Cardinality(Below(NthSeat(S, k))) = k - 1
  <2>1. PICK t \in S : f[t] = k
    <3> HIDE DEF f
    <3> QED BY <1>8 DEF Surjection
  <2>2. Cardinality(Below(t)) = k - 1
    <3>1. PICK a \in Nat : a = Cardinality(Below(t))
      BY <1>3
    <3>2. a + 1 = k
      BY <2>1, <3>1
    <3> QED BY <3>1, <3>2
  <2> QED BY <2>2 DEF NthSeat
<1>10. ASSUME NEW t \in S PROVE \E k \in 1 .. n : NthSeat(S, k) = t
  <2>1. PICK m \in Nat : m = Cardinality(Below(t))
    BY <1>3
  <2>2. PICK k \in 1 .. n : k - 1 = m
    <3>1. m < n
      BY <1>4, <2>1
    <3>2. m + 1 \in 1 .. n /\ (m + 1) - 1 = m
      BY <3>1
    <3> QED BY <3>2
  <2>3. PICK u : u = NthSeat(S, k)
    OBVIOUS
  <2>4. u \in S /\ Cardinality(Below(u)) = m
    BY <1>9, <2>2, <2>3
  <2>5. u = t
    BY <1>6, <2>1, <2>4
  <2> QED BY <2>3, <2>5
<1> QED BY <1>2, <1>9, <1>10 DEF Ordered

\* What is told of the newcomers: one line for each.
LEMMA JoinLinesTell ==
  ASSUME NEW s \in Seats, NEW T, T = {t \in Newcomers : s \in Newcomers => t > s}, NEW me, NEW P, NEW o
  PROVE  Shows(me, JoinLines(s), Len(JoinLines(s)), [player |-> P, master |-> o],
               [player |-> P \cup {NameOf(players[t]) : t \in T}, master |-> o])
<1>1. T \subseteq Seats
  BY DEF Newcomers, Taking
<1>2. PICK n \in Nat : n = Cardinality(T) /\ {NthSeat(T, k) : k \in 1 .. n} = T
  <2>1. Ordered(T)
    BY <1>1, SeatsInOrder
  <2> QED BY <2>1 DEF Ordered
<1>3. PICK g : g = [k \in 1 .. n |-> NthSeat(T, k)]
  OBVIOUS
<1>4. PICK x : x = [k \in 1 .. n |-> NameOf(players[g[k]])]
  OBVIOUS
<1>5. PICK J : J = JoinLines(s)
  OBVIOUS
<1>6. J = [k \in 1 .. n |-> Line("6", NameOf(players[NthSeat(T, k)]))]
  BY <1>2, <1>5 DEF JoinLines
<1>7. \A k \in 1 .. n : J[k] = Line("6", x[k])
  BY <1>3, <1>4, <1>6
<1>8. Len(J) = n
  BY <1>6
<1>9. {g[k] : k \in 1 .. n} = T
  BY <1>2, <1>3
<1>10. {x[k] : k \in 1 .. n} = {NameOf(players[t]) : t \in T}
  <2>1. \A k \in 1 .. n : x[k] = NameOf(players[g[k]])
    BY <1>4
  <2> QED BY <1>9, <2>1
<1>11. PICK Q : Q = P \cup {NameOf(players[t]) : t \in T}
  OBVIOUS
<1>12. Q = P \cup {x[k] : k \in 1 .. n}
  BY <1>10, <1>11
<1>13. Shows(me, J, n, [player |-> P, master |-> o], [player |-> Q, master |-> o])
  BY <1>7, <1>12, ShowsAll
<1> QED BY <1>5, <1>8, <1>11, <1>13

-----------------------------------------------------------------------------
(* The invariant for what a client shows.                                  *)

\* Lines u from a client named me carry its name, and only one that is gone
\* has ended its lines.
Signed(u, me, gone) ==
  \A k \in 1 .. Len(u) : /\ u[k].op \in {"2", "token"} => u[k].who = me
                         /\ u[k].op = "eof" => k = Len(u) /\ gone

\* Among u is a line that only a player who is logged in sends.
Privileged(u) == \E k \in 1 .. Len(u) : u[k].op \in {"3", "4", "5", "token"}

SignedRight == \A c \in Conns : /\ Signed(up[c], my_id[c], cpc[c] \in Gone)
                                /\ state[c] = 0 => up[c] = <<>>

\* The server counts on the name it has for c, whether c is still there or not.
Known(c) == Claims(c) \/ state[c] = 2 \/ Privileged(up[c])
KnownRight ==
  /\ \A c \in Conns : Known(c) => name[c] = my_id[c]
  /\ \A c, d \in Conns : c # d /\ Known(c) /\ Known(d) => name[c] # name[d]

\* The room is open to who is let in, and has an owner.
Going == used /\ ~in_game /\ ~heirless
OwnerRight ==
  /\ owner \in Seats
  /\ Going => rused[owner] # None \/ (Inside = {} /\ owner = 0 /\ players[0] # None)

\* What the room thread has, what client c shows, and that c will show what the
\* room thread has when it has read all lines.
RoomView == [player |-> {NameOf(rused[s]) : s \in Inside \ {owner}}, master |-> NameOf(rused[owner])]
OwnView(c) == [player |-> player[c], master |-> master[c]]
Shown(c) == Shows(my_id[c], down[c], Len(down[c]), OwnView(c), RoomView)

\* c looks at the room, or is about to, and no line is on its way that puzzles it.
Watching(c) == cpc[c] \in {"enter", "room"} /\ ~Doomed(cpc[c], down[c])
AllShown == Going => \A s \in Seats : rused[s] # None /\ Watching(rused[s]) => Shown(rused[s])

ShownTyped == FunctionOn(player, Conns) /\ FunctionOn(master, Conns)

RoomInv == IInv /\ ShownTyped /\ SignedRight /\ KnownRight /\ OwnerRight /\ AllShown

\* At rest in the room, the client shows what the room thread has.
LEMMA RoomFollows == RoomInv => RoomsAgree
<1> SUFFICES ASSUME RoomInv, NEW c \in Conns, cpc[c] = "room", Quiet(c), ~heirless
             PROVE  /\ master[c] = NameOf(rused[owner])
                    /\ player[c] = {NameOf(rused[s]) : s \in Inside \ {owner}}
  BY DEF RoomsAgree
<1>1. down[c] = <<>> /\ Len(down[c]) = 0 /\ InTouch(c) /\ Sequence(down[c]) /\ TalkTyped /\ AllShown
  BY SequenceShort DEF Quiet, RoomInv, IInv, AllInTouch, TalkTyped
<1>d. ~Doomed(cpc[c], down[c])
  BY <1>1, DoomedFirst
<1>2. Holds(c) /\ ~in_game
  <2>1. Ahead(c)
    BY <1>1 DEF InTouch, Gone
  <2>2. ~Doomed(cpc[c], down[c])
    BY <1>d
  <2>3. PICK q \in Places : Takes(cpc[c], down[c], Len(down[c]), q) /\ View(c, q)
    BY <2>1, <2>2 DEF Ahead
  <2>4. PICK p : p = cpc[c]
    OBVIOUS
  <2>5. Takes(p, down[c], 0, q) /\ 0 \in Nat
    BY <1>1, <2>3, <2>4
  <2>6. p = q
    BY <2>5, TakesPlaces
  <2> QED BY <2>3, <2>4, <2>6 DEF View
<1>3. PICK s \in Seats : used /\ rused[s] = c /\ rused[s] # None
  BY <1>2 DEF Holds, Held
<1>4. Shown(c)
  <2>1. Watching(c)
    BY <1>d DEF Watching
  <2> QED BY <1>1, <1>2, <1>3, <2>1 DEF AllShown, Going
<1>5. Shows(my_id[c], down[c], 0, OwnView(c), RoomView)
  BY <1>1, <1>4 DEF Shown
<1>6. OwnView(c) = RoomView
  BY <1>5 DEF Shows
<1>7. OwnView(c).player = RoomView.player /\ OwnView(c).master = RoomView.master
  BY <1>6
<1> QED BY <1>7 DEF OwnView, RoomView

-----------------------------------------------------------------------------
(* Lines from a client, one by one.                                        *)

LEMMA SignedTail ==
  ASSUME NEW u, Sequence(u), u # <<>>, NEW me, NEW gone, Signed(u, me, gone)
  PROVE  /\ Signed(Tail(u), me, gone) /\ (Privileged(Tail(u)) => Privileged(u))
         /\ Head(u).op = "eof" => Tail(u) = <<>> /\ gone
         /\ Head(u).op \in {"3", "4", "5", "token"} => Privileged(u)
         /\ Head(u).op \in {"2", "token"} => Head(u).who = me
<1>1. PICK t, n : t = Tail(u) /\ n = Len(u)
  OBVIOUS
<1>2. /\ n \in Nat \ {0} /\ Len(t) = n - 1 /\ Head(u) = u[1] /\ Sequence(t)
      /\ \A k \in 1 .. n - 1 : t[k] = u[k + 1]
  BY <1>1, SequenceLen, SequenceTail
<1>3. /\ \A k \in 1 .. n - 1 : k + 1 \in 1 .. n /\ (k + 1 = n => k = n - 1)
      /\ 1 \in 1 .. n /\ (1 = n => n - 1 = 0)
  BY <1>2
<1>4. \A k \in 1 .. n : /\ u[k].op \in {"2", "token"} => u[k].who = me
                        /\ u[k].op = "eof" => k = n /\ gone
  BY <1>1 DEF Signed
<1>5. Signed(t, me, gone)
  <2>1. \A k \in 1 .. n - 1 : /\ t[k].op \in {"2", "token"} => t[k].who = me
                              /\ t[k].op = "eof" => k = n - 1 /\ gone
    BY <1>2, <1>3, <1>4
  <2> QED BY <1>2, <2>1 DEF Signed
<1>6. Privileged(t) => Privileged(u)
  BY <1>1, <1>2, <1>3 DEF Privileged
<1>7. Head(u).op = "eof" => Tail(u) = <<>> /\ gone
  <2>1. u[1].op = "eof" => n - 1 = 0 /\ gone
    BY <1>3, <1>4
  <2>2. Len(t) = 0 => t = <<>>
    BY <1>2, SequenceLen
  <2> QED BY <1>1, <1>2, <2>1, <2>2
<1>8. Head(u).op \in {"3", "4", "5", "token"} => Privileged(u)
  BY <1>1, <1>2, <1>3 DEF Privileged
<1> QED BY <1>1, <1>2, <1>3, <1>4, <1>5, <1>6, <1>7, <1>8

LEMMA SignedJoin ==
  ASSUME NEW u, NEW e, Sequence(u), Sequence(e), NEW me, NEW gone, Signed(u, me, FALSE), Signed(e, me, gone)
  PROVE  Signed(u \o e, me, gone) /\ (Privileged(u \o e) => Privileged(u) \/ Privileged(e))
<1>1. PICK f, n, m : f = u \o e /\ n = Len(u) /\ m = Len(e)
  OBVIOUS
<1>2. /\ n \in Nat /\ m \in Nat /\ Len(f) = n + m
      /\ \A k \in 1 .. n : f[k] = u[k]
      /\ \A k \in 1 .. m : f[n + k] = e[k]
  BY <1>1, SequenceLen, SequenceJoin
<1>3. ASSUME NEW k \in 1 .. n + m PROVE k \in 1 .. n \/ \E j \in 1 .. m : k = n + j
  <2>1. k <= n \/ k - n \in 1 .. m
    BY <1>2
  <2>2. k = n + (k - n)
    BY <1>2
  <2> QED BY <1>2, <2>1, <2>2
<1>4. ASSUME NEW k \in 1 .. n + m
      PROVE  /\ f[k].op \in {"2", "token"} => f[k].who = me
             /\ f[k].op = "eof" => k = n + m /\ gone
             /\ f[k].op \in {"3", "4", "5", "token"} => Privileged(u) \/ Privileged(e)
  <2>1. CASE k \in 1 .. n
    <3>1. f[k] = u[k]
      BY <1>2, <2>1
    <3> QED BY <1>1, <2>1, <3>1 DEF Signed, Privileged
  <2>2. ASSUME NEW j \in 1 .. m, k = n + j
        PROVE  /\ f[k].op \in {"2", "token"} => f[k].who = me
               /\ f[k].op = "eof" => k = n + m /\ gone
               /\ f[k].op \in {"3", "4", "5", "token"} => Privileged(u) \/ Privileged(e)
    <3>1. f[k] = e[j]
      BY <1>2, <2>2
    <3>2. /\ e[j].op \in {"2", "token"} => e[j].who = me
          /\ e[j].op = "eof" => j = m /\ gone
          /\ e[j].op \in {"3", "4", "5", "token"} => Privileged(e)
      BY <1>1 DEF Signed, Privileged
    <3> QED BY <2>2, <3>1, <3>2
  <2> QED BY <1>3, <2>1, <2>2
<1>5. Signed(f, me, gone)
  BY <1>2, <1>4 DEF Signed
<1>6. Privileged(f) => Privileged(u) \/ Privileged(e)
  BY <1>2, <1>4 DEF Privileged
<1> QED BY <1>1, <1>5, <1>6

\* The lines that clients send.
LEMMA SignedShort ==
  ASSUME NEW w, NEW me, NEW a
  PROVE  /\ Signed(<<>>, me, a) /\ ~Privileged(<<>>)
         /\ w \notin {"2", "token", "eof"} => /\ Signed(<<Word(w)>>, me, a)
                                             /\ Signed(<<Word(w), Line("token", me)>>, me, a)
         /\ w \notin {"3", "4", "5", "token"} => ~Privileged(<<Word(w)>>) /\ ~Privileged(<<Line(w, me)>>)
         /\ Signed(<<Line("token", me)>>, me, a) /\ Signed(<<Line("2", me)>>, me, a)
         /\ Signed(<<EOF>>, me, TRUE) /\ ~Privileged(<<EOF>>)
<1>1. \A k \in 1 .. 1 : k = 1
  OBVIOUS
<1>2. \A k \in 1 .. 2 : k = 1 \/ k = 2
  OBVIOUS
<1>3. Signed(<<>>, me, a) /\ ~Privileged(<<>>)
  BY DEF Signed, Privileged
<1>4. ASSUME NEW l, l.op \in {"2", "token"} => l.who = me, NEW g, l.op = "eof" => g
      PROVE  Signed(<<l>>, me, g) /\ (l.op \notin {"3", "4", "5", "token"} => ~Privileged(<<l>>))
  <2>1. PICK u : u = <<l>>
    OBVIOUS
  <2>2. Len(u) = 1 /\ u[1] = l
    BY <2>1
  <2>3. Signed(u, me, g)
    BY <1>1, <1>4, <2>2 DEF Signed
  <2>4. l.op \notin {"3", "4", "5", "token"} => ~Privileged(u)
    BY <1>1, <2>2 DEF Privileged
  <2> QED BY <2>1, <2>3, <2>4
<1>5. ASSUME w \notin {"2", "token", "eof"} PROVE Signed(<<Word(w), Line("token", me)>>, me, a)
  <2>1. PICK u : u = <<Word(w), Line("token", me)>>
    OBVIOUS
  <2>2. Len(u) = 2 /\ u[1].op = w /\ u[2].op = "token" /\ u[2].who = me
    BY <2>1, Ops
  <2>3. Signed(u, me, a)
    BY <1>2, <1>5, <2>2 DEF Signed
  <2> QED BY <2>1, <2>3
<1>6. w \notin {"2", "token", "eof"} => Signed(<<Word(w)>>, me, a)
  BY <1>4, Ops
<1>7. w \notin {"3", "4", "5", "token"} => ~Privileged(<<Word(w)>>)
  <2>1. PICK l : l = Word(w)
    OBVIOUS
  <2>2. l.op = w
    BY <2>1, Ops
  <2>3. PICK u : u = <<l>>
    OBVIOUS
  <2>4. Len(u) = 1 /\ u[1] = l
    BY <2>3
  <2> QED BY <1>1, <2>1, <2>2, <2>3, <2>4 DEF Privileged
<1>8. w \notin {"3", "4", "5", "token"} => ~Privileged(<<Line(w, me)>>)
  <2>1. PICK l : l = Line(w, me)
    OBVIOUS
  <2>2. l.op = w
    BY <2>1, Ops
  <2>3. PICK u : u = <<l>>
    OBVIOUS
  <2>4. Len(u) = 1 /\ u[1] = l
    BY <2>3
  <2> QED BY <1>1, <2>1, <2>2, <2>3, <2>4 DEF Privileged
<1>9. Signed(<<Line("token", me)>>, me, a) /\ Signed(<<Line("2", me)>>, me, a)
  BY <1>4, Ops
<1>10. Signed(<<EOF>>, me, TRUE) /\ ~Privileged(<<EOF>>)
  <2>1. PICK u : u = <<EOF>>
    OBVIOUS
  <2>2. Len(u) = 1 /\ u[1].op = "eof"
    BY <2>1, Ops DEF EOF
  <2>3. Signed(u, me, TRUE) /\ ~Privileged(u)
    BY <1>1, <2>2 DEF Signed, Privileged
  <2> QED BY <2>1, <2>3
<1> QED BY <1>3, <1>5, <1>6, <1>7, <1>8, <1>9, <1>10

\* Who is known has a connection in use.
LEMMA KnownInUse ==
  ASSUME IInv, SignedRight, NEW c \in Conns, Known(c)
  PROVE  state[c] # 0
<1>1. CASE Claims(c)
  <2>1. cpc[c] \notin Gone
    BY <1>1 DEF Claims, LoggedIn, Gone
  <2> QED BY <2>1 DEF IInv, AllInTouch, InTouch
<1>2. CASE state[c] = 2
  BY <1>2
<1>3. CASE Privileged(up[c])
  <2>1. up[c] # <<>>
    BY <1>3, SequenceShort DEF Privileged
  <2> QED BY <2>1 DEF SignedRight
<1> QED BY <1>1, <1>2, <1>3 DEF Known

LEMMA KnownKept ==
  ASSUME KnownRight,
         \A c \in Conns : Known(c)' => Known(c) /\ name'[c] = name[c] /\ my_id'[c] = my_id[c]
  PROVE  KnownRight'
BY DEF KnownRight

\* Client c sends lines u, which it may send.
LEMMA WiresSend ==
  ASSUME IInv, SignedRight, KnownRight, NEW c \in Conns, NEW u, Sequence(u), cpc[c] \notin Gone,
         UNCHANGED <<state, name, my_id>>, up'[c] = up[c] \o u,
         \A d \in Conns \ {c} : up'[d] = up[d] /\ cpc'[d] = cpc[d] /\ down'[d] = down[d],
         Signed(u, my_id[c], cpc'[c] \in Gone), Privileged(u) => Claims(c), Claims(c)' => Claims(c)
  PROVE  SignedRight' /\ KnownRight'
<1>1. Sequence(up[c]) /\ state[c] # 0
  BY DEF IInv, TalkTyped, AllInTouch, InTouch
<1>2. Signed(up[c], my_id[c], FALSE)
  BY DEF SignedRight, Signed
<1>3. /\ Signed(up'[c], my_id[c], cpc'[c] \in Gone)
      /\ Privileged(up'[c]) => Privileged(up[c]) \/ Privileged(u)
  <2>1. PICK v, me, gone : v = up[c] /\ me = my_id[c] /\ gone = (cpc'[c] \in Gone)
    OBVIOUS
  <2>2. Sequence(v) /\ Signed(v, me, FALSE) /\ Signed(u, me, gone)
    BY <1>1, <1>2, <2>1
  <2>3. Signed(v \o u, me, gone) /\ (Privileged(v \o u) => Privileged(v) \/ Privileged(u))
    BY <2>2, SignedJoin
  <2> QED BY <2>1, <2>3
<1>4. SignedRight'
  <2> SUFFICES ASSUME NEW d \in Conns
               PROVE  /\ Signed(up'[d], my_id'[d], cpc'[d] \in Gone) /\ (state'[d] = 0 => up'[d] = <<>>)
    BY DEF SignedRight
  <2>1. CASE d = c
    BY <1>1, <1>3, <2>1
  <2>2. CASE d # c
    BY <2>2 DEF SignedRight
  <2> QED BY <2>1, <2>2
<1>5. KnownRight'
  <2> SUFFICES ASSUME NEW d \in Conns PROVE Known(d)' => Known(d)
    BY KnownKept
  <2>1. CASE d = c
    BY <1>3, <2>1 DEF Known
  <2>2. CASE d # c
    BY <2>2 DEF Known, Claims
  <2> QED BY <2>1, <2>2
<1> QED BY <1>4, <1>5

\* Nothing happens to what client c shows or to the lines on their way to it.
Still(c) ==
  /\ my_id'[c] = my_id[c] /\ down'[c] = down[c] /\ player'[c] = player[c] /\ master'[c] = master[c]
  /\ cpc'[c] \in {"enter", "room"} => cpc'[c] = cpc[c]

\* The room thread has what it had.
LEMMA SameView ==
  ASSUME UNCHANGED <<rused, owner>>, \A s \in Seats : rused[s] # None => name'[rused[s]] = name[rused[s]],
         owner \in Seats
  PROVE  RoomView' = RoomView
<1>1. Inside' = Inside /\ Inside \subseteq Seats
  BY DEF Inside
<1>2. \A s \in Seats : NameOf(rused[s])' = NameOf(rused[s])
  BY DEF NameOf
<1> QED BY <1>1, <1>2 DEF RoomView

\* A step that leaves the room alone.
LEMMA RoomLeft ==
  ASSUME IInv, OwnerRight, AllShown, UNCHANGED <<used, in_game, players, rused, owner, heirless>>,
         \A s \in Seats : Held(s) => name'[rused[s]] = name[rused[s]],
         \A s \in Seats : Held(s) => \/ Still(rused[s])
                                     \/ Going /\ Watching(rused[s])' => Shown(rused[s])'
  PROVE  OwnerRight' /\ AllShown'
<1>1. OwnerRight'
  BY DEF OwnerRight, Going, Inside
<1>2. Going => RoomView' = RoomView
  BY SameView DEF OwnerRight, Held, Going
<1>3. ASSUME Going, NEW s \in Seats, rused[s] # None, Watching(rused[s])'
      PROVE  Shown(rused[s])'
  <2>1. Held(s)
    BY <1>3 DEF Held, Going
  <2>2. CASE Still(rused[s])
    <3>1. Shown(rused[s])
      <4>1. Watching(rused[s])
        BY <1>3, <2>2 DEF Watching, Still
      <4> QED BY <1>3, <4>1 DEF AllShown
    <3>2. PICK c : c = rused[s]
      OBVIOUS
    <3>3. OwnView(c)' = OwnView(c)
      BY <2>2, <3>2 DEF OwnView, Still
    <3>4. Shown(c)'
      BY <1>2, <1>3, <2>2, <3>1, <3>2, <3>3 DEF Shown, Still
    <3> QED BY <3>2, <3>4
  <2> QED BY <1>3, <2>1, <2>2
<1>4. AllShown'
  BY <1>3 DEF AllShown, Going
<1> QED BY <1>1, <1>4

\* Client c sends lines u and goes on to p; it shows what it did.
LEMMA SendsRoom ==
  ASSUME RoomInv, IInv', NEW c \in Conns, NEW p \in Places, NEW u, Sequence(u), cpc[c] \notin Gone,
         UNCHANGED <<clientFrame, down, my_id, master, player>>,
         Changed(cpc', cpc, c, p), Changed(up', up, c, up[c] \o u),
         Signed(u, my_id[c], p \in Gone), Privileged(u) => Claims(c), p \in LoggedIn => cpc[c] \in LoggedIn,
         p # "loginwait", p = "enter" => ~Holds(c), p = "room" => cpc[c] = "room"
  PROVE  RoomInv'
<1>0. /\ IInv /\ ShownTyped /\ SignedRight /\ KnownRight /\ OwnerRight /\ AllShown
      /\ UNCHANGED <<state, name, used, in_game, players, rused, owner, heirless>>
  BY DEF RoomInv, clientFrame, conns, room, thread
<1>1. /\ cpc'[c] = p /\ up'[c] = up[c] \o u
      /\ \A d \in Conns \ {c} : cpc'[d] = cpc[d] /\ up'[d] = up[d]
  BY <1>0, OneClient
<1>2. SignedRight' /\ KnownRight'
  <2>1. Claims(c)' => Claims(c)
    BY <1>1 DEF Claims
  <2> QED BY <1>0, <1>1, <2>1, WiresSend
<1>3. OwnerRight' /\ AllShown'
  <2> SUFFICES ASSUME NEW s \in Seats, Held(s) PROVE Still(rused[s])
    BY <1>0, RoomLeft
  <2>1. rused[s] \in Conns /\ (rused[s] = c => Holds(c))
    BY <1>0 DEF IInv, TalkTyped, Held, Holds
  <2> QED BY <1>1, <2>1 DEF Still
<1>4. ShownTyped'
  BY <1>0 DEF ShownTyped
<1> QED BY <1>2, <1>3, <1>4 DEF RoomInv

\* The steps of a client that only send.
LEMMA ClientRoom ==
  ASSUME RoomInv, IInv', NEW c \in Conns,
         (\E w \in {"3", "4", "5"} : AskRoom(c, w)) \/ LeaveRoom(c) \/ StartGame(c) \/ GiveUp(c) \/ Kill(c)
  PROVE  RoomInv'
<1>0. IInv /\ TalkTyped /\ InTouch(c) /\ RoomRight /\ cpc \in [Conns -> Places]
  BY DEF RoomInv, IInv, AllInTouch, TalkTyped
<1>p. {"enter", "back", "room", "off"} \subseteq Places
  BY DEF Places, Gone, Reading
<1>1. ASSUME NEW w \in {"3", "4", "5"}, AskRoom(c, w) PROVE RoomInv'
  <2>1. PICK p \in Places : p = "enter"
    BY <1>p
  <2>2. PICK u : u = <<Word(w)>>
    OBVIOUS
  <2>3. Sequence(u) /\ Signed(u, my_id[c], p \in Gone)
    BY <2>2, SequenceShort, SignedShort
  <2>4. cpc[c] = "lobby" /\ ~Holds(c)
    <3>1. cpc[c] = "lobby"
      BY <1>1 DEF AskRoom
    <3>2. state[c] = 1
      BY <1>0, <3>1, AtRest
    <3> QED BY <1>0, <3>1, <3>2 DEF Holds, RoomRight
  <2>5. Changed(cpc', cpc, c, p) /\ Changed(up', up, c, up[c] \o u)
    BY <1>1, <2>1, <2>2 DEF AskRoom, Send, Changed
  <2>6. UNCHANGED <<clientFrame, down, my_id, master, player>>
    BY <1>1 DEF AskRoom
  <2>7. /\ cpc[c] \notin Gone /\ Claims(c) /\ (p \in LoggedIn => cpc[c] \in LoggedIn)
        /\ p # "loginwait" /\ p # "room"
    BY <2>1, <2>4 DEF Gone, Claims, LoggedIn
  <2> QED BY <2>3, <2>4, <2>5, <2>6, <2>7, SendsRoom
<1>2. ASSUME NEW w \in {"6", "8"}, NEW q \in {"room", "game"}, cpc[c] = q,
             Send(c, <<Word(w), Request(c)>>), cpc' = [cpc EXCEPT ![c] = "back"],
             UNCHANGED <<clientFrame, down, my_id, master, player>>
      PROVE  RoomInv'
  <2>1. PICK p \in Places : p = "back"
    BY <1>p
  <2>2. PICK u : u = <<Word(w), Line("token", my_id[c])>>
    OBVIOUS
  <2>3. Sequence(u) /\ Signed(u, my_id[c], p \in Gone)
    BY <2>2, SequenceShort, SignedShort
  <2>5. Changed(cpc', cpc, c, p) /\ Changed(up', up, c, up[c] \o u)
    BY <1>2, <2>1, <2>2 DEF Request, Send, Changed
  <2>7. /\ cpc[c] \notin Gone /\ Claims(c) /\ (p \in LoggedIn => cpc[c] \in LoggedIn)
        /\ p # "loginwait" /\ p # "room" /\ p # "enter"
    BY <1>2, <2>1 DEF Gone, Claims, LoggedIn
  <2> QED BY <1>2, <2>3, <2>5, <2>7, SendsRoom
<1>3. CASE LeaveRoom(c)
  BY <1>2, <1>3 DEF LeaveRoom
<1>4. CASE GiveUp(c)
  BY <1>2, <1>4 DEF GiveUp
<1>5. CASE StartGame(c)
  <2>1. PICK p \in Places : p = "room"
    BY <1>p
  <2>2. PICK u : u = <<Word("7")>>
    OBVIOUS
  <2>3. Sequence(u) /\ Signed(u, my_id[c], p \in Gone) /\ ~Privileged(u)
    <3>1. PICK w : w = "7"
      OBVIOUS
    <3> QED BY <2>2, <3>1, SequenceShort, SignedShort
  <2>4. cpc[c] = "room"
    BY <1>5 DEF StartGame
  <2>5. Changed(cpc', cpc, c, p) /\ Changed(up', up, c, up[c] \o u)
    <3>1. Changed(cpc', cpc, c, p)
      BY <1>0, <1>5, <2>1, <2>4 DEF StartGame, client, Changed
    <3> QED BY <1>5, <2>2, <3>1 DEF StartGame, Send, Changed
  <2>6. UNCHANGED <<clientFrame, down, my_id, master, player>>
    BY <1>5 DEF StartGame, client
  <2>7. /\ cpc[c] \notin Gone /\ (p \in LoggedIn => cpc[c] \in LoggedIn)
        /\ p # "loginwait" /\ p # "enter"
    BY <2>1, <2>4 DEF Gone, LoggedIn
  <2> QED BY <2>3, <2>4, <2>5, <2>6, <2>7, SendsRoom
<1>6. CASE Kill(c)
  <2>1. PICK p \in Places : p = "off"
    BY <1>p
  <2>2. PICK u : u = <<EOF>>
    OBVIOUS
  <2>3. Sequence(u) /\ Signed(u, my_id[c], p \in Gone) /\ ~Privileged(u)
    <3>1. Sequence(u) /\ Signed(u, my_id[c], TRUE) /\ ~Privileged(u)
      BY <2>2, SequenceShort, SignedShort
    <3> QED BY <2>1, <3>1 DEF Gone, Signed
  <2>5. Changed(cpc', cpc, c, p) /\ Changed(up', up, c, up[c] \o u)
    BY <1>6, <2>1, <2>2 DEF Kill, Send, Changed
  <2>6. UNCHANGED <<clientFrame, down, my_id, master, player>>
    BY <1>6 DEF Kill
  <2>7. /\ cpc[c] \notin Gone /\ p \notin LoggedIn
        /\ p # "loginwait" /\ p # "enter" /\ p # "room"
    BY <1>6, <2>1 DEF Kill, Gone, LoggedIn
  <2> QED BY <2>3, <2>5, <2>6, <2>7, SendsRoom
<1> QED BY <1>1, <1>3, <1>4, <1>5, <1>6

\* A name is typed, a client connects: it is not known, and in no seat.
LEMMA LoginRoom ==
  ASSUME RoomInv, IInv', NEW c \in Conns, NEW n \in Names, Login(c, n)
  PROVE  RoomInv'
<1>0. /\ IInv /\ TalkTyped /\ RoomRight /\ InTouch(c) /\ ShownTyped /\ SignedRight /\ KnownRight /\ OwnerRight
      /\ AllShown /\ cpc[c] = "login" /\ FunctionOn(my_id, Conns) /\ FunctionOn(up, Conns)
      /\ cpc \in [Conns -> Places]
      /\ UNCHANGED <<state, name, used, in_game, players, rused, owner, heirless, down, master, player>>
  BY DEF RoomInv, IInv, AllInTouch, TalkTyped, Login, clientFrame, conns, room, thread
<1>1. down[c] = <<>> /\ up[c] = <<>> /\ state[c] = 1
  BY <1>0, AtRest
<1>2. PICK u : u = <<Line("2", n)>>
  OBVIOUS
<1>3. Sequence(u) /\ \A gone : Signed(u, n, gone) /\ ~Privileged(u)
  <2>1. PICK w : w = "2"
    OBVIOUS
  <2> QED BY <1>2, <2>1, SequenceShort, SignedShort
<1>4. /\ my_id'[c] = n /\ cpc'[c] = "loginwait" /\ up'[c] = u
      /\ \A d \in Conns : d # c => my_id'[d] = my_id[d] /\ cpc'[d] = cpc[d] /\ up'[d] = up[d]
  <2>1. Changed(my_id', my_id, c, n) /\ Changed(up', up, c, up[c] \o u)
    BY <1>2 DEF Login, Send, Changed
  <2>2. my_id'[c] = n /\ \A d \in Conns : d # c => my_id'[d] = my_id[d]
    BY <1>0, <2>1, FunctionExcept
  <2>3. PICK v : v = up[c] \o u
    OBVIOUS
  <2>4. v = u
    BY <1>1, <1>2, <2>3
  <2>5. Changed(up', up, c, v)
    BY <2>1, <2>3
  <2>6. up'[c] = u /\ \A d \in Conns : d # c => up'[d] = up[d]
    BY <1>0, <2>4, <2>5, FunctionExcept
  <2>7. cpc'[c] = "loginwait" /\ \A d \in Conns : d # c => cpc'[d] = cpc[d]
    BY <1>0 DEF Login
  <2> QED BY <2>2, <2>6, <2>7
<1>5. SignedRight'
  <2> SUFFICES ASSUME NEW d \in Conns
               PROVE  /\ Signed(up'[d], my_id'[d], cpc'[d] \in Gone) /\ (state'[d] = 0 => up'[d] = <<>>)
    BY DEF SignedRight
  <2>1. CASE d = c
    BY <1>0, <1>1, <1>3, <1>4, <2>1
  <2>2. CASE d # c
    BY <1>0, <1>4, <2>2 DEF SignedRight
  <2> QED BY <2>1, <2>2
<1>6. KnownRight'
  <2> SUFFICES ASSUME NEW d \in Conns PROVE Known(d)' => Known(d) /\ my_id'[d] = my_id[d]
    BY <1>0, KnownKept
  <2>1. CASE d = c
    <3>1. ~Claims(c)'
      BY <1>0, <1>1, <1>4, SequenceShort DEF Claims, LoggedIn
    <3> QED BY <1>0, <1>1, <1>3, <1>4, <2>1, <3>1 DEF Known
  <2>2. CASE d # c
    BY <1>0, <1>4, <2>2 DEF Known, Claims
  <2> QED BY <2>1, <2>2
<1>7. OwnerRight' /\ AllShown'
  <2> SUFFICES ASSUME NEW s \in Seats, Held(s) PROVE Still(rused[s])
    BY <1>0, RoomLeft
  <2>1. rused[s] \in Conns /\ rused[s] # c
    BY <1>0, <1>1 DEF TalkTyped, Held, RoomRight
  <2> QED BY <1>0, <1>4, <2>1 DEF Still
<1>8. ShownTyped'
  BY <1>0 DEF ShownTyped
<1> QED BY <1>5, <1>6, <1>7, <1>8 DEF RoomInv

LEMMA ConnectRoom ==
  ASSUME RoomInv, IInv', Connect
  PROVE  RoomInv'
<1>1. PICK c : c = Min(Free)
  OBVIOUS
<1>2. c \in Conns /\ state[c] = 0
  <2>1. Free \subseteq Nat /\ Free # {}
    BY DEF Free, Conns, Connect
  <2>2. c \in Free
    BY <1>1, <2>1, MinIn
  <2> QED BY <2>2 DEF Free
<1>3. /\ IInv /\ TalkTyped /\ RoomRight /\ ShownTyped /\ SignedRight /\ KnownRight /\ OwnerRight
      /\ AllShown /\ FunctionOn(my_id, Conns) /\ FunctionOn(up, Conns) /\ FunctionOn(down, Conns)
      /\ FunctionOn(player, Conns) /\ FunctionOn(master, Conns)
      /\ cpc \in [Conns -> Places] /\ state \in [Conns -> 0 .. 2]
      /\ UNCHANGED <<name, used, in_game, players, rused, owner, heirless>>
  BY DEF RoomInv, IInv, AllInTouch, TalkTyped, ShownTyped, Connect, room, thread
<1>4. PICK u, e : u = <<Word("1")>> /\ e = {}
  OBVIOUS
<1>5. /\ Changed(my_id', my_id, c, NoName) /\ Changed(up', up, c, u) /\ Changed(down', down, c, <<>>)
      /\ Changed(player', player, c, e) /\ Changed(master', master, c, NoName)
      /\ Changed(cpc', cpc, c, "hello") /\ Changed(state', state, c, 1)
  BY <1>1, <1>4 DEF Connect, Changed
<1>6. \A d \in Conns : d # c => /\ my_id'[d] = my_id[d] /\ up'[d] = up[d] /\ down'[d] = down[d]
                                /\ player'[d] = player[d] /\ master'[d] = master[d]
                                /\ cpc'[d] = cpc[d] /\ state'[d] = state[d]
  <2>1. \A d \in Conns : d # c => my_id'[d] = my_id[d]
    BY <1>2, <1>3, <1>5, FunctionExcept
  <2>2. \A d \in Conns : d # c => up'[d] = up[d]
    BY <1>2, <1>3, <1>5, FunctionExcept
  <2>3. \A d \in Conns : d # c => down'[d] = down[d]
    BY <1>2, <1>3, <1>5, FunctionExcept
  <2>4. \A d \in Conns : d # c => player'[d] = player[d]
    BY <1>2, <1>3, <1>5, FunctionExcept
  <2>5. \A d \in Conns : d # c => master'[d] = master[d]
    BY <1>2, <1>3, <1>5, FunctionExcept
  <2>6. \A d \in Conns : d # c => cpc'[d] = cpc[d] /\ state'[d] = state[d]
    BY <1>2, <1>3, <1>5 DEF Changed
  <2> QED BY <2>1, <2>2, <2>3, <2>4, <2>5, <2>6
<1>7. up'[c] = u /\ cpc'[c] = "hello" /\ state'[c] = 1
  <2>1. up'[c] = u
    BY <1>2, <1>3, <1>5, FunctionExcept
  <2> QED BY <1>2, <1>3, <1>5, <2>1 DEF Changed
<1>8. \A me, gone : Signed(u, me, gone) /\ ~Privileged(u)
  <2>1. PICK w : w = "1"
    OBVIOUS
  <2> QED BY <1>4, <2>1, SignedShort
<1>9. SignedRight'
  <2> SUFFICES ASSUME NEW d \in Conns
               PROVE  /\ Signed(up'[d], my_id'[d], cpc'[d] \in Gone) /\ (state'[d] = 0 => up'[d] = <<>>)
    BY DEF SignedRight
  <2>1. CASE d = c
    BY <1>7, <1>8, <2>1
  <2>2. CASE d # c
    BY <1>3, <1>6, <2>2 DEF SignedRight
  <2> QED BY <2>1, <2>2
<1>10. KnownRight'
  <2> SUFFICES ASSUME NEW d \in Conns PROVE Known(d)' => Known(d) /\ my_id'[d] = my_id[d]
    BY <1>3, KnownKept
  <2>1. CASE d = c
    BY <1>7, <1>8, <2>1 DEF Known, Claims, LoggedIn
  <2>2. CASE d # c
    BY <1>6, <2>2 DEF Known, Claims
  <2> QED BY <2>1, <2>2
<1>11. OwnerRight' /\ AllShown'
  <2> SUFFICES ASSUME NEW s \in Seats, Held(s) PROVE Still(rused[s])
    BY <1>3, RoomLeft
  <2>1. rused[s] \in Conns /\ rused[s] # c
    BY <1>2, <1>3 DEF TalkTyped, Held, RoomRight
  <2> QED BY <1>6, <2>1 DEF Still
<1>12. ShownTyped'
  <2>1. FunctionOn(player', Conns)
    BY <1>2, <1>3, <1>5, FunctionExcept
  <2>2. FunctionOn(master', Conns)
    BY <1>2, <1>3, <1>5, FunctionExcept
  <2> QED BY <2>1, <2>2 DEF ShownTyped
<1> QED BY <1>9, <1>10, <1>11, <1>12 DEF RoomInv

\* A client reads a line, and shows what the line tells.
LEMMA ReadRoom ==
  ASSUME RoomInv, IInv', NEW c \in Conns, Read(c)
  PROVE  RoomInv'
<1>0. /\ IInv /\ TalkTyped /\ ShownTyped /\ SignedRight /\ KnownRight /\ OwnerRight /\ AllShown
      /\ down[c] # <<>> /\ cpc[c] \in Reading \cup {"back"} /\ Sequence(down[c])
      /\ FunctionOn(down, Conns) /\ FunctionOn(player, Conns) /\ FunctionOn(master, Conns)
      /\ UNCHANGED <<state, name, used, in_game, players, rused, owner, heirless, my_id>>
  BY DEF RoomInv, IInv, TalkTyped, ShownTyped, Read, Reading, clientFrame, conns, room, thread
<1>1. PICK l, x, rest, P, m, u :
        /\ l = Head(down[c]) /\ x = Expects(c, l) /\ rest = Tail(down[c])
        /\ P = (IF x = "room" THEN NewPlayers(c, l) ELSE player[c])
        /\ m = (IF x = "room" THEN NewMaster(c, l) ELSE master[c])
        /\ u = CASE x = "back" -> <<Request(c)>> [] x = "puzzled" -> <<EOF>> [] OTHER -> <<>>
  OBVIOUS
<1>2. /\ Changed(cpc', cpc, c, x) /\ Changed(up', up, c, up[c] \o u) /\ Changed(down', down, c, rest)
      /\ Changed(player', player, c, P) /\ Changed(master', master, c, m)
  BY <1>1 DEF Read, Send, Changed
<1>3. /\ x \in Places
      /\ x \in LoggedIn => cpc[c] \in LoggedIn \/ (cpc[c] = "loginwait" /\ l.op = "2")
      /\ x # "loginwait" /\ x # "enter"
      /\ x = "room" => cpc[c] \in {"enter", "room"}
      /\ x = "back" => cpc[c] \in LoggedIn
  <2>1. CASE cpc[c] = "back"
    BY <1>1, <2>1 DEF Expects, Places, Gone, LoggedIn
  <2>2. CASE cpc[c] \in Reading
    <3>1. x = After(cpc[c], l)
      BY <1>1, <2>2, ExpectsAfter
    <3>2. /\ x \in Places /\ x # "loginwait"
          /\ x \in LoggedIn => cpc[c] \in LoggedIn \/ (cpc[c] = "loginwait" /\ l.op = "2")
      BY <2>2, <3>1, Follow
    <3>3. /\ x # "enter" /\ (x = "room" => cpc[c] \in {"enter", "room"})
          /\ x = "back" => cpc[c] \in LoggedIn
      BY <2>2, <3>1 DEF After, Reading, LoggedIn
    <3> QED BY <3>2, <3>3
  <2> QED BY <1>0, <2>1, <2>2
<1>4. Sequence(u) /\ Signed(u, my_id[c], x \in Gone) /\ (Privileged(u) => x = "back")
  <2>1. CASE x = "back"
    <3>1. u = <<Line("token", my_id[c])>>
      BY <1>1, <2>1 DEF Request
    <3> QED BY <2>1, <3>1, SequenceShort, SignedShort
  <2>2. CASE x = "puzzled"
    <3>1. u = <<EOF>>
      BY <1>1, <2>2
    <3>2. Sequence(u) /\ Signed(u, my_id[c], TRUE) /\ ~Privileged(u)
      BY <3>1, SequenceShort, SignedShort
    <3> QED BY <2>2, <3>2 DEF Signed, Gone
  <2>3. CASE x \notin {"back", "puzzled"}
    <3>1. u = <<>>
      BY <1>1, <2>3
    <3> QED BY <3>1, SequenceShort, SignedShort
  <2> QED BY <2>1, <2>2, <2>3
<1>5. /\ cpc'[c] = x /\ up'[c] = up[c] \o u
      /\ \A d \in Conns \ {c} : cpc'[d] = cpc[d] /\ up'[d] = up[d]
  BY <1>0, <1>2, <1>3, <1>4, OneClient
<1>6. down'[c] = rest /\ \A d \in Conns : d # c => down'[d] = down[d]
  BY <1>0, <1>2, FunctionExcept
<1>7. FunctionOn(player', Conns) /\ player'[c] = P /\ \A d \in Conns : d # c => player'[d] = player[d]
  BY <1>0, <1>2, FunctionExcept
<1>8. FunctionOn(master', Conns) /\ master'[c] = m /\ \A d \in Conns : d # c => master'[d] = master[d]
  BY <1>0, <1>2, FunctionExcept
<1>9. SignedRight' /\ KnownRight'
  <2>1. 1 \in 1 .. Len(down[c]) /\ down[c][1] = l
    BY <1>0, <1>1, SequenceLen, SequenceTail
  <2>2. Claims(c)' => Claims(c)
    BY <1>3, <1>5, <2>1 DEF Claims
  <2>3. Privileged(u) => Claims(c)
    BY <1>3, <1>4 DEF Claims
  <2>4. cpc[c] \notin Gone
    BY <1>0 DEF Gone, Reading
  <2> QED BY <1>0, <1>4, <1>5, <1>6, <2>2, <2>3, <2>4, WiresSend
<1>10. ASSUME NEW s \in Seats, Held(s), rused[s] = c, Going, Watching(c)' PROVE Shown(c)'
  <2>1. x = "room" /\ Watching(c)
    <3>1. x = "room" /\ cpc[c] \in {"enter", "room"} /\ ~Doomed(x, rest)
      BY <1>3, <1>5, <1>6, <1>10 DEF Watching
    <3>2. x = After(cpc[c], l) /\ l = down[c][1]
      BY <1>0, <1>1, <3>1, ExpectsAfter, SequenceTail DEF Reading
    <3>3. ~(cpc[c] = "room" /\ l = Word("19"))
      BY <3>1, <3>2, Ops DEF After
    <3>4. ~Doomed(cpc[c], down[c])
      BY <1>0, <1>1, <3>1, <3>2, <3>3, DoomedFirst
    <3> QED BY <3>1, <3>4 DEF Watching
  <2>2. Shown(c)
    BY <1>0, <1>10, <2>1 DEF AllShown, Held
  <2>3. PICK me, d, v, w : me = my_id[c] /\ d = down[c] /\ v = OwnView(c) /\ w = RoomView
    OBVIOUS
  <2>4. Shows(me, d, Len(d), v, w) /\ Sequence(d) /\ d # <<>>
    BY <1>0, <2>2, <2>3 DEF Shown
  <2>5. Shows(me, Tail(d), Len(Tail(d)), Told(me, v, Head(d)), w)
    BY <2>4, ShowsHead
  <2>6. Told(me, v, l) = [player |-> P, master |-> m]
    <3>1. P = NewPlayers(c, l) /\ m = NewMaster(c, l)
      BY <1>1, <2>1
    <3>2. v.player = player[c] /\ v.master = master[c]
      BY <2>3 DEF OwnView
    <3> QED BY <2>3, <3>1, <3>2 DEF Told, NewPlayers, NewMaster
  <2>7. OwnView(c)' = Told(me, v, l)
    BY <1>7, <1>8, <2>6 DEF OwnView
  <2>8. RoomView' = w
    BY <1>0, <2>3, SameView DEF OwnerRight
  <2>9. Shows(me, rest, Len(rest), Told(me, v, l), w)
    BY <1>1, <2>3, <2>5
  <2> QED BY <1>0, <1>6, <2>3, <2>7, <2>8, <2>9 DEF Shown
<1>11. OwnerRight' /\ AllShown'
  <2>1. ASSUME NEW s \in Seats, Held(s)
        PROVE  \/ Still(rused[s])
               \/ Going /\ Watching(rused[s])' => Shown(rused[s])'
    <3>1. CASE rused[s] = c
      <4>1. Going /\ Watching(c)' => Shown(c)'
        BY <1>10, <2>1, <3>1
      <4>2. rused'[s] = c
        BY <1>0, <3>1
      <4> QED BY <3>1, <4>1, <4>2 DEF Shown, OwnView, Watching
    <3>2. CASE rused[s] # c
      <4>1. rused[s] \in Conns
        BY <1>0, <2>1 DEF TalkTyped, Held
      <4> QED BY <1>0, <1>5, <1>6, <1>7, <1>8, <3>2, <4>1 DEF Still
    <3> QED BY <3>1, <3>2
  <2> QED BY <1>0, <2>1, RoomLeft
<1>12. ShownTyped'
  BY <1>7, <1>8 DEF ShownTyped
<1> QED BY <1>9, <1>11, <1>12 DEF RoomInv

\* main() reads a line: it is from nobody in the room.
LEMMA MainReadRoom ==
  ASSUME RoomInv, IInv', NEW c \in Conns, MainRead(c)
  PROVE  RoomInv'
<1>0. /\ IInv /\ TalkTyped /\ RoomRight /\ ShownTyped /\ SignedRight /\ KnownRight /\ OwnerRight /\ AllShown
      /\ state[c] = 1 /\ up[c] # <<>> /\ Sequence(up[c]) /\ Sequence(down[c])
      /\ state \in [Conns -> 0 .. 2]
      /\ FunctionOn(name, Conns) /\ FunctionOn(up, Conns) /\ FunctionOn(down, Conns)
      /\ UNCHANGED <<used, in_game, players, rused, owner, heirless, cpc, my_id, master, player>>
  BY DEF RoomInv, IInv, TalkTyped, MainRead, room, thread, client
<1>1. PICK l, e, u, d, a, n :
        /\ l = Head(up[c]) /\ e = Answer(c, l) /\ u = Tail(up[c]) /\ d = down[c] \o e
        /\ a = (CASE l = EOF -> 0 [] l.op \in {"3", "4", "5"} -> 2 [] OTHER -> 1)
        /\ n = (IF l.op = "token" \/ (l.op = "2" /\ HandleLogin(l.who, c)) THEN l.who ELSE name[c])
  OBVIOUS
<1>2. Changed(up', up, c, u) /\ Changed(down', down, c, d) /\ Changed(state', state, c, a) /\ Changed(name', name, c, n)
  BY <1>1 DEF MainRead, Taken, Tell, Changed
<1>3. name'[c] = n /\ \A x \in Conns : x # c => name'[x] = name[x]
  BY <1>0, <1>2, FunctionExcept
<1>4. up'[c] = u /\ \A x \in Conns : x # c => up'[x] = up[x]
  BY <1>0, <1>2, FunctionExcept
<1>5. down'[c] = d /\ \A x \in Conns : x # c => down'[x] = down[x]
  BY <1>0, <1>2, FunctionExcept
<1>6. state'[c] = a /\ \A x \in Conns : x # c => state'[x] = state[x]
  BY <1>0, <1>2 DEF Changed
<1>7. l = EOF => l.op = "eof"
  BY Ops DEF EOF
<1>8. /\ Signed(u, my_id[c], cpc[c] \in Gone) /\ (Privileged(u) => Privileged(up[c]))
      /\ l.op = "eof" => u = <<>>
      /\ l.op \in {"3", "4", "5", "token"} => Privileged(up[c])
      /\ l.op \in {"2", "token"} => l.who = my_id[c]
  <2>1. Signed(up[c], my_id[c], cpc[c] \in Gone)
    BY <1>0 DEF SignedRight
  <2>2. PICK v, me, gone : v = up[c] /\ me = my_id[c] /\ gone = (cpc[c] \in Gone)
    OBVIOUS
  <2>3. Sequence(v) /\ v # <<>> /\ Signed(v, me, gone)
    BY <1>0, <2>1, <2>2
  <2>4. /\ Signed(Tail(v), me, gone) /\ (Privileged(Tail(v)) => Privileged(v))
        /\ Head(v).op = "eof" => Tail(v) = <<>>
        /\ Head(v).op \in {"3", "4", "5", "token"} => Privileged(v)
        /\ Head(v).op \in {"2", "token"} => Head(v).who = me
    BY <2>3, SignedTail
  <2> QED BY <1>1, <2>2, <2>4
<1>9. SignedRight'
  <2> SUFFICES ASSUME NEW x \in Conns
               PROVE  /\ Signed(up'[x], my_id'[x], cpc'[x] \in Gone) /\ (state'[x] = 0 => up'[x] = <<>>)
    BY DEF SignedRight
  <2>1. CASE x = c
    <3>1. a = 0 => u = <<>>
      BY <1>1, <1>7, <1>8
    <3> QED BY <1>0, <1>4, <1>6, <1>8, <2>1, <3>1
  <2>2. CASE x # c
    BY <1>0, <1>4, <1>6, <2>2 DEF SignedRight
  <2> QED BY <2>1, <2>2
<1>10. \A x \in Conns : x # c => (Known(x)' <=> Known(x))
  BY <1>0, <1>4, <1>5, <1>6 DEF Known, Claims
<1>11. KnownRight'
  <2>1. CASE l.op = "2" /\ HandleLogin(l.who, c)
    <3>1. name'[c] = my_id[c] /\ n = l.who
      BY <1>1, <1>3, <1>8, <2>1
    <3>2. ASSUME NEW x \in Conns, x # c, Known(x) PROVE name'[x] # name'[c]
      <4>1. state[x] # 0
        BY <1>0, <3>2, KnownInUse
      <4> QED BY <1>3, <2>1, <3>1, <3>2, <4>1 DEF HandleLogin
    <3> QED BY <1>0, <1>3, <1>10, <3>1, <3>2 DEF KnownRight
  <2>2. CASE ~(l.op = "2" /\ HandleLogin(l.who, c))
    <3>1. l.op = "token" => Known(c)
      BY <1>8 DEF Known
    <3>2. n = name[c]
      BY <1>0, <1>1, <1>8, <2>2, <3>1 DEF KnownRight
    <3>3. Known(c)' => Known(c)
      <4>1. Sequence(e) /\ \A k \in 1 .. Len(e) : e[k].op # "2"
        <5>1. e \in {<<Word("1")>>, <<Word("4")>>, <<Word("3")>>, <<>>} /\ Sequence(e)
          BY <1>1, <2>2, Answers
        <5>2. ASSUME NEW w \in {"1", "4", "3"}, e = <<Word(w)>> PROVE \A k \in 1 .. Len(e) : e[k].op # "2"
          <6>1. Len(e) = 1 /\ e[1] = Word(w) /\ \A k \in 1 .. 1 : k = 1
            BY <5>2
          <6> QED BY <6>1, Ops
        <5>3. e = <<>> => \A k \in 1 .. Len(e) : e[k].op # "2"
          BY SequenceShort
        <5> QED BY <5>1, <5>2, <5>3
      <4>2. Claims(c)' => Claims(c)
        BY <1>0, <1>1, <1>5, <4>1, ClaimsKept
      <4>3. a = 2 => l.op \in {"3", "4", "5"}
        BY <1>1
      <4> QED BY <1>0, <1>4, <1>6, <1>8, <4>2, <4>3 DEF Known
    <3> QED BY <1>0, <1>3, <1>10, <3>2, <3>3, KnownKept
  <2> QED BY <2>1, <2>2
<1>12. OwnerRight' /\ AllShown'
  <2>1. ASSUME NEW s \in Seats, Held(s) PROVE name'[rused[s]] = name[rused[s]] /\ Still(rused[s])
    <3>1. rused[s] \in Conns /\ rused[s] # c
      BY <1>0, <2>1 DEF TalkTyped, Held, RoomRight
    <3> QED BY <1>0, <1>3, <1>5, <3>1 DEF Still
  <2> QED BY <1>0, <2>1, RoomLeft
<1>13. ShownTyped'
  BY <1>0 DEF ShownTyped
<1> QED BY <1>9, <1>11, <1>12, <1>13 DEF RoomInv

\* Lines that grant no login are sent to x, or none.
Grown(x) == \/ down'[x] = down[x]
            \/ \E e : Sequence(e) /\ down'[x] = down[x] \o e /\ \A k \in 1 .. Len(e) : e[k].op # "2"

\* The first line from x is taken, or none.
TakenFrom(x) == up'[x] = up[x] \/ (up[x] # <<>> /\ up'[x] = Tail(up[x]))

\* The room or a handler acts: names stay, and who was not known is not.
LEMMA WiresServer ==
  ASSUME IInv, SignedRight, KnownRight, UNCHANGED <<name, my_id, cpc>>,
         \A x \in Conns : Grown(x) /\ TakenFrom(x),
         \A x \in Conns : state'[x] = state[x] \/ (state[x] = 2 /\ (state'[x] = 0 => up'[x] = <<>>))
  PROVE  SignedRight' /\ KnownRight'
<1>1. \A x \in Conns : Sequence(up[x]) /\ Sequence(down[x])
  BY DEF IInv, TalkTyped
<1>2. ASSUME NEW x \in Conns
      PROVE  Signed(up'[x], my_id[x], cpc[x] \in Gone) /\ (Privileged(up'[x]) => Privileged(up[x]))
  <2>1. Signed(up[x], my_id[x], cpc[x] \in Gone)
    BY DEF SignedRight
  <2>2. PICK v, me, gone : v = up[x] /\ me = my_id[x] /\ gone = (cpc[x] \in Gone)
    OBVIOUS
  <2>3. Sequence(v) /\ Signed(v, me, gone) /\ (up'[x] = v \/ (v # <<>> /\ up'[x] = Tail(v)))
    BY <1>1, <2>1, <2>2 DEF TakenFrom
  <2>4. v # <<>> => Signed(Tail(v), me, gone) /\ (Privileged(Tail(v)) => Privileged(v))
    BY <2>3, SignedTail
  <2> QED BY <2>2, <2>3, <2>4
<1>3. SignedRight'
  <2> SUFFICES ASSUME NEW x \in Conns
               PROVE  /\ Signed(up'[x], my_id'[x], cpc'[x] \in Gone) /\ (state'[x] = 0 => up'[x] = <<>>)
    BY DEF SignedRight
  <2>1. up[x] = <<>> => up'[x] = <<>>
    BY DEF TakenFrom
  <2> QED BY <1>2, <2>1 DEF SignedRight
<1>4. KnownRight'
  <2> SUFFICES ASSUME NEW x \in Conns PROVE Known(x)' => Known(x)
    BY KnownKept
  <2>1. Claims(x)' => Claims(x)
    <3>1. CASE down'[x] = down[x]
      BY <3>1 DEF Claims
    <3>2. ASSUME NEW e, Sequence(e), down'[x] = down[x] \o e, \A k \in 1 .. Len(e) : e[k].op # "2"
          PROVE  Claims(x)' => Claims(x)
      BY <1>1, <3>2, ClaimsKept
    <3> QED BY <3>1, <3>2 DEF Grown
  <2> QED BY <1>2, <2>1 DEF Known
<1> QED BY <1>3, <1>4

\* A handler refuses a seat to somebody who is in none.
LEMMA RefuseRoom ==
  ASSUME RoomInv, IInv', NEW c \in Conns, Refuse(c)
  PROVE  RoomInv'
<1>0. /\ IInv /\ TalkTyped /\ RoomRight /\ ShownTyped /\ SignedRight /\ KnownRight /\ OwnerRight /\ AllShown
      /\ request[c] # "none" /\ FunctionOn(down, Conns) /\ state \in [Conns -> 0 .. 2]
      /\ UNCHANGED <<name, used, in_game, players, rused, owner, heirless, up, cpc, my_id, master, player>>
  BY DEF RoomInv, IInv, TalkTyped, Refuse, room, thread, client
<1>1. PICK w \in {"16", "17", "18"} : w = Refusal(request[c])
  BY DEF Refuse, Refusal
<1>2. PICK e, d : e = <<Word(w)>> /\ d = down[c] \o e
  OBVIOUS
<1>3. Changed(down', down, c, d) /\ Changed(state', state, c, 1)
  BY <1>1, <1>2 DEF Refuse, Tell, Changed
<1>4. down'[c] = d /\ \A x \in Conns : x # c => down'[x] = down[x]
  BY <1>0, <1>3, FunctionExcept
<1>5. state'[c] = 1 /\ \A x \in Conns : x # c => state'[x] = state[x]
  BY <1>0, <1>3 DEF Changed
<1>6. state[c] = 2 /\ ~Holds(c)
  BY <1>0, Asking
<1>7. \A x \in Conns : Grown(x) /\ TakenFrom(x)
  <2>1. Sequence(e) /\ Len(e) = 1 /\ e[1].op = w
    BY <1>2, SequenceShort, Ops
  <2>2. \A k \in 1 .. Len(e) : e[k].op # "2"
    BY <2>1
  <2>3. Grown(c)
    BY <1>2, <1>4, <2>1, <2>2 DEF Grown
  <2> QED BY <1>0, <1>4, <2>3 DEF Grown, TakenFrom
<1>8. SignedRight' /\ KnownRight'
  BY <1>0, <1>5, <1>6, <1>7, WiresServer
<1>9. OwnerRight' /\ AllShown'
  <2> SUFFICES ASSUME NEW s \in Seats, Held(s) PROVE Still(rused[s])
    BY <1>0, RoomLeft
  <2>1. rused[s] \in Conns /\ rused[s] # c
    BY <1>0, <1>6 DEF TalkTyped, Held, Holds
  <2> QED BY <1>0, <1>4, <2>1 DEF Still
<1>10. ShownTyped'
  BY <1>0 DEF ShownTyped
<1> QED BY <1>8, <1>9, <1>10 DEF RoomInv

\* A handler gives a seat: nobody is let in yet.
LEMMA SeatRoom ==
  ASSUME RoomInv, IInv', NEW c \in Conns, Seat(c)
  PROVE  RoomInv'
<1>0. /\ IInv /\ TalkTyped /\ RoomRight /\ ShownTyped /\ SignedRight /\ KnownRight /\ OwnerRight /\ AllShown
      /\ players \in [Seats -> Conns \cup {None}]
      /\ UNCHANGED <<state, name, in_game, up, down, cpc, my_id, master, player>>
  BY DEF RoomInv, IInv, TalkTyped, Seat, conns, wires, client
<1>1. SignedRight' /\ KnownRight' /\ ShownTyped'
  <2>1. \A x \in Conns : Grown(x) /\ TakenFrom(x)
    BY <1>0 DEF Grown, TakenFrom
  <2>2. SignedRight' /\ KnownRight'
    BY <1>0, <2>1, WiresServer
  <2> QED BY <1>0, <2>2 DEF ShownTyped
<1>2. ASSUME used PROVE OwnerRight' /\ AllShown'
  <2>1. UNCHANGED <<rused, owner>> /\ (Going' <=> Going)
    <3>1. UNCHANGED <<rused, owner>> /\ used' = TRUE /\ heirless' = (used /\ heirless)
      BY <1>2 DEF Seat
    <3>2. heirless' <=> heirless
      BY <1>2, <3>1
    <3> QED BY <1>0, <1>2, <3>1, <3>2 DEF Going
  <2>2. RoomView' = RoomView /\ Inside' = Inside
    BY <1>0, <2>1, SameView DEF OwnerRight, Inside
  <2>3. players[0] # None => players'[0] # None
    <3>1. PICK x : x = Min(Seats \ Taking)
      OBVIOUS
    <3>2. x \in Seats /\ players' = [players EXCEPT ![x] = c]
      BY <1>0, <1>2, <3>1, SeatFree DEF Seat
    <3>3. 0 \in Seats
      BY TalkAssumption DEF Seats
    <3> QED BY <1>0, <3>2, <3>3, NoneApart
  <2>4. OwnerRight'
    BY <1>0, <2>1, <2>2, <2>3 DEF OwnerRight
  <2>5. ASSUME Going, NEW s \in Seats, rused[s] # None, Watching(rused[s])'
        PROVE  Shown(rused[s])'
    <3>1. PICK d : d = rused[s] /\ d = rused'[s]
      BY <2>1
    <3>2. Watching(d)
      BY <1>0, <2>5, <3>1 DEF Watching
    <3>3. Shown(d)
      BY <1>0, <2>5, <3>1, <3>2 DEF AllShown
    <3>4. Shown(d)'
      BY <1>0, <2>2, <3>3 DEF Shown, OwnView
    <3> QED BY <3>1, <3>4 DEF Shown, OwnView
  <2>6. AllShown'
    BY <2>1, <2>5 DEF AllShown
  <2> QED BY <2>4, <2>6
<1>3. ASSUME ~used PROVE OwnerRight' /\ AllShown'
  <2>1. rused' = [s \in Seats |-> None] /\ owner' = 0 /\ players' = [players EXCEPT ![0] = c]
    BY <1>3 DEF Seat
  <2>2. 0 \in Seats
    BY TalkAssumption DEF Seats
  <2>3. \A s \in Seats : rused'[s] = None
    BY <2>1
  <2>4. players'[0] # None
    BY <1>0, <2>1, <2>2, NoneApart
  <2>5. Inside' = {}
    BY <2>3 DEF Inside
  <2> QED BY <2>1, <2>2, <2>3, <2>4, <2>5 DEF OwnerRight, AllShown
<1> QED BY <1>1, <1>2, <1>3 DEF RoomInv

\* What the thread sends grants no login.
LEMMA SendingGrown ==
  ASSUME TalkTyped, NEW S, NEW e, Sequence(e), \A k \in 1 .. Len(e) : e[k].op # "2", down' = Sending(S, e)
  PROVE  \A x \in Conns : Grown(x)
<1> TAKE x \in Conns
<1>1. CASE \E t \in S : rused[t] = x
  <2>1. down'[x] = down[x] \o e
    BY <1>1, Sendings
  <2> QED BY <2>1 DEF Grown
<1>2. CASE ~\E t \in S : rused[t] = x
  <2>1. down'[x] = down[x]
    BY <1>2, Sendings
  <2> QED BY <2>1 DEF Grown
<1> QED BY <1>1, <1>2

\* The end of a connection is the last line from it.
LEMMA LastLine ==
  ASSUME TalkTyped, SignedRight, NEW c \in Conns, up[c] # <<>>, AfterLeave(Head(up[c])) = 0
  PROVE  Tail(up[c]) = <<>>
<1>1. PICK u, me, gone : u = up[c] /\ me = my_id[c] /\ gone = (cpc[c] \in Gone)
  OBVIOUS
<1>2. Sequence(u) /\ u # <<>> /\ Signed(u, me, gone)
  BY <1>1 DEF TalkTyped, SignedRight
<1>3. Head(u) = EOF
  BY <1>1 DEF AfterLeave
<1>4. Head(u).op = "eof"
  BY <1>3, Ops DEF EOF
<1> QED BY <1>1, <1>2, <1>4, SignedTail

\* One more line.
LEMMA ShowsMore ==
  ASSUME NEW me, NEW d, Sequence(d), NEW v, NEW w, Shows(me, d, Len(d), v, w), NEW l
  PROVE  Shows(me, d \o <<l>>, Len(d \o <<l>>), v, Told(me, w, l))
<1>1. PICK e, x : e = <<l>> /\ x = Told(me, w, l)
  OBVIOUS
<1>2. Sequence(e) /\ Len(e) = 1
  BY <1>1, SequenceShort
<1>3. Shows(me, e, Len(e), w, x)
  BY <1>1, <1>2, ShowsOne
<1>4. Shows(me, d \o e, Len(d \o e), v, x)
  BY <1>2, <1>3, ShowsJoin
<1> QED BY <1>1, <1>4

\* The room with players P and owner o, as a client shows it.
ViewOf(P, o) == [player |-> P, master |-> o]

\* What the lines of the room thread change.
LEMMA ToldRoom ==
  ASSUME NEW me, NEW P, NEW o, NEW x
  PROVE  /\ Told(me, ViewOf(P, o), Line("7", x)) = ViewOf(P \ {x}, o)
         /\ Told(me, ViewOf(P, o), Line("8", x)) = ViewOf(P \ {x}, x)
<1>0. PICK v : v = ViewOf(P, o)
  OBVIOUS
<1>1. v = [player |-> P, master |-> o] /\ v.player = P /\ v.master = o
  BY <1>0 DEF ViewOf
<1>2. ASSUME NEW w, NEW l, l = Line(w, x), w \in {"7", "8"}
      PROVE  Told(me, v, l) = [player |-> P \ {x}, master |-> IF w = "8" THEN x ELSE o]
  <2>1. l.op = w /\ l.who = x
    BY <1>2, Ops
  <2> QED BY <1>1, <1>2, <2>1 DEF Told
<1>3. Told(me, v, Line("7", x)) = [player |-> P \ {x}, master |-> o]
  <2>1. PICK w : w = "7"
    OBVIOUS
  <2> QED BY <1>2, <2>1
<1>4. Told(me, v, Line("8", x)) = [player |-> P \ {x}, master |-> x]
  <2>1. PICK w : w = "8"
    OBVIOUS
  <2> QED BY <1>2, <2>1
<1> QED BY <1>0, <1>3, <1>4 DEF ViewOf

\* That too few are there changes nothing.
LEMMA ToldFew ==
  ASSUME NEW me, NEW P, NEW o
  PROVE  Told(me, ViewOf(P, o), Word("19")) = ViewOf(P, o)
<1>1. PICK v, l : v = ViewOf(P, o) /\ l = Word("19")
  OBVIOUS
<1>2. v.player = P /\ v.master = o /\ l.op = "19"
  BY <1>1, Ops DEF ViewOf
<1>3. Told(me, v, l) = [player |-> P, master |-> o]
  BY <1>2 DEF Told
<1> QED BY <1>1, <1>3 DEF ViewOf

\* Somebody asks for the game: too few are there, or the room is closed to others.
LEMMA RoomStartRoom ==
  ASSUME RoomInv, IInv', NEW s \in Seats, RoomStart(s)
  PROVE  RoomInv'
<1>0. /\ IInv /\ TalkTyped /\ RoomRight /\ ShownTyped /\ SignedRight /\ KnownRight /\ OwnerRight /\ AllShown
      /\ Held(s) /\ FunctionOn(up, Conns) /\ used /\ ~in_game
      /\ UNCHANGED <<state, name, used, players, rused, owner, heirless, cpc, my_id, master, player>>
  BY DEF RoomInv, IInv, TalkTyped, RoomStart, RoomLine, Held, conns, client
<1>1. PICK c, u : c = rused[s] /\ u = Tail(up[c])
  OBVIOUS
<1>2. c \in Conns /\ up[c] # <<>> /\ Changed(up', up, c, u)
  BY <1>0, <1>1, Seated DEF RoomStart, RoomLine, Taken, Changed
<1>3. up'[c] = u /\ \A x \in Conns : x # c => up'[x] = up[x]
  BY <1>0, <1>2, FunctionExcept
<1>4. PICK e : /\ down' = Sending(Inside, e) /\ Sequence(e) /\ \A k \in 1 .. Len(e) : e[k].op # "2"
               /\ \/ e = <<Word("19")>> /\ in_game' = in_game
                  \/ in_game' = TRUE
  <2>1. CASE player_num < 2
    <3>1. PICK e : e = <<Word("19")>>
      OBVIOUS
    <3>2. down' = Sending(Inside, e) /\ in_game' = in_game
      BY <1>0, <2>1, <3>1, ToSeatsSending DEF RoomStart
    <3>3. Sequence(e) /\ Len(e) = 1 /\ e[1].op = "19"
      BY <3>1, SequenceShort, Ops
    <3>4. \A k \in 1 .. Len(e) : e[k].op # "2"
      BY <3>3
    <3> QED BY <3>1, <3>2, <3>3, <3>4
  <2>2. CASE ~(player_num < 2)
    <3>1. PICK e : e = Opening
      OBVIOUS
    <3>2. down' = Sending(Inside, e) /\ in_game' = TRUE
      BY <2>2, <3>1 DEF RoomStart, Sending
    <3>3. Sequence(e) /\ Len(e) = 2 /\ e[1].op = "9" /\ e[2].op = "10"
      BY <3>1, SequenceShort, Ops DEF Opening
    <3>4. \A k \in 1 .. 2 : k = 1 \/ k = 2
      OBVIOUS
    <3>5. \A k \in 1 .. Len(e) : e[k].op # "2"
      BY <3>3, <3>4
    <3> QED BY <3>2, <3>3, <3>5
  <2> QED BY <2>1, <2>2
<1>5. SignedRight' /\ KnownRight'
  <2>1. \A x \in Conns : Grown(x)
    BY <1>0, <1>4, SendingGrown
  <2>2. \A x \in Conns : TakenFrom(x)
    BY <1>1, <1>2, <1>3 DEF TakenFrom
  <2> QED BY <1>0, <2>1, <2>2, WiresServer
<1>6. ASSUME in_game' = TRUE PROVE OwnerRight' /\ AllShown'
  BY <1>0, <1>6 DEF OwnerRight, AllShown, Going
<1>7. ASSUME e = <<Word("19")>>, in_game' = in_game PROVE OwnerRight' /\ AllShown'
  <2> SUFFICES ASSUME NEW t \in Seats, Held(t), Going, Watching(rused[t])' PROVE Shown(rused[t])'
    BY <1>0, <1>7, RoomLeft
  <2>1. PICK x : x = rused[t] /\ x = rused'[t]
    BY <1>0
  <2>2. x \in Conns /\ t \in Inside /\ Sequence(down[x])
    BY <1>0, <2>1, Seated DEF Held, Inside, TalkTyped
  <2>3. down'[x] = down[x] \o e
    <3>1. \E b \in Inside : rused[b] = x
      BY <2>1, <2>2
    <3>2. Sending(Inside, e)[x] = down[x] \o e
      BY <1>0, <1>4, <2>2, <3>1, Sendings
    <3> QED BY <1>4, <3>2
  <2>4. Watching(x)
    BY <1>0, <1>4, <2>1, <2>2, <2>3, DoomedOn DEF Watching
  <2>5. Shown(x)
    BY <1>0, <2>1, <2>4 DEF AllShown, Held
  <2>6. PICK me, d, v, w, l : me = my_id[x] /\ d = down[x] /\ v = OwnView(x) /\ w = RoomView /\ l = Word("19")
    OBVIOUS
  <2>7. Shows(me, d, Len(d), v, w) /\ Sequence(d)
    BY <2>2, <2>5, <2>6 DEF Shown
  <2>8. Told(me, w, l) = w
    <3>1. PICK P, o : w = ViewOf(P, o)
      BY <2>6 DEF RoomView, ViewOf
    <3>2. Told(me, ViewOf(P, o), Word("19")) = ViewOf(P, o)
      BY ToldFew
    <3> QED BY <2>6, <3>1, <3>2
  <2>9. Shows(me, d \o <<l>>, Len(d \o <<l>>), v, w)
    BY <2>7, <2>8, ShowsMore
  <2>10. RoomView' = w
    BY <1>0, <2>6, SameView DEF OwnerRight
  <2>11. Shown(x)'
    BY <1>0, <1>7, <2>3, <2>6, <2>9, <2>10 DEF Shown, OwnView
  <2> QED BY <2>1, <2>11 DEF Shown, OwnView
<1>8. ShownTyped'
  BY <1>0 DEF ShownTyped
<1> QED BY <1>4, <1>5, <1>6, <1>7, <1>8 DEF RoomInv

\* During the game, and when it is over, nobody looks at the room.
LEMMA GameReadRoom ==
  ASSUME RoomInv, IInv', NEW s \in Seats, GameRead(s)
  PROVE  RoomInv'
<1>1. PICK c, l, H, y, u : /\ c = rused[s] /\ l = Head(up[c]) /\ H = alive \ {s} /\ y = Line("7", name[c])
                           /\ u = Tail(up[c])
  OBVIOUS
<1>0. IInv /\ ShownTyped /\ SignedRight /\ KnownRight /\ OwnerRight
  BY DEF RoomInv
<1>2. /\ TalkTyped /\ RoomRight /\ in_game /\ c \in Conns /\ state[c] = 2
      /\ up[c] # <<>> /\ Changed(up', up, c, u)
      /\ UNCHANGED <<name, rused, cpc, my_id>>
      /\ \A t \in Seats : Held(t) <=> t \in alive
  BY <1>0, <1>1, GameReads
<1>3. UNCHANGED <<owner, heirless, master, player>>
  BY DEF GameRead, client
<1>4. /\ state \in [Conns -> 0 .. 2] /\ FunctionOn(up, Conns) /\ rused \in [Seats -> Conns \cup {None}]
      /\ alive \subseteq Seats
  BY <1>2 DEF TalkTyped
<1>5. up'[c] = u /\ \A x \in Conns : x # c => up'[x] = up[x]
  BY <1>2, <1>4, FunctionExcept
<1>6. AfterLeave(l) = 0 => u = <<>>
  BY <1>0, <1>1, <1>2, LastLine
<1>7. \A t \in H : t \in Seats /\ state[rused[t]] = 2
  BY <1>1, <1>2, <1>4 DEF RoomRight
<1>8. ~Going' /\ \A x \in Conns : /\ Grown(x)
                                  /\ state'[x] = state[x] \/ (state[x] = 2 /\ (state'[x] = 0 => up'[x] = <<>>))
  <2>1. CASE l \notin {Word("8"), EOF}
    BY <1>1, <1>2, <2>1 DEF GameRead, Going, Grown
  <2>2. CASE l \in {Word("8"), EOF} /\ player_num - 1 < 2
    <3>1. PICK e : e = <<y, Word("15")>>
      OBVIOUS
    <3>2. /\ down' = Closing(H, ToSeats(H, y)) /\ used' = FALSE
          /\ state' = [x \in Conns |-> CASE x = c -> AfterLeave(l)
                                         [] \E t \in H : rused[t] = x -> 1
                                         [] OTHER -> state[x]]
      BY <1>1, <2>2 DEF GameRead, CloseRoom, Closing
    <3>3. down' = Sending(H, e)
      BY <1>2, <3>1, <3>2, ToSeatsSending
    <3>4. Sequence(e) /\ Len(e) = 2 /\ e[1].op = "7" /\ e[2].op = "15"
      BY <1>1, <3>1, SequenceShort, Ops
    <3>5. \A k \in 1 .. 2 : k = 1 \/ k = 2
      OBVIOUS
    <3>6. \A x \in Conns : Grown(x)
      BY <1>2, <3>3, <3>4, <3>5, SendingGrown
    <3>7. ASSUME NEW x \in Conns
          PROVE  state'[x] = state[x] \/ (state[x] = 2 /\ (state'[x] = 0 => up'[x] = <<>>))
      <4>1. CASE \E t \in H : rused[t] = x
        <5>1. state[x] = 2
          BY <1>7, <4>1
        <5>2. state'[x] = 1 \/ (x = c /\ state'[x] = AfterLeave(l))
          BY <3>2, <4>1
        <5> QED BY <1>5, <1>6, <5>1, <5>2
      <4>2. CASE ~\E t \in H : rused[t] = x
        <5>1. state'[x] = IF x = c THEN AfterLeave(l) ELSE state[x]
          BY <3>2, <4>2
        <5> QED BY <1>2, <1>5, <1>6, <5>1
      <4> QED BY <4>1, <4>2
    <3> QED BY <3>2, <3>6, <3>7 DEF Going
  <2>3. CASE l \in {Word("8"), EOF} /\ ~(player_num - 1 < 2)
    <3>1. PICK e : e = <<y>>
      OBVIOUS
    <3>2. down' = ToSeats(H, y) /\ in_game' = in_game /\ Changed(state', state, c, AfterLeave(l))
      BY <1>1, <2>3 DEF GameRead, Changed
    <3>3. down' = Sending(H, e)
      BY <1>2, <3>1, <3>2, ToSeatsSending
    <3>4. Sequence(e) /\ Len(e) = 1 /\ e[1].op = "7"
      BY <1>1, <3>1, SequenceShort, Ops
    <3>5. \A k \in 1 .. Len(e) : e[k].op # "2"
      BY <3>4
    <3>6. \A x \in Conns : Grown(x)
      BY <1>2, <3>3, <3>4, <3>5, SendingGrown
    <3>7. state'[c] = AfterLeave(l) /\ \A x \in Conns : x # c => state'[x] = state[x]
      BY <1>2, <1>4, <3>2 DEF Changed
    <3> QED BY <1>2, <1>5, <1>6, <3>2, <3>6, <3>7 DEF Going
  <2> QED BY <2>1, <2>2, <2>3
<1>9. SignedRight' /\ KnownRight'
  <2>1. \A x \in Conns : TakenFrom(x)
    BY <1>1, <1>2, <1>5 DEF TakenFrom
  <2> QED BY <1>0, <1>2, <1>8, <2>1, WiresServer
<1>10. OwnerRight' /\ AllShown' /\ ShownTyped'
  BY <1>0, <1>3, <1>8 DEF OwnerRight, AllShown, ShownTyped
<1> QED BY <1>9, <1>10 DEF RoomInv

LEMMA GameWonRoom ==
  ASSUME RoomInv, IInv', GameWon
  PROVE  RoomInv'
<1>0. IInv /\ TalkTyped /\ RoomRight /\ ShownTyped /\ SignedRight /\ KnownRight /\ OwnerRight
  BY DEF RoomInv, IInv
<1>1. PICK H, e : H = alive /\ e = <<Word("15")>>
  OBVIOUS
<1>2. /\ in_game /\ UNCHANGED <<name, rused, up, cpc, my_id, owner, heirless, master, player>>
      /\ used' = FALSE /\ down' = Closing(H, down)
      /\ state' = [x \in Conns |-> IF \E t \in H : rused[t] = x THEN 1 ELSE state[x]]
  BY <1>1 DEF GameWon, CloseRoom, Closing, client
<1>3. \A t \in H : t \in Seats /\ state[rused[t]] = 2
  <2>1. H \subseteq Seats /\ \A t \in H : Held(t)
    BY <1>0, <1>1, <1>2 DEF TalkTyped, Held, RoomRight
  <2> QED BY <1>0, <2>1 DEF RoomRight
<1>4. \A x \in Conns : state'[x] = state[x] \/ (state[x] = 2 /\ state'[x] = 1)
  BY <1>2, <1>3
<1>5. \A x \in Conns : Grown(x) /\ TakenFrom(x)
  <2>1. down' = Sending(H, e)
    BY <1>0, <1>1, <1>2, ToSeatsSending
  <2>2. Sequence(e) /\ Len(e) = 1 /\ e[1].op = "15"
    BY <1>1, SequenceShort, Ops
  <2>3. \A k \in 1 .. Len(e) : e[k].op # "2"
    BY <2>2
  <2>4. \A x \in Conns : Grown(x)
    BY <1>0, <2>1, <2>2, <2>3, SendingGrown
  <2> QED BY <1>2, <2>4 DEF TakenFrom
<1>6. SignedRight' /\ KnownRight'
  BY <1>0, <1>2, <1>4, <1>5, WiresServer
<1>7. OwnerRight' /\ AllShown' /\ ShownTyped'
  BY <1>0, <1>2 DEF OwnerRight, AllShown, ShownTyped, Going
<1> QED BY <1>6, <1>7 DEF RoomInv

\* Names that differ: without one name, the others.
LEMMA NamesLess ==
  ASSUME NEW A, NEW u \in A, NEW f, \A a \in A : f[a] = f[u] => a = u
  PROVE  {f[a] : a \in A} \ {f[u]} = {f[a] : a \in A \ {u}}
OBVIOUS

\* Who is in the server's hands has a name that nobody else there has.
LEMMA NamesApart ==
  ASSUME KnownRight, NEW c \in Conns, NEW d \in Conns, state[c] = 2, state[d] = 2, name[c] = name[d]
  PROVE  c = d
BY DEF KnownRight, Known

\* A player leaves the room: the others are told, and who has the room now.
LEMMA RoomLeaveRoom ==
  ASSUME RoomInv, IInv', NEW s \in Seats, RoomLeave(s)
  PROVE  RoomInv'
<1>0. /\ IInv /\ TalkTyped /\ RoomRight /\ ShownTyped /\ SignedRight /\ KnownRight /\ OwnerRight /\ AllShown
      /\ Held(s) /\ used /\ ~in_game
      /\ FunctionOn(up, Conns) /\ state \in [Conns -> 0 .. 2] /\ rused \in [Seats -> Conns \cup {None}]
      /\ UNCHANGED <<name, in_game, cpc, my_id, master, player>>
  BY DEF RoomInv, IInv, TalkTyped, RoomLeave, RoomLine, Held, client
<1>1. PICK c, l, H, heir, u :
        /\ c = rused[s] /\ l = Head(up[c]) /\ H = Inside \ {s} /\ u = Tail(up[c])
        /\ heir = IF s = owner /\ H # {} THEN Min(H) ELSE owner
  OBVIOUS
<1>2. /\ up[c] # <<>> /\ Changed(up', up, c, u) /\ Changed(state', state, c, AfterLeave(l))
      /\ Changed(rused', rused, s, None)
      /\ used' = ~(Taking = {s}) /\ owner' = IF Taking = {s} THEN owner ELSE heir
      /\ heirless' = (heirless \/ (s = owner /\ H = {} /\ ~(Taking = {s})))
      /\ down' = IF Taking = {s} THEN down
                 ELSE IF s = owner THEN ToSeats(H, Line("8", NameOf(rused[heir])))
                 ELSE ToSeats(H, Line("7", name[c]))
  BY <1>1 DEF RoomLeave, RoomLine, Taken, Changed
<1>3. /\ c \in Conns /\ state[c] = 2 /\ s \in Inside
      /\ \A t \in Seats : rused[t] # None => Held(t)
  BY <1>0, <1>1, Seated DEF Held, Inside
<1>4. up'[c] = u /\ \A x \in Conns : x # c => up'[x] = up[x]
  BY <1>0, <1>2, <1>3, FunctionExcept
<1>5. state'[c] = AfterLeave(l) /\ \A x \in Conns : x # c => state'[x] = state[x]
  BY <1>0, <1>2, <1>3 DEF Changed
<1>6. rused'[s] = None /\ \A t \in Seats : t # s => rused'[t] = rused[t]
  BY <1>0, <1>2 DEF Changed
<1>7. H \subseteq Seats /\ Inside' = H /\ (H # {} => Min(H) \in H)
  <2>1. H \subseteq Seats /\ Inside' = H
    BY <1>1, <1>6 DEF Inside
  <2>2. H \subseteq Nat
    BY <2>1 DEF Seats
  <2> QED BY <2>1, <2>2, MinIn
<1>8. SignedRight' /\ KnownRight'
  <2>1. AfterLeave(l) = 0 => u = <<>>
    BY <1>0, <1>1, <1>2, <1>3, LastLine
  <2>2. \A x \in Conns : TakenFrom(x)
    BY <1>1, <1>2, <1>4 DEF TakenFrom
  <2>3. \A x \in Conns : Grown(x)
    <3>1. CASE down' = down
      BY <3>1 DEF Grown
    <3>2. ASSUME NEW w \in {"7", "8"}, NEW z, down' = ToSeats(H, Line(w, z)) PROVE \A x \in Conns : Grown(x)
      <4>1. PICK y, e : y = Line(w, z) /\ e = <<y>>
        OBVIOUS
      <4>2. down' = Sending(H, e)
        BY <1>0, <3>2, <4>1, ToSeatsSending
      <4>3. Sequence(e) /\ Len(e) = 1 /\ e[1].op = w
        BY <4>1, SequenceShort, Ops
      <4>4. \A k \in 1 .. Len(e) : e[k].op # "2"
        BY <4>3
      <4> QED BY <1>0, <4>2, <4>3, <4>4, SendingGrown
    <3> QED BY <1>2, <3>1, <3>2
  <2> QED BY <1>0, <1>3, <1>4, <1>5, <2>1, <2>2, <2>3, WiresServer
<1>9. owner' \in Seats
  BY <1>0, <1>1, <1>2, <1>7 DEF OwnerRight
<1>10. PICK f : f = [t \in Seats |-> NameOf(rused[t])]
  OBVIOUS
<1>11. \A a, b \in Inside : f[a] = f[b] => a = b
  <2> SUFFICES ASSUME NEW a \in Inside, NEW b \in Inside, f[a] = f[b] PROVE a = b
    OBVIOUS
  <2>1. a \in Seats /\ b \in Seats /\ Held(a) /\ Held(b) /\ rused[a] # None /\ rused[b] # None
    BY <1>3 DEF Inside
  <2>2. rused[a] \in Conns /\ state[rused[a]] = 2 /\ rused[b] \in Conns /\ state[rused[b]] = 2
    BY <1>0, <2>1, Seated
  <2>3. f[a] = name[rused[a]] /\ f[b] = name[rused[b]]
    BY <1>10, <2>1 DEF NameOf
  <2>4. rused[a] = rused[b]
    BY <1>0, <2>2, <2>3, NamesApart
  <2> QED BY <1>0, <2>1, <2>4, Seated
<1>12. ASSUME Going'
       PROVE  /\ Going /\ owner' \in H
              /\ \E y : down' = ToSeats(H, y) /\ \A me : Told(me, RoomView, y) = RoomView'
  <2>1. Going /\ Taking # {s} /\ ~(s = owner /\ H = {}) /\ owner' = heir
    BY <1>0, <1>2, <1>12 DEF Going
  <2>2. owner \in Inside
    BY <1>0, <1>3, <2>1 DEF OwnerRight, Inside
  <2>3. PICK P : P = {f[t] : t \in Inside \ {owner}}
    OBVIOUS
  <2>4. RoomView = ViewOf(P, f[owner])
    <3>1. P = {NameOf(rused[t]) : t \in Inside \ {owner}}
      BY <1>10, <2>3 DEF Inside
    <3>2. f[owner] = NameOf(rused[owner])
      BY <1>0, <1>10 DEF OwnerRight
    <3> QED BY <3>1, <3>2 DEF RoomView, ViewOf
  <2>5. owner' \in H => RoomView' = ViewOf({f[t] : t \in H \ {owner'}}, f[owner'])
    <3>1. \A t \in H : NameOf(rused[t])' = f[t]
      BY <1>0, <1>1, <1>6, <1>7, <1>10 DEF NameOf
    <3> QED BY <1>7, <3>1 DEF RoomView, ViewOf
  <2>6. CASE s = owner
    <3>1. heir \in H /\ heir \in Seats /\ H = Inside \ {owner}
      BY <1>1, <1>7, <2>1, <2>6
    <3>2. PICK y, x : y = Line("8", x) /\ x = f[heir]
      OBVIOUS
    <3>3. down' = ToSeats(H, y)
      BY <1>2, <1>10, <2>1, <2>6, <3>1, <3>2
    <3>4. P \ {x} = {f[t] : t \in H \ {heir}}
      BY <1>11, <2>3, <3>1, <3>2, NamesLess
    <3>5. \A me : Told(me, RoomView, y) = ViewOf(P \ {x}, x)
      BY <2>4, <3>2, ToldRoom
    <3>6. RoomView' = ViewOf(P \ {x}, x)
      BY <2>1, <2>5, <3>1, <3>2, <3>4
    <3> QED BY <2>1, <3>1, <3>3, <3>5, <3>6
  <2>7. CASE s # owner
    <3>1. owner' = owner /\ owner \in H
      BY <1>1, <2>1, <2>2, <2>7
    <3>2. PICK y, x : y = Line("7", x) /\ x = f[s]
      OBVIOUS
    <3>3. x = name[c]
      BY <1>1, <1>3, <1>10, <3>2, NoneApart DEF NameOf
    <3>4. down' = ToSeats(H, y)
      BY <1>2, <2>1, <2>7, <3>2, <3>3
    <3>5. P \ {x} = {f[t] : t \in H \ {owner}}
      <4>1. PICK A : A = Inside \ {owner}
        OBVIOUS
      <4>2. s \in A /\ \A a \in A : f[a] = f[s] => a = s
        BY <1>3, <1>11, <2>7, <4>1
      <4>3. {f[a] : a \in A} \ {f[s]} = {f[a] : a \in A \ {s}}
        BY <4>2, NamesLess
      <4>4. A \ {s} = H \ {owner}
        BY <1>1, <4>1
      <4> QED BY <2>3, <3>2, <4>1, <4>3, <4>4
    <3>6. \A me : Told(me, RoomView, y) = ViewOf(P \ {x}, f[owner])
      BY <2>4, <3>2, ToldRoom
    <3>7. RoomView' = ViewOf(P \ {x}, f[owner])
      BY <2>5, <3>1, <3>5
    <3> QED BY <2>1, <3>1, <3>4, <3>6, <3>7
  <2> QED BY <2>6, <2>7
<1>13. OwnerRight'
  <2>1. Going' => rused'[owner'] # None
    BY <1>7, <1>12 DEF Inside
  <2> QED BY <1>9, <2>1 DEF OwnerRight
<1>14. AllShown'
  <2> SUFFICES ASSUME Going', NEW t \in Seats, rused'[t] # None, Watching(rused[t])' PROVE Shown(rused[t])'
    BY DEF AllShown
  <2>1. PICK y : down' = ToSeats(H, y) /\ \A me : Told(me, RoomView, y) = RoomView'
    BY <1>12
  <2>2. t # s /\ rused'[t] = rused[t] /\ t \in H
    BY <1>6, <1>7 DEF Inside
  <2>3. PICK x : x = rused[t] /\ x = rused'[t]
    BY <2>2
  <2>4. x \in Conns /\ Sequence(down[x]) /\ rused[t] # None
    <3>1. Held(t) /\ rused[t] # None
      BY <1>3, <2>2
    <3>2. x \in Conns
      BY <1>0, <2>3, <3>1, Seated
    <3> QED BY <1>0, <3>1, <3>2 DEF TalkTyped
  <2>5. PICK e : e = <<y>>
    OBVIOUS
  <2>6. Sequence(e) /\ down'[x] = down[x] \o e
    <3>1. down' = Sending(H, e) /\ Sequence(e)
      BY <1>0, <2>1, <2>5, ToSeatsSending, SequenceShort
    <3> QED BY <1>0, <2>2, <2>3, <2>4, <3>1, Sendings
  <2>7. Watching(x)
    BY <1>0, <2>3, <2>4, <2>6, DoomedOn DEF Watching
  <2>8. Shown(x)
    BY <1>0, <1>12, <2>3, <2>4, <2>7 DEF AllShown
  <2>9. PICK me, d, v, w : me = my_id[x] /\ d = down[x] /\ v = OwnView(x) /\ w = RoomView
    OBVIOUS
  <2>10. Shows(me, d, Len(d), v, w) /\ Sequence(d)
    BY <2>4, <2>8, <2>9 DEF Shown
  <2>11. Shows(me, d \o <<y>>, Len(d \o <<y>>), v, Told(me, w, y))
    BY <2>10, ShowsMore
  <2>12. Told(me, w, y) = RoomView'
    BY <2>1, <2>9
  <2>13. Shown(x)'
    BY <1>0, <2>5, <2>6, <2>9, <2>11, <2>12 DEF Shown, OwnView
  <2> QED BY <2>3, <2>13 DEF Shown, OwnView
<1>15. ShownTyped'
  BY <1>0 DEF ShownTyped
<1> QED BY <1>8, <1>13, <1>14, <1>15 DEF RoomInv

\* Nobody is led back to the choice of a room by lines.
LEMMA TakesEnter ==
  ASSUME NEW p, NEW d, NEW n \in Nat, NEW q, q = "enter", Takes(p, d, n, q)
  PROVE  n = 0
<1> SUFFICES ASSUME n # 0 PROVE FALSE
  OBVIOUS
<1>1. PICK r \in [0 .. n -> Places] :
        /\ r[0] = p /\ r[n] = q
        /\ \A k \in 1 .. n : r[k - 1] \in Reading /\ r[k] # "puzzled" /\ r[k] = After(r[k - 1], d[k])
  BY DEF Takes
<1>2. PICK a, b : a = r[n - 1] /\ b = d[n]
  OBVIOUS
<1>3. n \in 1 .. n
  OBVIOUS
<1>4. a \in Reading /\ q = After(a, b)
  BY <1>1, <1>2, <1>3
<1>5. After(a, b) # "enter"
  BY <1>4 DEF After, Reading
<1> QED BY <1>4, <1>5

\* A newcomer who looks for the room has read all lines before it is let in.
LEMMA NothingBefore ==
  ASSUME IInv, NEW x \in Conns, state[x] = 2, ~Holds(x), Watching(x)
  PROVE  down[x] = <<>>
<1>1. InTouch(x) /\ Sequence(down[x])
  BY DEF IInv, AllInTouch, TalkTyped
<1>2. Ahead(x)
  BY <1>1 DEF InTouch, Watching, Gone
<1>3. PICK q \in Places : Takes(cpc[x], down[x], Len(down[x]), q) /\ View(x, q)
  BY <1>2 DEF Ahead, Watching
<1>4. q = "enter"
  BY <1>3 DEF View
<1>5. PICK p, d, n : p = cpc[x] /\ d = down[x] /\ n = Len(d)
  OBVIOUS
<1>6. n \in Nat /\ Takes(p, d, n, q)
  BY <1>1, <1>3, <1>5, SequenceLen
<1>7. n = 0
  BY <1>4, <1>6, TakesEnter
<1> QED BY <1>1, <1>5, <1>7, SequenceLen

\* The names f of the seats S.
NamesIn(f, S) == {f[t] : t \in S}

\* Who is in the room before the newcomer in seat s.
Earlier(s) == Inside \cup {t \in Newcomers : t < s}

\* What a newcomer in seat s shows after its welcome.
LEMMA Welcomed ==
  ASSUME NEW s \in Seats, NEW v, NEW f, owner \in Seats, \A t \in Seats : f[t] = NameOf(players[t]),
         f[s] = f[owner] => s = owner
  PROVE  Told(f[s], v, Welcome(s)) = ViewOf(NamesIn(f, (Earlier(s) \cup {s}) \ {owner}), f[owner])
<1>1. PICK W, A, o, me : W = Welcome(s) /\ A = Earlier(s) /\ o = owner /\ me = f[s]
  OBVIOUS
<1>2. A \subseteq Seats
  BY <1>1 DEF Earlier, Inside, Newcomers, Taking
<1>3. W.op = "5" /\ W.who = f[o] /\ W.others = {f[t] : t \in A \ {o}}
  <2>1. W = [op |-> "5", who |-> NameOf(players[o]), others |-> {NameOf(players[t]) : t \in A \ {o}}]
    BY <1>1 DEF Welcome, Earlier
  <2>2. {NameOf(players[t]) : t \in A \ {o}} = {f[t] : t \in A \ {o}}
    BY <1>2
  <2> QED BY <1>1, <2>1, <2>2
<1>4. PICK P : P = W.others \cup (IF me = W.who THEN {} ELSE {me})
  OBVIOUS
<1>5. P = {f[t] : t \in (A \cup {s}) \ {o}}
  <2>1. CASE s = o
    BY <1>1, <1>3, <1>4, <2>1
  <2>2. CASE s # o
    <3>1. me # W.who
      BY <1>1, <1>3, <2>2
    <3>2. P = {f[t] : t \in A \ {o}} \cup {f[s]}
      BY <1>1, <1>3, <1>4, <3>1
    <3> QED BY <2>2, <3>2
  <2> QED BY <2>1, <2>2
<1>6. Told(me, v, W) = [player |-> P, master |-> f[o]]
  BY <1>3, <1>4 DEF Told
<1> QED BY <1>1, <1>5, <1>6 DEF ViewOf, NamesIn

\* The newcomers are let in: who was there is told of them, and they of the room.
LEMMA AdmitRoom ==
  ASSUME RoomInv, IInv', Admit
  PROVE  RoomInv'
<1>0. /\ IInv /\ TalkTyped /\ RoomRight /\ ShownTyped /\ SignedRight /\ KnownRight /\ OwnerRight /\ AllShown
      /\ used /\ ~in_game
      /\ UNCHANGED <<state, name, used, in_game, players, owner, heirless, up, cpc, my_id, master, player>>
  BY DEF RoomInv, IInv, Admit, conns, client
<1>1. PICK I, N, M, f : I = Inside /\ N = Newcomers /\ M = I \cup N /\ f = [t \in Seats |-> NameOf(players[t])]
  OBVIOUS
<1>2. /\ M \subseteq Seats
      /\ \A s \in Seats : (Held(s) <=> s \in I) /\ (Held(s)' <=> s \in M)
      /\ \A s \in I : s \notin N /\ players[s] = rused[s] /\ players[s] # None
      /\ \A s \in N : rused[s] = None /\ players[s] # None
      /\ \A s, t \in M : players[s] = players[t] => s = t
      /\ \A s \in M : rused'[s] = players[s] /\ players[s] \in Conns
      /\ \A x \in Conns, s \in M : players[s] = x => down'[x] = down[x] \o AdmitLines(s)
      /\ \A x \in Conns : ~(\E s \in M : players[s] = x) => down'[x] = down[x]
  <2>1. M = Inside \cup Newcomers
    BY <1>1
  <2>2. /\ M \subseteq Seats
        /\ \A s \in Seats : (Held(s) <=> s \in Inside) /\ (Held(s)' <=> s \in M)
        /\ \A s \in Inside : s \notin Newcomers /\ players[s] = rused[s] /\ players[s] # None
        /\ \A s \in Newcomers : rused[s] = None /\ players[s] # None
        /\ \A s, t \in M : players[s] = players[t] => s = t
        /\ \A s \in M : rused'[s] = players[s] /\ players[s] \in Conns
        /\ \A x \in Conns, s \in M : players[s] = x => down'[x] = down[x] \o AdmitLines(s)
        /\ \A x \in Conns : ~(\E s \in M : players[s] = x) => down'[x] = down[x]
    BY <1>0, <2>1, Admits, Zenon
  <2> QED BY <1>1, <2>2
<1>3. \A t \in Seats : f[t] = NameOf(players[t])
  BY <1>1
<1>4. \A s \in M : state[players[s]] = 2 /\ f[s] = name[players[s]] /\ f[s] = my_id[players[s]]
  <2> TAKE s \in M
  <2>1. s \in Seats /\ players[s] \in Conns /\ players[s] # None
    BY <1>1, <1>2
  <2>2. state[players[s]] = 2
    BY <1>0, <2>1 DEF RoomRight
  <2>3. f[s] = name[players[s]]
    BY <1>3, <2>1 DEF NameOf
  <2> QED BY <1>0, <2>1, <2>2, <2>3 DEF KnownRight, Known
<1>5. \A s, t \in M : f[s] = f[t] => s = t
  <2> SUFFICES ASSUME NEW s \in M, NEW t \in M, f[s] = f[t] PROVE s = t
    OBVIOUS
  <2>1. players[s] = players[t]
    BY <1>0, <1>2, <1>4, NamesApart
  <2> QED BY <1>2, <2>1
<1>6. SignedRight' /\ KnownRight'
  <2>1. ASSUME NEW x \in Conns PROVE Grown(x)
    <3>1. ASSUME NEW s \in M, players[s] = x PROVE Grown(x)
      <4>1. PICK e : e = AdmitLines(s)
        OBVIOUS
      <4>2. Sequence(e) /\ \A k \in 1 .. Len(e) : e[k].op # "2"
        BY <1>2, <4>1, AdmitTold
      <4>3. down'[x] = down[x] \o e
        BY <1>2, <3>1, <4>1
      <4> QED BY <4>2, <4>3 DEF Grown
    <3>2. CASE ~\E s \in M : players[s] = x
      BY <1>2, <3>2 DEF Grown
    <3> QED BY <3>1, <3>2
  <2>2. \A x \in Conns : TakenFrom(x)
    BY <1>0 DEF TakenFrom
  <2> QED BY <1>0, <2>1, <2>2, WiresServer
<1>7. Inside' = M
  BY <1>0, <1>2 DEF Held, Inside
<1>8. Going => owner \in M /\ (owner \in N => I = {} /\ owner = 0)
  <2> SUFFICES ASSUME Going PROVE owner \in M /\ (owner \in N => I = {} /\ owner = 0)
    OBVIOUS
  <2>1. CASE rused[owner] # None
    BY <1>0, <1>1, <1>2, <2>1 DEF OwnerRight, Inside
  <2>2. CASE rused[owner] = None
    <3>1. Inside = {} /\ owner = 0 /\ players[0] # None /\ owner \in Seats
      BY <1>0, <2>2 DEF OwnerRight
    <3>2. state[players[owner]] = 2
      BY <1>0, <3>1 DEF RoomRight
    <3> QED BY <1>1, <2>2, <3>1, <3>2 DEF Newcomers, Taking
  <2> QED BY <2>1, <2>2
<1>9. OwnerRight'
  <2>1. Going => rused'[owner] # None
    BY <1>2, <1>8, NoneApart
  <2> QED BY <1>0, <2>1 DEF OwnerRight, Going
<1>10. PICK Q : Q = {f[t] : t \in M \ {owner}}
  OBVIOUS
<1>11. Going => RoomView' = [player |-> Q, master |-> f[owner]]
  <2>1. \A t \in M : NameOf(rused[t])' = f[t]
    BY <1>0, <1>2, <1>3 DEF NameOf
  <2> QED BY <1>0, <1>7, <1>8, <1>10, <2>1 DEF RoomView
<1>12. ASSUME Going, NEW s \in M, NEW x, x = players[s], Watching(x)'
       PROVE  Shown(x)'
  <2>1. s \in Seats /\ x \in Conns /\ state[x] = 2 /\ my_id[x] = f[s] /\ Sequence(down[x])
    <3>1. s \in Seats /\ x \in Conns /\ state[x] = 2 /\ my_id[x] = f[s]
      BY <1>2, <1>4, <1>12
    <3> QED BY <1>0, <3>1 DEF TalkTyped
  <2>2. PICK e, J, me, d, v, T :
          /\ e = AdmitLines(s) /\ J = JoinLines(s) /\ me = my_id[x] /\ d = down[x] /\ v = OwnView(x)
          /\ T = {t \in Newcomers : s \in Newcomers => t > s}
    OBVIOUS
  <2>3. Sequence(e) /\ Sequence(J) /\ Sequence(d) /\ down'[x] = d \o e
    <3>1. Sequence(e) /\ Sequence(J) /\ Sequence(d)
      BY <2>1, <2>2, AdmitTold, JoinLinesSix
    <3> QED BY <1>2, <1>12, <2>1, <2>2, <3>1
  <2>4. Watching(x)
    BY <1>0, <1>12, <2>2, <2>3, DoomedOn DEF Watching
  <2>5. ASSUME NEW P, NEW o
        PROVE  Shows(me, J, Len(J), [player |-> P, master |-> o],
                     [player |-> P \cup {NameOf(players[t]) : t \in T}, master |-> o])
    BY <2>1, <2>2, JoinLinesTell
  <2>6. {NameOf(players[t]) : t \in T} = {f[t] : t \in T}
    <3>1. T \subseteq Seats
      BY <2>2 DEF Newcomers, Taking
    <3> QED BY <1>3, <3>1
  <2>7. CASE s \in I
    <3>1. T = N /\ e = J
      <4>1. T = N
        BY <1>1, <1>2, <2>2, <2>7
      <4>2. <<>> \o J = J
        BY <2>3 DEF Sequence
      <4>3. e = <<>> \o J
        BY <1>1, <1>2, <2>2, <2>7 DEF AdmitLines
      <4> QED BY <4>1, <4>2, <4>3
    <3>2. owner \in I /\ owner \in Seats /\ owner \notin N
      BY <1>1, <1>2, <1>8, <1>12, <2>7
    <3>3. PICK P : P = {f[t] : t \in I \ {owner}}
      OBVIOUS
    <3>4. RoomView = [player |-> P, master |-> f[owner]]
      <4>1. \A t \in I : NameOf(rused[t]) = f[t]
        BY <1>1, <1>2, <1>3
      <4> QED BY <1>1, <3>2, <3>3, <4>1 DEF RoomView
    <3>5. Shows(me, d, Len(d), v, [player |-> P, master |-> f[owner]])
      <4>1. rused[s] = x /\ rused[s] # None
        BY <1>2, <1>12, <2>7
      <4>2. Shown(x)
        BY <1>0, <1>12, <2>1, <2>4, <4>1 DEF AllShown
      <4> QED BY <2>2, <3>4, <4>2 DEF Shown
    <3>6. Q = P \cup {f[t] : t \in T}
      BY <1>1, <1>10, <3>1, <3>2, <3>3
    <3>7. Shows(me, J, Len(J), [player |-> P, master |-> f[owner]], [player |-> Q, master |-> f[owner]])
      BY <2>5, <2>6, <3>6
    <3>8. Shows(me, d \o e, Len(d \o e), v, [player |-> Q, master |-> f[owner]])
      BY <2>3, <3>1, <3>5, <3>7, ShowsJoin
    <3> QED BY <1>0, <1>11, <1>12, <2>2, <2>3, <3>8 DEF Shown, OwnView
  <2>8. CASE s \in N
    <3>1. PICK W, A, w : W = Welcome(s) /\ A = Earlier(s) /\ w = <<W>>
      OBVIOUS
    <3>2. e = w \o J /\ T = {t \in N : t > s}
      BY <1>1, <2>2, <2>8, <3>1 DEF AdmitLines
    <3>3. d = <<>>
      <4>1. ~Holds(x)
        <5> SUFFICES ASSUME NEW t \in Seats, Held(t), rused[t] = x PROVE FALSE
          BY DEF Holds
        <5>1. t \in I /\ players[t] = x
          BY <1>2
        <5>2. t = s
          BY <1>1, <1>2, <1>12, <5>1
        <5> QED BY <1>2, <2>8, <5>1, <5>2
      <4> QED BY <1>0, <2>1, <2>2, <2>4, <4>1, NothingBefore
    <3>4. PICK o \in Seats : o = owner
      BY <1>0 DEF OwnerRight
    <3>5. me = f[s] /\ (me = f[o] => s = o)
      BY <1>5, <1>8, <1>12, <2>1, <2>2, <3>4
    <3>6. PICK P : P = {f[t] : t \in (A \cup {s}) \ {o}}
      OBVIOUS
    <3>7. Told(me, v, W) = [player |-> P, master |-> f[o]]
      <4>1. (\A t \in Seats : f[t] = NameOf(players[t])) /\ s \in Seats /\ owner \in Seats
        BY <1>3, <2>1, <3>4
      <4>2. f[s] = f[owner] => s = owner
        BY <3>4, <3>5
      <4>3. Told(f[s], v, Welcome(s)) = ViewOf(NamesIn(f, (Earlier(s) \cup {s}) \ {owner}), f[owner])
        BY <4>1, <4>2, Welcomed
      <4> QED BY <3>1, <3>4, <3>5, <3>6, <4>3 DEF ViewOf, NamesIn
    <3>8. Shows(me, w, Len(w), v, [player |-> P, master |-> f[o]]) /\ Sequence(w)
      <4>1. Sequence(w) /\ Len(w) = 1
        BY <3>1, SequenceShort
      <4>2. Shows(me, <<W>>, 1, v, Told(me, v, W))
        BY ShowsOne
      <4> QED BY <3>1, <3>7, <4>1, <4>2
    <3>9. Q = P \cup {f[t] : t \in T}
      <4>1. o \notin T
        <5>1. s >= 0
          BY <2>1 DEF Seats
        <5>2. o \in N => o = 0
          BY <1>8, <1>12, <3>4
        <5>3. o \in T => o \in N /\ o > s
          BY <3>2
        <5>4. ~(0 > s)
          BY <2>1, <5>1 DEF Seats
        <5> QED BY <5>2, <5>3, <5>4
      <4>2. M = (A \cup {s}) \cup T
        <5>1. ASSUME NEW t \in N PROVE t < s \/ t = s \/ t > s
          BY <1>1, <1>2, <2>1 DEF Seats
        <5> QED BY <1>1, <2>8, <3>1, <3>2, <5>1 DEF Earlier
      <4>3. M \ {o} = ((A \cup {s}) \ {o}) \cup T
        BY <4>1, <4>2
      <4> QED BY <1>10, <3>4, <3>6, <4>3
    <3>10. Shows(me, J, Len(J), [player |-> P, master |-> f[o]], [player |-> Q, master |-> f[o]])
      BY <2>5, <2>6, <3>9
    <3>11. Shows(me, e, Len(e), v, [player |-> Q, master |-> f[o]])
      BY <2>3, <3>2, <3>8, <3>10, ShowsJoin
    <3>12. d \o e = e
      BY <2>3, <3>3 DEF Sequence
    <3> QED BY <1>0, <1>11, <1>12, <2>2, <2>3, <3>4, <3>11, <3>12 DEF Shown, OwnView
  <2> QED BY <1>1, <2>7, <2>8
<1>13. AllShown'
  <2> SUFFICES ASSUME Going, NEW s \in Seats, rused'[s] # None, Watching(rused[s])' PROVE Shown(rused[s])'
    BY <1>0 DEF AllShown, Going
  <2>1. s \in M
    BY <1>7 DEF Inside
  <2>2. PICK x : x = players[s] /\ x = rused'[s]
    BY <1>2, <2>1
  <2>3. Watching(x)'
    BY <2>2 DEF Watching
  <2>4. Shown(x)'
    BY <1>12, <2>1, <2>2, <2>3
  <2> QED BY <2>2, <2>4 DEF Shown, OwnView
<1>14. ShownTyped'
  BY <1>0 DEF ShownTyped
<1> QED BY <1>6, <1>9, <1>13, <1>14 DEF RoomInv

LEMMA InitRoom == Init => RoomInv
<1> SUFFICES ASSUME Init PROVE RoomInv
  OBVIOUS
<1>1. IInv
  BY InitIInv
<1>2. \A c \in Conns : up[c] = <<>> /\ cpc[c] = "off" /\ state[c] = 0
  BY DEF Init
<1>3. \A me, gone : Signed(<<>>, me, gone) /\ ~Privileged(<<>>)
  BY SequenceShort DEF Signed, Privileged
<1>4. SignedRight
  BY <1>2, <1>3 DEF SignedRight
<1>5. KnownRight
  BY <1>2, <1>3 DEF KnownRight, Known, Claims, LoggedIn
<1>6. ShownTyped
  BY DEF Init, ShownTyped, FunctionOn
<1>7. owner \in Seats
  BY TalkAssumption DEF Init, Seats
<1>8. ~Going
  BY DEF Init, Going
<1> QED BY <1>1, <1>4, <1>5, <1>6, <1>7, <1>8 DEF RoomInv, OwnerRight, AllShown

LEMMA StillRoom ==
  ASSUME RoomInv, IInv', UNCHANGED vars
  PROVE  RoomInv'
<1>0. UNCHANGED <<state, name, used, in_game, players, rused, owner, up, down, cpc, my_id, master, player, heirless>>
  BY DEF vars, conns, room, thread, wires, client
<1>1. IInv /\ ShownTyped /\ SignedRight /\ KnownRight /\ OwnerRight /\ AllShown
  BY DEF RoomInv
<1>2. SignedRight' /\ KnownRight'
  <2>1. \A x \in Conns : Grown(x) /\ TakenFrom(x)
    BY <1>0 DEF Grown, TakenFrom
  <2> QED BY <1>0, <1>1, <2>1, WiresServer
<1>3. OwnerRight' /\ AllShown'
  <2>1. \A s \in Seats : Held(s) => Still(rused[s])
    BY <1>0 DEF Still
  <2> QED BY <1>0, <1>1, <2>1, RoomLeft
<1>4. ShownTyped'
  BY <1>0, <1>1 DEF ShownTyped
<1> QED BY <1>2, <1>3, <1>4 DEF RoomInv

LEMMA NextRoom == RoomInv /\ [Next]_vars => RoomInv'
<1> SUFFICES ASSUME RoomInv, [Next]_vars PROVE RoomInv'
  OBVIOUS
<1>0. IInv'
  BY NextIInv DEF RoomInv
<1>1. CASE Connect
  BY <1>0, <1>1, ConnectRoom
<1>2. CASE GameWon
  BY <1>0, <1>2, GameWonRoom
<1>3. CASE ServerStep
  <2>1. ASSUME NEW c \in Conns, MainRead(c) \/ Refuse(c) \/ Seat(c) PROVE RoomInv'
    BY <1>0, <2>1, MainReadRoom, RefuseRoom, SeatRoom
  <2>2. CASE Admit
    BY <1>0, <2>2, AdmitRoom
  <2>3. ASSUME NEW s \in Seats, RoomLeave(s) \/ RoomStart(s) \/ GameRead(s) PROVE RoomInv'
    BY <1>0, <2>3, RoomLeaveRoom, RoomStartRoom, GameReadRoom
  <2> QED BY <1>3, <2>1, <2>2, <2>3 DEF ServerStep
<1>4. ASSUME NEW c \in Conns, Read(c) PROVE RoomInv'
  BY <1>0, <1>4, ReadRoom
<1>5. ASSUME NEW c \in Conns, ClientStep(c) PROVE RoomInv'
  <2>1. ASSUME NEW n \in Names, Login(c, n) PROVE RoomInv'
    BY <1>0, <2>1, LoginRoom
  <2>2. CASE (\E w \in {"3", "4", "5"} : AskRoom(c, w)) \/ LeaveRoom(c) \/ StartGame(c) \/ GiveUp(c) \/ Kill(c)
    BY <1>0, <2>2, ClientRoom
  <2> QED BY <1>5, <2>1, <2>2 DEF ClientStep
<1>6. CASE UNCHANGED vars
  BY <1>0, <1>6, StillRoom
<1> QED BY <1>1, <1>2, <1>3, <1>4, <1>5, <1>6 DEF Next

\* A client in the room that has read all lines, and whose lines are all read,
\* shows the owner and the players that the room thread has, in whatever order
\* players came, left and were let in (final_cli.c:264-378).
THEOREM RoomsAlwaysAgree == Spec => []RoomsAgree
<1>1. Init => RoomInv
  BY InitRoom
<1>2. RoomInv /\ [Next]_vars => RoomInv'
  BY NextRoom
<1>3. RoomInv => RoomsAgree
  BY RoomFollows
<1> QED BY <1>1, <1>2, <1>3, PTL DEF Spec
=============================================================================
