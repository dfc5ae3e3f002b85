------------------------------ MODULE AddrText ------------------------------
(***************************************************************************)
(* Addresses as text: inet_pton(), inet_ntop() and inet_aton() of libfree. *)
(* A character is a number: a digit, Colon or Dot.  An IPv6 address is a   *)
(* sequence of words, an IPv4 address a sequence of octets, two for each   *)
(* word it takes the place of.                                             *)
(***************************************************************************)
EXTENDS Integers, Sequences, SequencesExt, FiniteSetsExt

CONSTANTS
  HEX, DEC,       \* the bases: 16 and 10
  OCTET,          \* largest octet: 255
  INADDRSZ,       \* octets of an IPv4 address: 4
  NWORD           \* words of an IPv6 address: 8

ASSUME SizesAssumption ==
  /\ HEX \in Nat /\ DEC \in 2 .. HEX /\ OCTET \in Nat \ {0}
  /\ INADDRSZ \in Nat /\ INADDRSZ % 2 = 0 /\ NWORD \in Nat /\ INADDRSZ \div 2 < NWORD

Colon == HEX
Dot == HEX + 1
Chars == 0 .. HEX + 1
WORD == (OCTET + 1) * (OCTET + 1) - 1
V4WORDS == INADDRSZ \div 2

\* What a conversion returns; none: the 0 of inet_pton(), nothing converted.
None == [ok |-> FALSE, addr |-> <<>>]
Some(a) == [ok |-> TRUE, addr |-> a]

-----------------------------------------------------------------------------
\* inet_pton4(): tp, the octets begun; saw_digit: the last of them has a digit.
Pton4Step(st, ch) ==
  LET new == IF st.saw_digit THEN Last(st.tp) * DEC + ch ELSE ch IN
  CASE ~st.ok -> st
    [] st.ok /\ ch < DEC ->
         [ok |-> new <= OCTET /\ (st.saw_digit \/ Len(st.tp) < INADDRSZ),
          tp |-> IF st.saw_digit THEN Append(Front(st.tp), new) ELSE Append(st.tp, new),
          saw_digit |-> TRUE]
    [] st.ok /\ ch >= DEC ->
         [st EXCEPT !.ok = ch = Dot /\ st.saw_digit /\ Len(st.tp) # INADDRSZ,
                    !.saw_digit = FALSE]

\* Mutant: fewer octets than an address has are not noticed.
ShortPton4(src) ==
  LET st == FoldLeft(Pton4Step, [ok |-> TRUE, tp |-> <<>>, saw_digit |-> FALSE], src)
  IN  IF st.ok THEN Some(st.tp) ELSE None

inet_pton4(src) ==
  LET st == FoldLeft(Pton4Step, [ok |-> TRUE, tp |-> <<>>, saw_digit |-> FALSE], src)
  IN  IF st.ok /\ Len(st.tp) >= INADDRSZ THEN Some(st.tp) ELSE None

\* inet_aton(): a part may be missing, and so may the last parts.
AtonPut(st) == [st EXCEPT !.addr = Append(@, st.acc), !.acc = 0, !.ok = st.acc <= OCTET]
AtonStep(st, ch) ==
  CASE ~st.ok -> st
    [] st.ok /\ ch < DEC -> [st EXCEPT !.acc = @ * DEC + ch]
    [] st.ok /\ ch = Dot /\ Len(st.addr) + 1 < INADDRSZ -> AtonPut(st)
    [] OTHER -> [st EXCEPT !.ok = FALSE]
inet_aton(cp) ==
  LET st == FoldLeft(AtonStep, [ok |-> TRUE, addr |-> <<>>, acc |-> 0], cp)
      end == AtonPut(st)
  IN  IF st.ok /\ end.ok
      THEN Some(end.addr \o [i \in 1 .. INADDRSZ - Len(end.addr) |-> 0]) ELSE None

-----------------------------------------------------------------------------
\* The words that two octets each make.
Words(octets) ==
  [i \in 1 .. Len(octets) \div 2 |-> octets[2 * i - 1] * (OCTET + 1) + octets[2 * i]]

NoColon == NWORD + 1      \* colonp = NULL
Fails(st) == [st EXCEPT !.ok = FALSE]
\* The word that was read is stored, if there is space.
Stored(st) ==
  IF Len(st.tp) = NWORD THEN Fails(st)
  ELSE [st EXCEPT !.tp = Append(@, st.val), !.saw_xdigit = FALSE, !.val = 0]

\* One turn of the loop of inet_pton6() over src[i].
Pton6Step(src, st, i) ==
  LET ch == src[i]
      val == st.val * HEX + ch
      quad == inet_pton4(SubSeq(src, st.curtok, Len(src)))
  IN  CASE ~st.ok \/ st.end -> st
        [] st.ok /\ ~st.end /\ ch < HEX ->
             IF val > WORD THEN Fails(st) ELSE [st EXCEPT !.val = val, !.saw_xdigit = TRUE]
        [] st.ok /\ ~st.end /\ ch = Colon ->
             LET next == [st EXCEPT !.curtok = i + 1] IN
             IF st.saw_xdigit THEN Stored(next)
             ELSE IF st.colonp # NoColon THEN Fails(st)
             ELSE [next EXCEPT !.colonp = Len(st.tp)]
        [] OTHER ->
             IF Len(st.tp) + V4WORDS <= NWORD /\ quad.ok
             THEN [st EXCEPT !.tp = @ \o Words(quad.addr), !.saw_xdigit = FALSE, !.end = TRUE]
             ELSE Fails(st)

\* What follows :: is moved to the end by hand, the last word first.
ShiftStep(words, from, to) == [[words EXCEPT ![to] = words[from]] EXCEPT ![from] = 0]
Shift(words, colonp, n) ==
  FoldLeft(LAMBDA w, i : ShiftStep(w, colonp + n + 1 - i, NWORD + 1 - i), words, [i \in 1 .. n |-> i])

\* A leading colon must be followed by another one, at which the loop begins.
inet_pton6(src) ==
  LET leading == src # <<>> /\ src[1] = Colon
      text == IF leading THEN Tail(src) ELSE src
      start == [ok |-> ~leading \/ (text # <<>> /\ text[1] = Colon), tp |-> <<>>,
                colonp |-> NoColon, curtok |-> 1, saw_xdigit |-> FALSE, val |-> 0, end |-> FALSE]
      read == FoldLeft(LAMBDA st, i : Pton6Step(text, st, i), start, [i \in DOMAIN text |-> i])
      st == IF read.ok /\ read.saw_xdigit THEN Stored(read) ELSE read
      words == [i \in 1 .. NWORD |-> IF i <= Len(st.tp) THEN st.tp[i] ELSE 0]
  IN  IF ~st.ok THEN None
      ELSE IF st.colonp # NoColon THEN Some(Shift(words, st.colonp, Len(st.tp) - st.colonp))
      ELSE IF Len(st.tp) = NWORD THEN Some(words) ELSE None

-----------------------------------------------------------------------------
\* sprintf of a number in a base, without leading zeros.
Digits(n, base) ==
  LET len == CHOOSE k \in 1 .. 17 : n < base ^ k /\ (k = 1 \/ n >= base ^ (k - 1))
  IN  [i \in 1 .. len |-> (n \div base ^ (len - i)) % base]

inet_ntop4(octets) ==
  FlattenSeq([i \in DOMAIN octets |-> (IF i > 1 THEN <<Dot>> ELSE <<>>) \o Digits(octets[i], DEC)])

\* The first of the longest runs of two or more words that are 0; base counts from
\* 0, and -1 is no run.
Longer(best, cur) == IF cur.base # -1 /\ (best.base = -1 \/ cur.len > best.len) THEN cur ELSE best
NoRun == [base |-> -1, len |-> 0]
BestRun(words) ==
  LET step(st, i) ==
        IF words[i] # 0 THEN [best |-> Longer(st.best, st.cur), cur |-> NoRun]
        ELSE [st EXCEPT !.cur = IF @.base = -1 THEN [base |-> i - 1, len |-> 1]
                                ELSE [@ EXCEPT !.len = @ + 1]]
      end == FoldLeft(step, [best |-> NoRun, cur |-> NoRun], [i \in DOMAIN words |-> i])
      best == Longer(end.best, end.cur)
  IN  IF best.len < 2 THEN NoRun ELSE best

\* Was it a trailing run?
Trailing(best) == best.base # -1 /\ best.base + best.len = NWORD

\* Is this an encapsulated IPv4 address?
Encapsulated(words, best) ==
  /\ best.base = 0
  /\ \/ best.len = NWORD - V4WORDS
     \/ best.len = NWORD - V4WORDS - 1 /\ words[NWORD - V4WORDS] = WORD

Octets(words) == [i \in 1 .. 2 * Len(words) |->
  IF i % 2 = 1 THEN words[(i + 1) \div 2] \div (OCTET + 1) ELSE words[i \div 2] % (OCTET + 1)]

inet_ntop6(words) ==
  LET best == BestRun(words)
      tail == Encapsulated(words, best)
      piece(i) ==
        IF best.base # -1 /\ i >= best.base /\ i < best.base + best.len
        THEN IF i = best.base THEN <<Colon>> ELSE <<>>
        ELSE IF tail /\ i > NWORD - V4WORDS THEN <<>>
        ELSE (IF i # 0 THEN <<Colon>> ELSE <<>>) \o
             (IF tail /\ i = NWORD - V4WORDS
              THEN inet_ntop4(Octets(SubSeq(words, i + 1, NWORD))) ELSE Digits(words[i + 1], HEX))
  IN  FlattenSeq([i \in 1 .. NWORD |-> piece(i - 1)])
      \o (IF Trailing(best) THEN <<Colon>> ELSE <<>>)

-----------------------------------------------------------------------------
(* What an address in text means, said without reading it from the left. *)

\* The pieces of a text between the separators.
Pieces(text, sep) ==
  LET at == {i \in DOMAIN text : text[i] = sep}
      end(i) == Min({j \in at : j > i} \cup {Len(text) + 1})
      starts == SelectSeq([i \in 1 .. Len(text) + 1 |-> i - 1], LAMBDA i : i = 0 \/ i \in at)
  IN  [k \in DOMAIN starts |-> SubSeq(text, starts[k] + 1, end(starts[k]) - 1)]

\* The value of digits, however many.
Number(t, base) == FoldLeft(LAMBDA n, d : n * base + d, 0, t)
IsNumber(t, base, max) == t # <<>> /\ (\A i \in DOMAIN t : t[i] < base) /\ Number(t, base) <= max

IsQuad(t) == LET p == Pieces(t, Dot) IN
  Len(p) = INADDRSZ /\ \A i \in DOMAIN p : IsNumber(p[i], DEC, OCTET)
QuadOf(t) == LET p == Pieces(t, Dot) IN [i \in DOMAIN p |-> Number(p[i], DEC)]

\* Words separated by colons, of which the last ones may be dotted.
IsPart(t, dotted) == LET p == Pieces(t, Colon) IN
  t = <<>> \/ \A i \in DOMAIN p : IsNumber(p[i], HEX, WORD) \/ (dotted /\ i = Len(p) /\ IsQuad(p[i]))
PartOf(t) ==
  IF t = <<>> THEN <<>>
  ELSE LET p == Pieces(t, Colon) IN
       FlattenSeq([i \in DOMAIN p |->
         IF Contains(p[i], Dot) THEN Words(QuadOf(p[i])) ELSE <<Number(p[i], HEX)>>])

\* Where :: is, if it is there.
Gaps(t) == {i \in 1 .. Len(t) - 1 : t[i] = Colon /\ t[i + 1] = Colon}
Meaning(t) ==
  LET g == Min(Gaps(t))
      left == SubSeq(t, 1, g - 1)
      right == SubSeq(t, g + 2, Len(t))
      n == Len(PartOf(left)) + Len(PartOf(right))
  IN  IF Gaps(t) = {}
      THEN IF t # <<>> /\ IsPart(t, TRUE) /\ Len(PartOf(t)) = NWORD THEN Some(PartOf(t)) ELSE None
      ELSE IF IsPart(left, FALSE) /\ IsPart(right, TRUE) /\ n <= NWORD
           THEN Some(PartOf(left) \o
                     (IF n < NWORD THEN [i \in 1 .. NWORD - n |-> 0] \o PartOf(right)
                      ELSE [i \in 1 .. Len(PartOf(right)) |-> 0]))
           ELSE None

\* A single colon at the end, behind a word, is not noticed.
Trimmed(t) ==
  IF Len(t) > 1 /\ Last(t) = Colon /\ t[Len(t) - 1] < HEX /\ ~Contains(t, Dot) THEN Front(t) ELSE t

\* inet_pton(): a text is accepted if and only if it is an address, and it is
\* converted to the address it means, wherever :: and the dotted part are.  Two
\* things are as they should not be and are said here: a colon at the end is
\* accepted, and a :: that stands for no word at all, which is "silently
\* ignored" by the comment, clears the words behind it.
TextRight(t) ==
  /\ inet_pton4(t) = IF IsQuad(t) THEN Some(QuadOf(t)) ELSE None
  /\ inet_pton6(t) = Meaning(Trimmed(t))
  /\ inet_pton4(t).ok => inet_aton(t) = inet_pton4(t)

\* inet_ntop(): what it writes is read back as the same address, :: is used for
\* the longest run of zeros, and never for one word.
RoundTrip(words) ==
  LET t == inet_ntop6(words)
      run == {n \in 2 .. NWORD : \E i \in 0 .. NWORD - n : \A j \in 1 .. n : words[i + j] = 0}
  IN  /\ inet_pton6(t) = Some(words)
      /\ Gaps(t) = {} <=> run = {}
      /\ run # {} => Max(run) = NWORD - Len(PartOf(SubSeq(t, 1, Min(Gaps(t)) - 1)))
                                      - Len(PartOf(SubSeq(t, Min(Gaps(t)) + 2, Len(t))))
=============================================================================
