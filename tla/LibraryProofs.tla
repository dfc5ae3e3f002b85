--------------------------- MODULE LibraryProofs ----------------------------
(***************************************************************************)
(* Proofs about MCLibrary, in which one of the functions of the library    *)
(* runs.                                                                   *)
(***************************************************************************)
EXTENDS MCLibrary, FiniteSetTheorems, WellFoundedInduction, TLAPS

-----------------------------------------------------------------------------
(* Sequences of sequences.                                                 *)

\* Induction for a set of numbers.
LEMMA AllNaturals ==
  ASSUME NEW S, 0 \in S, \A n \in Nat : n \in S => n + 1 \in S
  PROVE  Nat \subseteq S
<1> DEFINE T == Nat \ S
<1>1. ASSUME T # {} PROVE FALSE
  <2>1. PICK x \in T : \A y \in T : ~ (<<y, x>> \in OpToRel(<, Nat))
    BY <1>1, NatLessThanWellFounded, WFMin, Zenon
  <2>2. x \in Nat /\ x \notin S /\ x # 0 /\ x - 1 \in Nat /\ x - 1 < x
    OBVIOUS
  <2>3. <<x - 1, x>> \in OpToRel(<, Nat)
    BY <2>2 DEF OpToRel
  <2>4. x - 1 \in S
    BY <2>1, <2>2, <2>3, Zenon
  <2>5. (x - 1) + 1 \in S
    BY <2>2, <2>4
  <2> QED BY <2>2, <2>5
<1> QED BY <1>1

\* fl[k] is what the first k sequences of ss are, one after the other.
Joined(ss, E, fl, n) ==
  /\ fl \in [0 .. n -> Seq(E)] /\ fl[0] = <<>>
  /\ \A k \in 1 .. n : fl[k] = fl[k - 1] \o ss[k]

LEMMA JoinedExists ==
  ASSUME NEW E, NEW ss \in Seq(Seq(E))
  PROVE  \E fl : Joined(ss, E, fl, Len(ss))
<1> DEFINE S == {n \in Nat : n <= Len(ss) => \E fl : Joined(ss, E, fl, n)}
<1>1. 0 \in S
  <2>1. Joined(ss, E, [k \in 0 .. 0 |-> <<>>], 0)
    BY DEF Joined
  <2> QED BY <2>1
<1>2. ASSUME NEW n \in Nat, n \in S PROVE n + 1 \in S
  <2> SUFFICES ASSUME n + 1 <= Len(ss) PROVE \E fl : Joined(ss, E, fl, n + 1)
    OBVIOUS
  <2>1. PICK fl : Joined(ss, E, fl, n)
    BY <1>2
  <2>2. PICK last : last = fl[n] \o ss[n + 1]
    OBVIOUS
  <2>3. fl[n] \in Seq(E) /\ ss[n + 1] \in Seq(E)
    BY <2>1 DEF Joined
  <2>4. last \in Seq(E)
    BY <2>2, <2>3
  <2> DEFINE more == [k \in 0 .. n + 1 |-> IF k = n + 1 THEN last ELSE fl[k]]
  <2>5. more \in [0 .. n + 1 -> Seq(E)] /\ more[0] = <<>>
    BY <2>1, <2>4 DEF Joined
  <2>6. ASSUME NEW k \in 1 .. n + 1 PROVE more[k] = more[k - 1] \o ss[k]
    <3>0. k = n + 1 \/ k \in 1 .. n
      OBVIOUS
    <3>1. more[n + 1] = last /\ \A j \in 0 .. n : more[j] = fl[j]
      OBVIOUS
    <3> HIDE DEF more
    <3>2. CASE k = n + 1
      <4>1. k - 1 = n /\ n \in 0 .. n
        BY <3>2
      <4> QED BY <2>2, <3>1, <3>2, <4>1
    <3>3. CASE k \in 1 .. n
      <4>1. k \in 0 .. n /\ k - 1 \in 0 .. n
        BY <3>3
      <4> QED BY <2>1, <3>1, <3>3, <4>1 DEF Joined
    <3> QED BY <3>0, <3>2, <3>3
  <2> HIDE DEF more
  <2>7. Joined(ss, E, more, n + 1)
    BY <2>5, <2>6 DEF Joined
  <2> QED BY <2>7
<1> HIDE DEF S
<1>3. Nat \subseteq S
  BY <1>1, <1>2, AllNaturals
<1> QED BY <1>3 DEF S

\* FlattenSeq() joins them all.
LEMMA FlattenJoins ==
  ASSUME NEW E, NEW ss \in Seq(Seq(E))
  PROVE  \E fl : Joined(ss, E, fl, Len(ss)) /\ FlattenSeq(ss) = fl[Len(ss)]
<1>0. PICK fl : Joined(ss, E, fl, Len(ss))
  BY JoinedExists
<1>a. /\ Len(ss) \in Nat /\ fl[0] = <<>> /\ \A k \in 1 .. Len(ss) : fl[k] = fl[k - 1] \o ss[k]
      /\ \A k \in 1 .. Len(ss) : ss[k] \in Seq(E)
  BY <1>0 DEF Joined
<1>b. Len(ss) # 0 => ss[1] \in Seq(E) /\ fl[1] = ss[1]
  <2> SUFFICES ASSUME Len(ss) # 0 PROVE ss[1] \in Seq(E) /\ fl[1] = ss[1]
    OBVIOUS
  <2>1. 1 \in 1 .. Len(ss) /\ 1 - 1 = 0
    BY <1>a
  <2>2. fl[1] = <<>> \o ss[1] /\ ss[1] \in Seq(E)
    BY <1>a, <2>1
  <2> QED BY <2>2
<1>1. CASE Len(ss) = 0
  BY <1>0, <1>1 DEF FlattenSeq, Joined
<1>2. CASE Len(ss) # 0
  <2> DEFINE body(g) == [k \in 1 .. Len(ss) |-> IF k = 1 THEN ss[k] ELSE g[k - 1] \o ss[k]]
             the == CHOOSE g : g = body(g)
             cut == [k \in 1 .. Len(ss) |-> fl[k]]
  <2>1. cut = body(cut)
    <3>1. ASSUME NEW k \in 1 .. Len(ss) PROVE cut[k] = body(cut)[k]
      <4>1. CASE k = 1
        <5>1. cut[k] = fl[1] /\ body(cut)[k] = ss[1]
          BY <4>1
        <5> QED BY <1>2, <1>b, <5>1
      <4>2. CASE k # 1
        <5>0. k - 1 \in 1 .. Len(ss)
          BY <1>a, <4>2
        <5>1. cut[k] = fl[k] /\ cut[k - 1] = fl[k - 1] /\ fl[k] = fl[k - 1] \o ss[k]
          BY <1>a, <5>0
        <5>2. body(cut)[k] = cut[k - 1] \o ss[k]
          BY <4>2
        <5> QED BY <5>1, <5>2
      <4> QED BY <4>1, <4>2
    <3> QED BY <3>1
  <2>2. the = body(the)
    <3> HIDE DEF body
    <3> QED BY <2>1
  <2>3. FlattenSeq(ss) = the[Len(ss)]
    BY <1>2 DEF FlattenSeq
  <2> HIDE DEF the
  <2> DEFINE S == {n \in Nat : n + 1 \in 1 .. Len(ss) => the[n + 1] = fl[n + 1]}
  <2>4. 0 \in S
    <3>1. the[1] = ss[1]
      BY <1>2, <1>a, <2>2
    <3> QED BY <1>2, <1>b, <3>1
  <2>5. ASSUME NEW n \in Nat, n \in S PROVE n + 1 \in S
    <3> SUFFICES ASSUME (n + 1) + 1 \in 1 .. Len(ss) PROVE the[(n + 1) + 1] = fl[(n + 1) + 1]
      OBVIOUS
    <3>1. PICK m : m = (n + 1) + 1
      OBVIOUS
    <3>2. m \in 1 .. Len(ss) /\ m - 1 = n + 1 /\ m # 1 /\ n + 1 \in 1 .. Len(ss)
      BY <1>a, <3>1
    <3>3. fl[m] = fl[n + 1] \o ss[m]
      BY <1>a, <3>2
    <3>4. the[m] = the[n + 1] \o ss[m]
      BY <2>2, <3>2
    <3>5. the[n + 1] = fl[n + 1]
      BY <2>5, <3>2
    <3> QED BY <3>1, <3>3, <3>4, <3>5
  <2> HIDE DEF S
  <2>6. Nat \subseteq S
    BY <2>4, <2>5, AllNaturals
  <2>7. Len(ss) - 1 \in Nat /\ (Len(ss) - 1) + 1 = Len(ss)
    BY <1>2
  <2>8. the[Len(ss)] = fl[Len(ss)]
    <3>1. Len(ss) - 1 \in S /\ Len(ss) \in 1 .. Len(ss)
      BY <1>2, <1>a, <2>6, <2>7
    <3> QED BY <2>7, <3>1 DEF S
  <2> QED BY <1>0, <2>3, <2>8
<1> QED BY <1>1, <1>2

\* Sequences with the same elements are the same.
LEMMA SameSequence ==
  ASSUME NEW E, NEW s \in Seq(E), NEW t \in Seq(E), Len(s) = Len(t),
         \A i \in 1 .. Len(s) : s[i] = t[i]
  PROVE  s = t
<1>1. s = [i \in 1 .. Len(s) |-> s[i]]
  OBVIOUS
<1>2. t = [i \in 1 .. Len(t) |-> t[i]]
  OBVIOUS
<1> QED BY <1>1, <1>2

LEMMA OneTwo == <<1>> \o <<2>> = <<1, 2>>
<1>1. PICK s, t : s = <<1>> \o <<2>> /\ t = <<1, 2>>
  OBVIOUS
<1>2. s \in Seq(Nat) /\ Len(s) = 2 /\ s[1] = 1 /\ s[2] = 2
  BY <1>1
<1>3. t \in Seq(Nat) /\ Len(t) = 2 /\ t[1] = 1 /\ t[2] = 2
  BY <1>1
<1>4. s = t
  BY <1>2, <1>3, SameSequence
<1> QED BY <1>1, <1>4

\* Two sequences, one after the other.
LEMMA Concatenated ==
  ASSUME NEW E, NEW a \in Seq(E), NEW b \in Seq(E)
  PROVE  /\ Len(a \o b) = Len(a) + Len(b) /\ a \o b \in Seq(E)
         /\ \A k \in 1 .. Len(a) : (a \o b)[k] = a[k]
         /\ \A k \in 1 .. Len(b) : (a \o b)[Len(a) + k] = b[k]
OBVIOUS

\* What is joined depends on the sequences that are joined.
LEMMA JoinedUnique ==
  ASSUME NEW E, NEW ss, NEW tt, NEW fl, NEW gl, NEW n \in Nat,
         Joined(ss, E, fl, n), Joined(tt, E, gl, n), \A k \in 1 .. n : ss[k] = tt[k]
  PROVE  fl[n] = gl[n]
<1> DEFINE S == {k \in Nat : k <= n => fl[k] = gl[k]}
<1>1. 0 \in S
  BY DEF Joined
<1>2. ASSUME NEW k \in Nat, k \in S PROVE k + 1 \in S
  <2> SUFFICES ASSUME k + 1 <= n PROVE fl[k + 1] = gl[k + 1]
    OBVIOUS
  <2>1. PICK m : m = k + 1
    OBVIOUS
  <2>2. m \in 1 .. n /\ m - 1 = k /\ k <= n
    BY <2>1
  <2>3. fl[m] = fl[k] \o ss[m] /\ gl[m] = gl[k] \o tt[m] /\ ss[m] = tt[m]
    BY <2>2 DEF Joined
  <2> QED BY <1>2, <2>1, <2>2, <2>3
<1> HIDE DEF S
<1>3. n \in S
  BY <1>1, <1>2, AllNaturals
<1> QED BY <1>3 DEF S

\* A sequence more at the end.
LEMMA FlattenAppend ==
  ASSUME NEW E, NEW ss \in Seq(Seq(E)), NEW x \in Seq(E)
  PROVE  /\ FlattenSeq(Append(ss, x)) = FlattenSeq(ss) \o x
         /\ FlattenSeq(ss) \in Seq(E)
<1>1. PICK n : n = Len(ss)
  OBVIOUS
<1>2. PICK tt : tt = Append(ss, x)
  OBVIOUS
<1>3. n \in Nat /\ tt \in Seq(Seq(E)) /\ Len(tt) = n + 1 /\ tt[n + 1] = x
      /\ \A k \in 1 .. n : tt[k] = ss[k]
  BY <1>1, <1>2
<1>4. PICK fl : Joined(ss, E, fl, n) /\ FlattenSeq(ss) = fl[n]
  BY <1>1, FlattenJoins
<1>5. PICK gl : Joined(tt, E, gl, n + 1) /\ FlattenSeq(tt) = gl[n + 1]
  BY <1>3, FlattenJoins
<1> DEFINE hl == [k \in 0 .. n |-> gl[k]]
<1>6. Joined(tt, E, hl, n)
  <2>1. \A k \in 0 .. n : hl[k] = gl[k] /\ k \in 0 .. n + 1
    BY <1>3
  <2>2. hl \in [0 .. n -> Seq(E)]
    BY <1>3, <1>5, <2>1 DEF Joined
  <2>3. hl[0] = <<>> /\ \A k \in 1 .. n : k \in 0 .. n /\ k - 1 \in 0 .. n /\ k \in 1 .. n + 1
    BY <1>3, <1>5 DEF Joined
  <2> HIDE DEF hl
  <2>4. \A k \in 1 .. n : hl[k] = hl[k - 1] \o tt[k]
    BY <1>5, <2>1, <2>3 DEF Joined
  <2> QED BY <2>2, <2>3, <2>4 DEF Joined
<1>7. hl[n] = gl[n]
  BY <1>3
<1> HIDE DEF hl
<1>8. fl[n] = gl[n]
  BY <1>3, <1>4, <1>6, <1>7, JoinedUnique
<1>9. gl[n + 1] = gl[n] \o x
  <2>1. n + 1 \in 1 .. n + 1 /\ (n + 1) - 1 = n
    BY <1>3
  <2> QED BY <1>3, <1>5, <2>1 DEF Joined
<1>10. fl[n] \in Seq(E)
  BY <1>3, <1>4 DEF Joined
<1> QED BY <1>2, <1>4, <1>5, <1>8, <1>9, <1>10

LEMMA FlattenTyped ==
  ASSUME NEW E, NEW ss \in Seq(Seq(E))
  PROVE  FlattenSeq(ss) \in Seq(E)
<1>1. <<>> \in Seq(E)
  OBVIOUS
<1> QED BY <1>1, FlattenAppend

\* Two sequences, and five.
LEMMA FlattenFew ==
  ASSUME NEW E, NEW ss \in Seq(Seq(E))
  PROVE  /\ Len(ss) = 2 => FlattenSeq(ss) = ss[1] \o ss[2]
         /\ Len(ss) = 5 => FlattenSeq(ss) = (((ss[1] \o ss[2]) \o ss[3]) \o ss[4]) \o ss[5]
<1>1. PICK n : n = Len(ss) /\ n \in Nat
  OBVIOUS
<1>2. PICK fl : Joined(ss, E, fl, n) /\ FlattenSeq(ss) = fl[n]
  BY <1>1, FlattenJoins
<1>3. \A k \in 1 .. n : fl[k] = fl[k - 1] \o ss[k] /\ ss[k] \in Seq(E)
  <2>1. \A k \in 1 .. n : fl[k] = fl[k - 1] \o ss[k]
    BY <1>2 DEF Joined
  <2>2. \A k \in 1 .. n : ss[k] \in Seq(E)
    BY <1>1
  <2> QED BY <2>1, <2>2
<1>4. n \in 1 .. 5 => fl[1] = ss[1]
  <2> SUFFICES ASSUME n \in 1 .. 5 PROVE fl[1] = ss[1]
    OBVIOUS
  <2>1. 1 \in 1 .. n /\ 1 - 1 = 0
    OBVIOUS
  <2>2. fl[1] = fl[0] \o ss[1] /\ ss[1] \in Seq(E) /\ fl[0] = <<>>
    BY <1>2, <1>3, <2>1 DEF Joined
  <2> QED BY <2>2
<1>5. /\ n \in 2 .. 5 => fl[2] = fl[1] \o ss[2]
      /\ n \in 3 .. 5 => fl[3] = fl[2] \o ss[3]
      /\ n \in 4 .. 5 => fl[4] = fl[3] \o ss[4]
      /\ n = 5 => fl[5] = fl[4] \o ss[5]
  <2>2. ASSUME n \in 2 .. 5 PROVE fl[2] = fl[1] \o ss[2]
    <3>1. 2 \in 1 .. n /\ 2 - 1 = 1
      BY <1>1, <2>2
    <3>2. fl[2] = fl[2 - 1] \o ss[2]
      BY <1>3, <3>1, Zenon
    <3> QED BY <3>1, <3>2
  <2>3. ASSUME n \in 3 .. 5 PROVE fl[3] = fl[2] \o ss[3]
    <3>1. 3 \in 1 .. n /\ 3 - 1 = 2
      BY <1>1, <2>3
    <3>2. fl[3] = fl[3 - 1] \o ss[3]
      BY <1>3, <3>1, Zenon
    <3> QED BY <3>1, <3>2
  <2>4. ASSUME n \in 4 .. 5 PROVE fl[4] = fl[3] \o ss[4]
    <3>1. 4 \in 1 .. n /\ 4 - 1 = 3
      BY <1>1, <2>4
    <3>2. fl[4] = fl[4 - 1] \o ss[4]
      BY <1>3, <3>1, Zenon
    <3> QED BY <3>1, <3>2
  <2>5. ASSUME n = 5 PROVE fl[5] = fl[4] \o ss[5]
    <3>1. 5 \in 1 .. n /\ 5 - 1 = 4
      BY <1>1, <2>5
    <3>2. fl[5] = fl[5 - 1] \o ss[5]
      BY <1>3, <3>1, Zenon
    <3> QED BY <3>1, <3>2
  <2> QED BY <2>2, <2>3, <2>4, <2>5
<1>6. n = 2 => fl[2] = ss[1] \o ss[2]
  <2> SUFFICES ASSUME n = 2 PROVE fl[2] = ss[1] \o ss[2]
    OBVIOUS
  <2>0. n \in 1 .. 5 /\ n \in 2 .. 5
    OBVIOUS
  <2>1. fl[2] = fl[1] \o ss[2] /\ fl[1] = ss[1]
    BY <1>4, <1>5, <2>0, Zenon
  <2> QED BY <2>1, Zenon
<1>7. n = 5 => fl[5] = (((ss[1] \o ss[2]) \o ss[3]) \o ss[4]) \o ss[5]
  <2> SUFFICES ASSUME n = 5 PROVE fl[5] = (((ss[1] \o ss[2]) \o ss[3]) \o ss[4]) \o ss[5]
    OBVIOUS
  <2>1. n \in 1 .. 5 /\ n \in 2 .. 5 /\ n \in 3 .. 5 /\ n \in 4 .. 5 /\ n = 5
    OBVIOUS
  <2>2. /\ fl[1] = ss[1] /\ fl[2] = fl[1] \o ss[2] /\ fl[3] = fl[2] \o ss[3]
        /\ fl[4] = fl[3] \o ss[4] /\ fl[5] = fl[4] \o ss[5]
    BY <1>4, <1>5, <2>1, Zenon
  <2> QED BY <2>2, Zenon
<1> QED BY <1>1, <1>2, <1>6, <1>7

\* Sequences with nothing, with one element, and with two.
LEMMA FlattenBlocks ==
  ASSUME NEW E, NEW ss \in Seq(Seq(E)), NEW z \in 0 .. 2, \A k \in 1 .. Len(ss) : Len(ss[k]) = z
  PROVE  /\ z = 0 => FlattenSeq(ss) = <<>>
         /\ z = 1 => /\ Len(FlattenSeq(ss)) = Len(ss)
                     /\ \A k \in 1 .. Len(ss) : FlattenSeq(ss)[k] = ss[k][1]
         /\ z = 2 => /\ Len(FlattenSeq(ss)) = 2 * Len(ss)
                     /\ \A k \in 1 .. Len(ss) : /\ FlattenSeq(ss)[2 * k - 1] = ss[k][1]
                                                /\ FlattenSeq(ss)[2 * k] = ss[k][2]
<1>1. PICK n : n = Len(ss) /\ n \in Nat
  OBVIOUS
<1>2. PICK fl : Joined(ss, E, fl, n) /\ FlattenSeq(ss) = fl[n]
  BY <1>1, FlattenJoins
<1>3. \A m \in 1 .. n : /\ fl[m] = fl[m - 1] \o ss[m] /\ ss[m] \in Seq(E) /\ Len(ss[m]) = z
                        /\ fl[m - 1] \in Seq(E)
  <2>1. \A m \in 1 .. n : fl[m] = fl[m - 1] \o ss[m]
    BY <1>2 DEF Joined
  <2>2. \A m \in 1 .. n : ss[m] \in Seq(E) /\ Len(ss[m]) = z
    BY <1>1
  <2>3. \A m \in 1 .. n : m - 1 \in 0 .. n
    BY <1>1
  <2>4. \A m \in 0 .. n : fl[m] \in Seq(E)
    BY <1>2 DEF Joined
  <2> QED BY <2>1, <2>2, <2>3, <2>4
<1> DEFINE Right(m) ==
             /\ z = 0 => fl[m] = <<>>
             /\ z = 1 => Len(fl[m]) = m /\ \A k \in 1 .. m : fl[m][k] = ss[k][1]
             /\ z = 2 => /\ Len(fl[m]) = 2 * m
                         /\ \A k \in 1 .. m : fl[m][2 * k - 1] = ss[k][1] /\ fl[m][2 * k] = ss[k][2]
           S == {m \in Nat : m <= n => Right(m)}
<1>4. 0 \in S
  <2>1. fl[0] = <<>> /\ Len(<<>>) = 0
    BY <1>2 DEF Joined
  <2> QED BY <2>1
<1>5. ASSUME NEW i \in Nat, i \in S PROVE i + 1 \in S
  <2> SUFFICES ASSUME i + 1 <= n PROVE Right(i + 1)
    OBVIOUS
  <2>1. PICK m : m = i + 1
    OBVIOUS
  <2>2. m \in 1 .. n /\ m - 1 = i /\ i <= n /\ m \in Nat
    BY <2>1, <1>1
  <2>3. PICK a, b, c : a = fl[i] /\ b = ss[m] /\ c = fl[m]
    OBVIOUS
  <2>4. c = a \o b /\ a \in Seq(E) /\ b \in Seq(E) /\ Len(b) = z
    BY <1>3, <2>2, <2>3
  <2>5. Right(i)
    BY <1>5, <2>2
  <2>6. z = 0 => c = <<>>
    BY <2>3, <2>4, <2>5
  <2>7. ASSUME z = 1 PROVE Len(c) = m /\ \A k \in 1 .. m : c[k] = ss[k][1]
    <3>1. Len(a) = i /\ \A k \in 1 .. i : a[k] = ss[k][1]
      BY <2>3, <2>5, <2>7
    <3>a. /\ Len(c) = i + 1 /\ \A k \in 1 .. i : c[k] = a[k]
          /\ \A k \in 1 .. 1 : c[i + k] = b[k]
      <4>1. PICK la, lb : la = Len(a) /\ lb = Len(b)
        OBVIOUS
      <4>2. /\ Len(c) = la + lb /\ \A k \in 1 .. la : c[k] = a[k]
            /\ \A k \in 1 .. lb : c[la + k] = b[k]
        BY <2>4, <4>1, Concatenated
      <4>3. la = i /\ lb = 1
        BY <2>4, <2>7, <3>1, <4>1
      <4> QED BY <4>2, <4>3
    <3>2. Len(c) = m /\ c[m] = b[1] /\ \A k \in 1 .. i : c[k] = a[k]
      BY <2>1, <3>a
    <3>3. \A k \in 1 .. m : k \in 1 .. i \/ k = m
      BY <2>1
    <3> QED BY <2>3, <3>1, <3>2, <3>3
  <2>8. ASSUME z = 2
        PROVE  Len(c) = 2 * m /\ \A k \in 1 .. m : c[2 * k - 1] = ss[k][1] /\ c[2 * k] = ss[k][2]
    <3>1. Len(a) = 2 * i /\ \A k \in 1 .. i : a[2 * k - 1] = ss[k][1] /\ a[2 * k] = ss[k][2]
      BY <2>3, <2>5, <2>8
    <3>a. /\ Len(c) = 2 * i + 2 /\ \A k \in 1 .. 2 * i : c[k] = a[k]
          /\ \A k \in 1 .. 2 : c[2 * i + k] = b[k]
      <4>1. PICK la, lb : la = Len(a) /\ lb = Len(b)
        OBVIOUS
      <4>2. /\ Len(c) = la + lb /\ \A k \in 1 .. la : c[k] = a[k]
            /\ \A k \in 1 .. lb : c[la + k] = b[k]
        BY <2>4, <4>1, Concatenated
      <4>3. la = 2 * i /\ lb = 2
        BY <2>4, <2>8, <3>1, <4>1
      <4> QED BY <4>2, <4>3
    <3>b. 2 * m - 1 = 2 * i + 1 /\ 2 * m = 2 * i + 2
      BY <2>1
    <3>2. Len(c) = 2 * m /\ c[2 * m - 1] = b[1] /\ c[2 * m] = b[2] /\ \A k \in 1 .. 2 * i : c[k] = a[k]
      BY <3>a, <3>b
    <3>3. \A k \in 1 .. m : k \in 1 .. i \/ k = m
      BY <2>1
    <3>4. \A k \in 1 .. i : 2 * k - 1 \in 1 .. 2 * i /\ 2 * k \in 1 .. 2 * i
      OBVIOUS
    <3> QED BY <2>3, <3>1, <3>2, <3>3, <3>4
  <2>9. Right(m)
    BY <2>3, <2>6, <2>7, <2>8
  <2> QED BY <2>1, <2>9
<1> HIDE DEF S
<1>6. n \in S
  BY <1>1, <1>4, <1>5, AllNaturals
<1>7. Right(n)
  BY <1>1, <1>6 DEF S
<1> QED BY <1>1, <1>2, <1>7

-----------------------------------------------------------------------------
(* getaddrinfo(): nothing is kept.                                         *)

Places == {"check", "unix", "search", "canon", "serv", "end"}
Servs == {"none", "num", "tcp", "udp", "both", "unknown", "path", "longpath"}
Structs == [family : Gai!Families, n : Nat, type : Nat, port : Servs,
            clone : BOOLEAN, ready : BOOLEAN]

\* What the caller asks for and what the resolver knows do not change.
ArgsTyped ==
  /\ host \in {"none", "v4", "v6", "name", "/local"}
  /\ serv \in Servs
  /\ hints.type \in 0 .. 4
  /\ hints.family \in {"unspec", "other"} \cup Gai!Families
  /\ names.inet \in Nat /\ names.inet6 \in Nat /\ names.new \in BOOLEAN

GaiTyped ==
  /\ ArgsTyped
  /\ gpc \in Places /\ sptr \in Nat /\ nport \in Nat /\ list \in Seq(Structs)
  /\ canon \in {"none", "held", "attached"}

\* A name is held only for an address that was found, so a search that fails before
\* it has found anything has none.
Holds ==
  /\ gpc # "end" => rc = "ok"
  /\ gpc = "check" => list = <<>> /\ canon = "none" /\ sptr = 0
  /\ gpc = "unix" => Gai!IsUnix /\ list = <<>> /\ canon = "none"
  /\ gpc = "search" => /\ canon # "attached" /\ (canon = "held" => Gai!WantsCanon)
                       /\ (list = <<>> => canon = "none")
                       /\ (sptr = 0 => list = <<>>)
                       /\ sptr <= Len(Gai!ga_nsearch)
  /\ gpc = "canon" => canon # "attached" /\ (canon = "held" => Gai!WantsCanon)
  /\ gpc = "serv" => canon # "held"

GaiInv == GaiTyped /\ Holds /\ Gai!NothingKept

\* getaddrinfo() begins with nothing.
LEMMA GaiBegins == Gai!Init => GaiInv
<1> SUFFICES ASSUME Gai!Init PROVE GaiInv
  OBVIOUS
<1> USE LibraryAssumption
<1>1. ArgsTyped
  BY DEF Gai!Init, ArgsTyped, Servs, Gai!Families
<1> QED BY <1>1 DEF Gai!Init, GaiInv, GaiTyped, Holds, Places, Gai!NothingKept

\* The searches: none, one for the family that is asked for, or one for each.
LEMMA Searches ==
  ASSUME ArgsTyped
  PROVE  /\ Gai!ga_nsearch \in Seq([host : {"none", "v4", "v6", "name", "/local"}, family : {"inet", "inet6"}])
         /\ Len(Gai!ga_nsearch) \in 0 .. 2
         /\ hints.family \in {"inet", "inet6"} =>
              /\ Len(Gai!ga_nsearch) = 1 /\ Gai!ga_nsearch[1].family = hints.family
         /\ hints.family = "unspec" =>
              /\ Len(Gai!ga_nsearch) = 2 /\ Gai!ga_nsearch[1].family = "inet6"
              /\ Gai!ga_nsearch[2].family = "inet"
         /\ hints.family \in {"local", "other"} => Len(Gai!ga_nsearch) = 0
         /\ \A i \in 1 .. Len(Gai!ga_nsearch) :
              Gai!ga_nsearch[i].host = Gai!HostFor(Gai!ga_nsearch[i].family)
<1>1. \A f \in {"inet", "inet6"} : Gai!HostFor(f) \in {"none", "v4", "v6", "name", "/local"}
  BY DEF ArgsTyped, Gai!HostFor
<1> DEFINE Search(f) == [host |-> Gai!HostFor(f), family |-> f]
<1>2. CASE hints.family = "unspec"
  <2>1. Gai!ga_nsearch = [i \in 1 .. 2 |-> Search(<<"inet6", "inet">>[i])]
    BY <1>2 DEF Gai!ga_nsearch
  <2> QED BY <1>1, <1>2, <2>1
<1>3. CASE hints.family \in {"inet", "inet6"}
  <2>1. Gai!ga_nsearch = [i \in 1 .. 1 |-> Search(<<hints.family>>[i])]
    BY <1>3 DEF Gai!ga_nsearch
  <2> QED BY <1>1, <1>3, <2>1
<1>4. CASE hints.family \in {"local", "other"}
  <2>1. Gai!ga_nsearch = [i \in 1 .. 0 |-> Search(<<>>[i])]
    BY <1>4 DEF Gai!ga_nsearch
  <2> QED BY <1>1, <1>4, <2>1
<1> QED BY <1>2, <1>3, <1>4 DEF ArgsTyped, Gai!Families

\* What the caller asked for stays, and with it the searches.
LEMMA ArgsStay ==
  ASSUME ArgsTyped, UNCHANGED Gai!args
  PROVE  /\ ArgsTyped' /\ Gai!ga_nsearch' = Gai!ga_nsearch /\ Gai!IsUnix' = Gai!IsUnix
         /\ Gai!WantsCanon' = Gai!WantsCanon
BY DEF ArgsTyped, Gai!args, Gai!ga_nsearch, Gai!HostFor, Gai!IsUnix, Gai!WantsCanon

LEMMA TypesStay ==
  ASSUME GaiTyped, UNCHANGED Gai!args, gpc' \in Places, sptr' \in Nat, nport' \in Nat,
         list' = list \/ list' = <<>>, canon' \in {"none", "held", "attached"}
  PROVE  GaiTyped'
<1>1. ArgsTyped'
  BY ArgsStay DEF GaiTyped
<1>2. list \in Seq(Structs) /\ <<>> \in Seq(Structs)
  BY DEF GaiTyped
<1>3. list' \in Seq(Structs)
  BY <1>2
<1> QED BY <1>1, <1>3 DEF GaiTyped

LEMMA CheckKeeps == ASSUME GaiInv, Gai!Check PROVE GaiInv'
<1>1. /\ GaiTyped /\ ArgsTyped /\ gpc = "check" /\ list = <<>> /\ canon = "none" /\ sptr = 0
      /\ rc = "ok" /\ UNCHANGED <<Gai!args, sptr, nport>> /\ sptr \in Nat /\ nport \in Nat
  BY DEF GaiInv, GaiTyped, Gai!Check, Holds
<1>2. Gai!ga_nsearch' = Gai!ga_nsearch /\ Gai!IsUnix' = Gai!IsUnix /\ Len(Gai!ga_nsearch) \in 0 .. 2
  BY <1>1, ArgsStay, Searches
<1>3. /\ list' = <<>> /\ canon' = "none" /\ gpc' \in {"end", "unix", "search"}
      /\ (gpc' = "unix" => Gai!IsUnix) /\ (gpc' # "end" => rc' = "ok")
  BY <1>1 DEF Gai!Check, Gai!Bad
<1>4. GaiTyped'
  BY <1>1, <1>3, TypesStay DEF Places
<1>5. Holds'
  BY <1>1, <1>2, <1>3 DEF Holds
<1>6. (Gai!NothingKept)'
  BY <1>3 DEF Gai!NothingKept
<1> QED BY <1>4, <1>5, <1>6 DEF GaiInv

\* Structures for the addresses of a family.
LEMMA MadeTyped ==
  ASSUME ArgsTyped, NEW f \in Gai!Families, NEW n \in Nat
  PROVE  /\ Gai!Made(f, n) \in Seq(Structs) /\ Len(Gai!Made(f, n)) = n
         /\ \A i \in 1 .. n : Gai!Made(f, n)[i] = Gai!Struct(f, i, hints.type, hints.type = 0, TRUE)
<1>1. \A i \in 1 .. n : Gai!Struct(f, i, hints.type, hints.type = 0, TRUE) \in Structs
  BY DEF ArgsTyped, Gai!Struct, Structs, Servs
<1> DEFINE e(i) == Gai!Struct(f, i, hints.type, hints.type = 0, TRUE)
<1>2. Gai!Made(f, n) = [i \in 1 .. n |-> e(i)]
  BY DEF Gai!Made, Gai!ga_aistruct
<1>3. \A i \in 1 .. n : e(i) \in Structs
  BY <1>1
<1> HIDE DEF e
<1>4. Gai!Made(f, n) \in Seq(Structs) /\ Len(Gai!Made(f, n)) = n
      /\ \A i \in 1 .. n : Gai!Made(f, n)[i] = e(i)
  BY <1>2, <1>3
<1> QED BY <1>4 DEF e

LEMMA UnixKeeps == ASSUME GaiInv, Gai!ga_unix PROVE GaiInv'
<1>1. /\ GaiTyped /\ ArgsTyped /\ gpc = "unix" /\ gpc' = "end" /\ list = <<>> /\ canon = "none"
      /\ Gai!IsUnix /\ UNCHANGED <<Gai!args, sptr, nport>>
  BY DEF GaiInv, GaiTyped, Gai!ga_unix, Holds
<1>2. ArgsTyped' /\ Gai!IsUnix'
  BY <1>1, ArgsStay
<1>3. /\ \A k \in DOMAIN Gai!UnixTypes : Gai!UnixTypes[k] \in Nat
      /\ Len(Gai!UnixTypes) \in 1 .. 2 /\ DOMAIN Gai!UnixTypes = 1 .. Len(Gai!UnixTypes)
  <2>1. CASE hints.type = 0
    <3>1. Gai!UnixTypes = <<1, 2>>
      BY <2>1 DEF Gai!UnixTypes, Gai!STREAM, Gai!DGRAM
    <3> QED BY <3>1
  <2>2. CASE hints.type # 0
    <3>1. Gai!UnixTypes = <<hints.type>> /\ hints.type \in Nat
      BY <1>1, <2>2 DEF Gai!UnixTypes, ArgsTyped
    <3> QED BY <3>1
  <2> QED BY <2>1, <2>2
<1>4. canon' \in {"none", "attached"} /\ (rc' # "ok" => canon' = "none")
  BY <1>1 DEF Gai!ga_unix
<1> DEFINE one(t, ready) == Gai!Struct("local", 1, t, FALSE, ready)
<1>5. \A t \in Nat : \A b \in BOOLEAN : one(t, b) \in Structs
  BY DEF Gai!Struct, Structs, Servs, Gai!Families
<1> DEFINE all == [i \in DOMAIN Gai!UnixTypes |-> one(Gai!UnixTypes[i], TRUE)]
<1>a. \A k \in DOMAIN Gai!UnixTypes : /\ one(Gai!UnixTypes[k], TRUE) \in Structs
                                      /\ one(Gai!UnixTypes[k], FALSE) \in Structs
  BY <1>3, <1>5
<1>b. PICK m : m = Len(Gai!UnixTypes) /\ m \in 1 .. 2 /\ DOMAIN Gai!UnixTypes = 1 .. m
  BY <1>3
<1>c. PICK yes, no : /\ yes = [k \in 1 .. m |-> one(Gai!UnixTypes[k], TRUE)]
                     /\ no = [k \in 1 .. m |-> one(Gai!UnixTypes[k], FALSE)]
  OBVIOUS
<1>d. \A k \in 1 .. m : yes[k] \in Structs /\ no[k] \in Structs /\ no[k] = one(Gai!UnixTypes[k], FALSE)
  BY <1>a, <1>b, <1>c
<1>e. all = yes /\ m \in Nat /\ yes \in [1 .. m -> Structs]
  <2> HIDE DEF one
  <2>1. all = yes /\ m \in Nat
    BY <1>b, <1>c
  <2>2. \A k \in 1 .. m : one(Gai!UnixTypes[k], TRUE) \in Structs
    BY <1>a, <1>b
  <2>3. yes \in [1 .. m -> Structs]
    BY <1>c, <2>2
  <2> QED BY <2>1, <2>3
<1>6. yes \in Seq(Structs) /\ Len(yes) = m
  BY <1>e
<1>7. \A k \in 1 .. m : /\ SubSeq(yes, 1, k - 1) \in Seq(Structs)
                        /\ Append(SubSeq(yes, 1, k - 1), no[k]) \in Seq(Structs)
  <2>1. \A k \in 1 .. m : SubSeq(yes, 1, k - 1) \in Seq(Structs)
    BY <1>b, <1>6
  <2>2. \A k \in 1 .. m : Append(SubSeq(yes, 1, k - 1), no[k]) \in Seq(Structs)
    <3>1. \A k \in 1 .. m : no[k] \in Structs
      BY <1>d
    <3> HIDE DEF one
    <3> QED BY <2>1, <3>1
  <2> QED BY <2>1, <2>2
<1>8. <<no[1]>> \in Seq(Structs) /\ no[1] = one(Gai!UnixTypes[1], FALSE)
  <2>1. 1 \in 1 .. m
    BY <1>b
  <2>2. no[1] \in Structs /\ no[1] = one(Gai!UnixTypes[1], FALSE)
    BY <1>d, <2>1
  <2>3. PICK x : x = no[1]
    OBVIOUS
  <2>a. x \in Structs
    BY <2>2, <2>3
  <2>4. <<x>> \in Seq(Structs)
    BY <2>a
  <2> QED BY <2>2, <2>3, <2>4
<1>f. \/ list' = list \/ list' = all \/ list' = <<one(Gai!UnixTypes[1], FALSE)>>
      \/ \E k \in 1 .. m : \/ list' = Append(SubSeq(all, 1, k - 1), one(Gai!UnixTypes[k], FALSE))
                            \/ list' = SubSeq(all, 1, k - 1)
  BY <1>b DEF Gai!ga_unix
<1> HIDE DEF all, one
<1>g. \/ list' \in {list, yes, <<no[1]>>}
      \/ \E k \in 1 .. m : list' \in {Append(SubSeq(yes, 1, k - 1), no[k]), SubSeq(yes, 1, k - 1)}
  BY <1>d, <1>e, <1>8, <1>f
<1>9. list' \in Seq(Structs)
  BY <1>1, <1>6, <1>7, <1>8, <1>g DEF GaiTyped
<1>10. GaiTyped'
  BY <1>1, <1>2, <1>4, <1>9 DEF GaiTyped, Places
<1> QED BY <1>1, <1>2, <1>4, <1>10 DEF GaiInv, Holds, Gai!NothingKept

\* What a search comes to: it goes on with no more or with the addresses it has
\* found, or it is the end.
SearchStep ==
  \/ /\ gpc' = "search" /\ rc' = rc /\ sptr' = sptr + 1 /\ sptr < Len(Gai!ga_nsearch)
     /\ list' \in Seq(Structs) /\ (list' = <<>> => list = <<>> /\ canon' = canon)
     /\ canon' \in {canon, "held"} /\ (canon' = "held" => canon = "held" \/ Gai!WantsCanon)
  \/ /\ gpc' = "end" /\ rc' # "ok" /\ sptr' = sptr /\ list' = <<>>
     /\ canon' = "none" \/ (canon' = "held" /\ rc' = "memory")

LEMMA SearchKeeps ==
  ASSUME GaiInv, gpc = "search", UNCHANGED <<Gai!args, nport>>, SearchStep
  PROVE  GaiInv'
<1>1. GaiTyped /\ ArgsTyped /\ Holds
  BY DEF GaiInv, GaiTyped
<1>2. ArgsTyped' /\ Gai!ga_nsearch' = Gai!ga_nsearch /\ Gai!WantsCanon' = Gai!WantsCanon
      /\ Len(Gai!ga_nsearch) \in 0 .. 2
  BY <1>1, ArgsStay, Searches
<1>3. GaiTyped'
  <2>a. <<>> \in Seq(Structs)
    OBVIOUS
  <2>0. list' \in Seq(Structs)
    BY <2>a, Zenon DEF SearchStep
  <2>1. sptr' \in Nat /\ nport' \in Nat
    BY <1>1 DEF GaiTyped, SearchStep
  <2>2. gpc' \in Places /\ canon' \in {"none", "held", "attached"}
    BY <1>1 DEF GaiTyped, SearchStep, Places
  <2> QED BY <1>2, <2>0, <2>1, <2>2 DEF GaiTyped
<1>4. Holds'
  BY <1>1, <1>2 DEF GaiTyped, SearchStep, Holds
<1> QED BY <1>3, <1>4 DEF GaiInv, SearchStep, Gai!NothingKept

LEMMA CurTyped ==
  ASSUME ArgsTyped, Gai!Searching, sptr \in Nat
  PROVE  /\ Gai!Cur.family \in {"inet", "inet6"} /\ Gai!Cur.host = Gai!HostFor(Gai!Cur.family)
         /\ sptr + 1 \in 1 .. Len(Gai!ga_nsearch)
<1>1. sptr + 1 \in 1 .. Len(Gai!ga_nsearch)
  BY Searches DEF Gai!Searching
<1>2. PICK i : i = sptr + 1
  OBVIOUS
<1>3. Gai!ga_nsearch[i].family \in {"inet", "inet6"}
      /\ Gai!ga_nsearch[i].host = Gai!HostFor(Gai!ga_nsearch[i].family)
  <2>1. i \in 1 .. Len(Gai!ga_nsearch)
    BY <1>1, <1>2
  <2>2. Gai!ga_nsearch[i] \in [host : {"none", "v4", "v6", "name", "/local"}, family : {"inet", "inet6"}]
    <3>1. PICK s : s = Gai!ga_nsearch
      OBVIOUS
    <3> DEFINE Q == [host : {"none", "v4", "v6", "name", "/local"}, family : {"inet", "inet6"}]
    <3>2. s \in Seq(Q) /\ i \in 1 .. Len(s)
      BY <2>1, <3>1, Searches
    <3> HIDE DEF Q
    <3>3. s[i] \in Q
      BY <3>2
    <3> QED BY <3>1, <3>3 DEF Q
  <2>3. Gai!ga_nsearch[i].host = Gai!HostFor(Gai!ga_nsearch[i].family)
    BY <2>1, Searches
  <2> QED BY <2>2, <2>3
<1> QED BY <1>1, <1>2, <1>3 DEF Gai!Cur

LEMMA SearchTextKeeps == ASSUME GaiInv, Gai!SearchText PROVE GaiInv'
<1>1. /\ GaiTyped /\ ArgsTyped /\ Holds /\ gpc = "search" /\ Gai!Searching
      /\ sptr \in Nat /\ list \in Seq(Structs)
  BY DEF GaiInv, GaiTyped, Gai!SearchText, Gai!Searching
<1>2. canon # "attached" /\ (hints.family # "unspec" => sptr = 0 /\ canon = "none")
  BY <1>1, Searches DEF Holds, Gai!Searching, ArgsTyped, Gai!Families
<1>3. Gai!Made(Gai!TextFamily, 1) \in Seq(Structs) /\ Len(Gai!Made(Gai!TextFamily, 1)) = 1
  BY <1>1, MadeTyped DEF Gai!TextFamily, Gai!Families
<1>4. list \o Gai!Made(Gai!TextFamily, 1) \in Seq(Structs) /\ list \o Gai!Made(Gai!TextFamily, 1) # <<>>
  BY <1>1, <1>3
<1> DEFINE found == list \o Gai!Made(Gai!TextFamily, 1)
<1>a. /\ gpc' = "end" /\ rc' \in {"addrfamily", "memory"} /\ list' = <<>> /\ sptr' = sptr
         /\ canon' = canon /\ (rc' = "addrfamily" => hints.family # "unspec")
      \/ /\ gpc' = "search" /\ rc' = rc /\ sptr' = sptr + 1 /\ canon' = canon
         /\ list' = list \o <<>> \/ list' = found
  BY <1>1, <1>2 DEF Gai!SearchText, Gai!Continue, Gai!Bad
<1>b. list \o <<>> = list
  BY <1>1
<1>c. canon \in {"none", "held"}
  BY <1>1, <1>2 DEF GaiTyped
<1> HIDE DEF found
<1>d. found \in Seq(Structs) /\ found # <<>>
  BY <1>4 DEF found
<1>e. sptr < Len(Gai!ga_nsearch)
  BY <1>1 DEF Gai!Searching
<1>5. SearchStep
  BY <1>1, <1>2, <1>a, <1>b, <1>c, <1>d, <1>e DEF SearchStep
<1> QED BY <1>1, <1>5, SearchKeeps DEF Gai!SearchText

LEMMA SearchNameKeeps == ASSUME GaiInv, Gai!SearchName PROVE GaiInv'
<1>1. /\ GaiTyped /\ ArgsTyped /\ Holds /\ gpc = "search" /\ Gai!Searching
      /\ sptr \in Nat /\ list \in Seq(Structs)
  BY DEF GaiInv, GaiTyped, Gai!SearchName, Gai!Searching
<1>2. canon # "attached" /\ (Len(Gai!ga_nsearch) = 1 => sptr = 0 /\ canon = "none")
      /\ (hints.family # "unspec" => Len(Gai!ga_nsearch) = 1)
  BY <1>1, Searches DEF Holds, Gai!Searching, ArgsTyped, Gai!Families
<1>3. Gai!AnswerFamily \in {"inet", "inet6"} /\ Gai!Answer \in Nat
  BY <1>1, CurTyped DEF Gai!AnswerFamily, Gai!Answer, ArgsTyped
<1>4. Gai!Made(Gai!AnswerFamily, Gai!Answer) \in Seq(Structs)
      /\ Len(Gai!Made(Gai!AnswerFamily, Gai!Answer)) = Gai!Answer
  BY <1>1, <1>3, MadeTyped DEF Gai!Families
<1>5. list \o Gai!Made(Gai!AnswerFamily, Gai!Answer) \in Seq(Structs)
      /\ (Gai!Answer > 0 => list \o Gai!Made(Gai!AnswerFamily, Gai!Answer) # <<>>)
  BY <1>1, <1>3, <1>4
<1> DEFINE found == list \o Gai!Made(Gai!AnswerFamily, Gai!Answer)
<1>a. \/ /\ gpc' = "end" /\ rc' # "ok" /\ list' = <<>> /\ sptr' = sptr
         /\ canon' = canon \/ (canon' = "held" /\ rc' = "memory")
         /\ rc' = "memory" \/ Len(Gai!ga_nsearch) = 1
      \/ /\ gpc' = "search" /\ rc' = rc /\ sptr' = sptr + 1 /\ canon' = canon /\ list' = list \o <<>>
      \/ /\ gpc' = "search" /\ rc' = rc /\ sptr' = sptr + 1 /\ list' = found /\ Gai!Answer > 0
         /\ canon' = canon \/ (canon' = "held" /\ Gai!WantsCanon)
  BY <1>1, <1>2 DEF Gai!SearchName, Gai!Continue, Gai!Bad
<1>b. list \o <<>> = list
  BY <1>1
<1>c. canon \in {"none", "held"}
  BY <1>1, <1>2 DEF GaiTyped
<1> HIDE DEF found
<1>d. found \in Seq(Structs) /\ (Gai!Answer > 0 => found # <<>>)
  BY <1>5 DEF found
<1>e. sptr < Len(Gai!ga_nsearch)
  BY <1>1 DEF Gai!Searching
<1>6. SearchStep
  BY <1>1, <1>2, <1>a, <1>b, <1>c, <1>d, <1>e DEF SearchStep
<1> QED BY <1>1, <1>6, SearchKeeps DEF Gai!SearchName

LEMMA SearchEndKeeps == ASSUME GaiInv, Gai!SearchEnd PROVE GaiInv'
<1>1. GaiTyped /\ ArgsTyped /\ Holds /\ gpc = "search" /\ UNCHANGED <<Gai!args, sptr, nport>>
  BY DEF GaiInv, GaiTyped, Gai!SearchEnd
<1>2. ArgsTyped' /\ Gai!WantsCanon' = Gai!WantsCanon
  BY <1>1, ArgsStay
<1>3. \/ /\ gpc' = "end" /\ rc' = "noname" /\ list' = <<>> /\ canon' = "none"
      \/ /\ gpc' = "canon" /\ UNCHANGED <<list, canon, rc>>
  BY <1>1 DEF Gai!SearchEnd, Gai!Bad, Holds
<1>4. sptr' \in Nat /\ nport' \in Nat /\ canon \in {"none", "held", "attached"}
  BY <1>1 DEF GaiTyped
<1>5. GaiTyped'
  BY <1>1, <1>3, <1>4, TypesStay DEF Places
<1> QED BY <1>1, <1>2, <1>3, <1>5 DEF GaiInv, Holds, Gai!NothingKept

LEMMA CanonKeeps == ASSUME GaiInv, Gai!Canon PROVE GaiInv'
<1>1. GaiTyped /\ ArgsTyped /\ Holds /\ gpc = "canon" /\ UNCHANGED <<Gai!args, sptr, nport>>
  BY DEF GaiInv, GaiTyped, Gai!Canon
<1>2. ArgsTyped' /\ Gai!WantsCanon' = Gai!WantsCanon
  BY <1>1, ArgsStay
<1>3. \/ /\ gpc' = "end" /\ rc' = "memory" /\ list' = <<>> /\ canon' = "none"
      \/ /\ gpc' \in {"end", "serv"} /\ UNCHANGED <<list, rc>> /\ canon' \in {"none", "attached"}
  BY <1>1 DEF Gai!Canon, Gai!Bad, Holds, GaiTyped
<1>a. sptr' \in Nat /\ nport' \in Nat
  BY <1>1 DEF GaiTyped
<1>4. GaiTyped'
  BY <1>1, <1>3, <1>a, TypesStay DEF Places
<1>5. rc = "ok"
  BY <1>1 DEF Holds
<1> QED BY <1>1, <1>2, <1>3, <1>4, <1>5 DEF GaiInv, Holds, Gai!NothingKept

\* The calls of ga_port(): none, one, or one for each of TCP and UDP.
LEMMA CallsAre ==
  ASSUME ArgsTyped
  PROVE  /\ hints.type # 0 => Gai!Calls \in {<<>>, <<hints.type>>}
         /\ hints.type = 0 => Gai!Calls \in {<<>>, <<1>>, <<2>>, <<1, 2>>}
         /\ serv = "num" => Gai!Calls # <<>>
<1>1. Gai!Offered(1) \in {<<>>, <<1>>} /\ Gai!Offered(2) \in {<<>>, <<2>>}
      /\ (hints.type \notin {0, 1} => Gai!Offered(1) = <<>>)
      /\ (hints.type \notin {0, 2} => Gai!Offered(2) = <<>>)
      /\ (hints.type = 0 /\ serv = "num" => Gai!Offered(1) = <<1>>)
  BY DEF Gai!Offered, Gai!Known, ArgsTyped
<1>2. /\ <<>> \o <<>> = <<>> /\ <<1>> \o <<>> = <<1>> /\ <<>> \o <<2>> = <<2>>
      /\ <<1>> \o <<2>> = <<1, 2>>
  BY OneTwo
<1> DEFINE both == Gai!Offered(1) \o Gai!Offered(2)
<1>b. PICK p, q : p = Gai!Offered(1) /\ q = Gai!Offered(2)
  OBVIOUS
<1>c. \/ p = <<>> /\ q = <<>> /\ both = <<>>
      \/ p = <<1>> /\ q = <<>> /\ both = <<1>>
      \/ p = <<>> /\ q = <<2>> /\ both = <<2>>
      \/ p = <<1>> /\ q = <<2>> /\ both = <<1, 2>>
  <2>1. p \in {<<>>, <<1>>} /\ q \in {<<>>, <<2>>} /\ both = p \o q
    BY <1>1, <1>b
  <2> HIDE DEF both
  <2> QED BY <1>2, <2>1, Zenon
<1> HIDE DEF both
<1>d. both \in {<<>>, <<1>>, <<2>>, <<1, 2>>}
  BY <1>c
<1>e. hints.type # 0 => both \in {<<>>, <<hints.type>>}
  <2>1. CASE hints.type = 1
    BY <1>1, <1>b, <1>c, <2>1
  <2>2. CASE hints.type = 2
    BY <1>1, <1>b, <1>c, <2>2
  <2>3. CASE hints.type \notin {0, 1, 2}
    BY <1>1, <1>b, <1>c, <2>3
  <2> QED BY <2>1, <2>2, <2>3
<1>f. hints.type = 0 /\ serv = "num" => both # <<>>
  BY <1>1, <1>b, <1>c
<1>3. Gai!Offered(1) \o Gai!Offered(2) \in {<<>>, <<1>>, <<2>>, <<1, 2>>}
      /\ (hints.type # 0 => Gai!Offered(1) \o Gai!Offered(2) \in {<<>>, <<hints.type>>})
      /\ (hints.type = 0 /\ serv = "num" => Gai!Offered(1) \o Gai!Offered(2) # <<>>)
  BY <1>d, <1>e, <1>f DEF both
<1> QED BY <1>3 DEF Gai!Calls, Gai!STREAM, Gai!DGRAM

LEMMA CallsTyped ==
  ASSUME ArgsTyped
  PROVE  Len(Gai!Calls) \in 0 .. 2 /\ \A k \in 1 .. Len(Gai!Calls) : Gai!Calls[k] \in 1 .. 4
<1>1. PICK c, t : c = Gai!Calls /\ t = hints.type /\ t \in 0 .. 4
  BY DEF ArgsTyped
<1>2. c \in {<<>>, <<1>>, <<2>>, <<1, 2>>} \/ (c = <<t>> /\ t \in 1 .. 4)
  BY <1>1, CallsAre
<1>3. Len(c) \in 0 .. 2 /\ \A k \in 1 .. Len(c) : c[k] \in 1 .. 4
  BY <1>2
<1> QED BY <1>1, <1>3

\* GetAddrInfo's FlattenSeq() is that of SequencesExt.
LEMMA GaiFlatten == \A ss : Gai!FlattenSeq(ss) = FlattenSeq(ss)
BY Zenon DEF Gai!FlattenSeq, FlattenSeq

\* What ga_port() makes of a structure.
Ported(a, type) ==
  IF a.clone THEN Gai!ga_clone(a, type)
  ELSE IF a.type = type THEN <<[a EXCEPT !.port = serv]>> ELSE <<a>>

LEMMA PortedTyped ==
  ASSUME ArgsTyped, NEW a \in Structs, NEW type \in Nat
  PROVE  Ported(a, type) \in Seq(Structs)
<1>1. serv \in Servs
  BY DEF ArgsTyped
<1>2. PICK b, c, d : /\ b = [a EXCEPT !.type = type, !.port = serv]
                     /\ c = [b EXCEPT !.clone = FALSE]
                     /\ d = [a EXCEPT !.port = serv]
  OBVIOUS
<1>3. b \in Structs /\ d \in Structs
  BY <1>1, <1>2 DEF Structs
<1>4. c \in Structs
  BY <1>2, <1>3 DEF Structs
<1>5. <<a>> \in Seq(Structs) /\ <<b>> \in Seq(Structs) /\ <<d>> \in Seq(Structs) /\ <<a, c>> \in Seq(Structs)
  BY <1>3, <1>4
<1>6. Ported(a, type) \in {<<a>>, <<b>>, <<d>>, <<a, c>>}
  BY <1>2 DEF Ported, Gai!ga_clone
<1> QED BY <1>5, <1>6

LEMMA PortIsFlat ==
  ASSUME GaiTyped, NEW type \in Nat
  PROVE  \E ss \in Seq(Seq(Structs)) :
           /\ Len(ss) = Len(list) /\ \A i \in 1 .. Len(list) : ss[i] = Ported(list[i], type)
           /\ Gai!ga_port(type) = FlattenSeq(ss)
<1>1. PICK ss : ss = [i \in DOMAIN list |-> Ported(list[i], type)]
  OBVIOUS
<1>2. ArgsTyped /\ list \in Seq(Structs) /\ DOMAIN list = 1 .. Len(list) /\ Len(list) \in Nat
  BY DEF GaiTyped
<1>3. \A i \in 1 .. Len(list) : Ported(list[i], type) \in Seq(Structs)
  BY <1>2, PortedTyped
<1>4. ss \in Seq(Seq(Structs)) /\ Len(ss) = Len(list)
      /\ \A i \in 1 .. Len(list) : ss[i] = Ported(list[i], type)
  BY <1>1, <1>2, <1>3
<1>5. Gai!ga_port(type) = Gai!FlattenSeq(ss)
  BY <1>1 DEF Gai!ga_port, Ported
<1>6. Gai!ga_port(type) = FlattenSeq(ss)
  BY <1>5, GaiFlatten
<1> QED BY <1>4, <1>6

LEMMA PortKeeps == ASSUME GaiInv, Gai!Port PROVE GaiInv'
<1>1. /\ GaiTyped /\ ArgsTyped /\ Holds /\ gpc = "serv" /\ UNCHANGED <<Gai!args, sptr>>
      /\ nport \in Nat /\ rc = "ok" /\ canon \in {"none", "attached"}
  BY DEF GaiInv, GaiTyped, Gai!Port, Holds
<1>2. ArgsTyped' /\ Gai!WantsCanon' = Gai!WantsCanon
  BY <1>1, ArgsStay
<1>3. CASE gpc' = "serv"
  <2>1. PICK type : type = Gai!Calls[nport + 1]
    OBVIOUS
  <2>2. list' = Gai!ga_port(type) /\ nport' = nport + 1 /\ nport < Len(Gai!Calls) /\ UNCHANGED <<canon, rc>>
    BY <1>3, <2>1 DEF Gai!Port, Gai!Bad
  <2>3. type \in Nat
    BY <1>1, <2>1, <2>2, CallsTyped
  <2>4. list' \in Seq(Structs)
    BY <1>1, <2>2, <2>3, PortIsFlat, FlattenTyped
  <2>5. GaiTyped'
    BY <1>1, <1>2, <1>3, <2>2, <2>4 DEF GaiTyped
  <2> QED BY <1>1, <1>3, <2>2, <2>5 DEF GaiInv, Holds, Gai!NothingKept
<1>4. CASE gpc' # "serv"
  <2>1. gpc' = "end" /\ rc' = "memory" /\ list' = <<>> /\ canon' = "none" /\ nport' = nport
    BY <1>1, <1>4 DEF Gai!Port, Gai!Bad
  <2>2. GaiTyped'
    BY <1>1, <2>1, TypesStay DEF Places, GaiTyped
  <2> QED BY <2>1, <2>2 DEF GaiInv, Holds, Gai!NothingKept
<1> QED BY <1>3, <1>4

LEMMA ServEndKeeps == ASSUME GaiInv, Gai!ServEnd PROVE GaiInv'
<1>1. /\ GaiTyped /\ gpc = "serv" /\ UNCHANGED <<Gai!args, sptr, nport>> /\ sptr \in Nat
      /\ nport \in Nat /\ rc = "ok" /\ canon \in {"none", "attached"}
  BY DEF GaiInv, GaiTyped, Gai!ServEnd, Holds
<1>2. gpc' = "end" /\ canon' \in {"none", "attached"}
      /\ (UNCHANGED <<list, rc>> \/ (list' = <<>> /\ canon' = "none"))
  BY <1>1 DEF Gai!ServEnd, Gai!Bad
<1>3. GaiTyped'
  BY <1>1, <1>2, TypesStay DEF Places
<1> QED BY <1>1, <1>2, <1>3 DEF GaiInv, Holds, Gai!NothingKept

LEMMA GaiStep == GaiInv /\ (Gai!Next \/ UNCHANGED gaiVars) => GaiInv'
<1>1. GaiInv /\ Gai!Next => GaiInv'
  BY CheckKeeps, UnixKeeps, SearchTextKeeps, SearchNameKeeps, SearchEndKeeps, CanonKeeps, PortKeeps,
     ServEndKeeps DEF Gai!Next
<1>2. ASSUME GaiInv, UNCHANGED gaiVars PROVE GaiInv'
  <2>1. UNCHANGED Gai!args /\ UNCHANGED <<host, serv, hints, names, gpc, sptr, nport, list, canon, rc>>
    BY <1>2 DEF gaiVars, Gai!args
  <2>2. GaiTyped' /\ ArgsTyped /\ GaiTyped
    BY <1>2, <2>1, TypesStay DEF GaiInv, GaiTyped
  <2>3. Gai!ga_nsearch' = Gai!ga_nsearch /\ Gai!IsUnix' = Gai!IsUnix /\ Gai!WantsCanon' = Gai!WantsCanon
    BY <2>1, <2>2, ArgsStay
  <2> QED BY <1>2, <2>1, <2>2, <2>3 DEF GaiInv, Holds, Gai!NothingKept
<1> QED BY <1>1, <1>2

\* The function that runs stays the same, and only getaddrinfo() changes its state.
LEMMA OnlyGai ==
  ASSUME [MCNext]_MCvars
  PROVE  which' = which /\ (which = "getaddrinfo" => Gai!Next \/ UNCHANGED gaiVars)
BY DEF MCNext, MCvars, Lines, Gais, Write

\* "If we encounter an error we want to free() any dynamic memory that we've allocated"
\* (getaddrinfo.c): whichever step of getaddrinfo() fails, no structure is left, except
\* in ga_unix(), and no name, except one that was not yet attached when memory ran out.
THEOREM NothingEverKept == MCSpec => []NothingKept
<1> DEFINE Inv == which = "getaddrinfo" => GaiInv
<1>1. MCInit => Inv
  BY GaiBegins DEF MCInit
<1>2. Inv /\ [MCNext]_MCvars => Inv'
  BY OnlyGai, GaiStep
<1>3. Inv => NothingKept
  BY DEF NothingKept, GaiInv
<1> QED BY <1>1, <1>2, <1>3, PTL DEF MCSpec

-----------------------------------------------------------------------------
(* getaddrinfo(): the list is what was asked for.                          *)

\* The addresses that are wanted, IPv6 first: how many, and the family and the number
\* of the k-th.
N6 == Gai!AddrsIn("inet6")
N4 == Gai!AddrsIn("inet")
FamilyOf(k) == IF k <= N6 THEN "inet6" ELSE "inet"
NumberOf(k) == IF k <= N6 THEN k ELSE k - N6

\* A structure for the k-th address.
Is(a, k, type, port) ==
  /\ a.family = FamilyOf(k) /\ a.n = NumberOf(k) /\ a.type = type /\ a.port = port
  /\ a.ready

\* The list has one structure for each of the first m addresses; two for each of them.
Listed(m, type, port) ==
  /\ Len(list) = m
  /\ \A k \in 1 .. m : Is(list[k], k, type, port) /\ (list[k].clone <=> hints.type = 0)
ListedTwice(m) ==
  /\ Len(list) = 2 * m
  /\ \A k \in 1 .. m : Is(list[2 * k - 1], k, 1, serv) /\ Is(list[2 * k], k, 2, serv)

\* How many addresses are listed after s searches.
ListedAfter(s) == IF s = 0 THEN 0 ELSE IF s < Len(Gai!ga_nsearch) THEN N6 ELSE N6 + N4

\* After each search and each call of ga_port() the list is right as far as it is.
SoFar ==
  /\ gpc # "serv" /\ gpc # "end" => nport = 0
  /\ gpc \in {"search", "canon", "serv"} =>
       ~Gai!IsUnix /\ hints.family \in {"unspec", "inet", "inet6"}
  /\ gpc = "search" => Listed(ListedAfter(sptr), hints.type, "none")
  /\ gpc = "canon" => N6 + N4 > 0 /\ Listed(N6 + N4, hints.type, "none")
  /\ gpc = "serv" =>
       /\ serv # "none" /\ N6 + N4 > 0 /\ nport <= Len(Gai!Calls)
       /\ nport = 0 => Listed(N6 + N4, hints.type, "none")
       /\ nport = 1 => Listed(N6 + N4, Gai!Calls[1], serv)
       /\ nport = 2 => ListedTwice(N6 + N4)

LEMMA AddrsTyped == ASSUME ArgsTyped PROVE N6 \in Nat /\ N4 \in Nat
BY DEF ArgsTyped, N6, N4, Gai!AddrsIn, Gai!Wanted

\* An address of a family that is not wanted is not asked for.
LEMMA NotWanted ==
  ASSUME ArgsTyped
  PROVE  (hints.family = "inet6" => N4 = 0) /\ (hints.family = "inet" => N6 = 0)
BY DEF N6, N4, Gai!AddrsIn, Gai!Wanted

\* What was asked for stays.
LEMMA AskedStays ==
  ASSUME UNCHANGED Gai!args
  PROVE  /\ N6' = N6 /\ N4' = N4 /\ Gai!Calls' = Gai!Calls /\ Gai!Asked' = Gai!Asked
         /\ Gai!ga_echeck' = Gai!ga_echeck /\ Gai!TypesWanted' = Gai!TypesWanted
BY DEF N6, N4, Gai!AddrsIn, Gai!Wanted, Gai!Calls, Gai!Offered, Gai!Known, Gai!Asked, Gai!IsUnix,
       Gai!ga_echeck, Gai!TypeUnknown, Gai!TypesWanted, Gai!UnixTypes, Gai!args

\* The types that are wanted are those ga_port() is called for.
LEMMA TypesAre ==
  ASSUME ArgsTyped
  PROVE  /\ serv = "none" => Gai!TypesWanted = <<hints.type>>
         /\ serv # "none" => Gai!TypesWanted = Gai!Calls
<1>1. serv = "none" => Gai!TypesWanted = <<hints.type>>
  BY DEF Gai!TypesWanted
<1>2. CASE serv = "num"
  <2>1. hints.type = 0 => Gai!Offered(1) = <<1>> /\ Gai!Offered(2) = <<2>>
    BY <1>2 DEF Gai!Offered, Gai!Known
  <2>2. hints.type = 0 => Gai!Calls = <<1>> \o <<2>>
    BY <2>1 DEF Gai!Calls, Gai!STREAM, Gai!DGRAM
  <2>3. <<1>> \o <<2>> = <<1, 2>>
    BY OneTwo
  <2> QED BY <1>2, <2>2, <2>3 DEF Gai!TypesWanted, Gai!Calls, Gai!STREAM, Gai!DGRAM
<1>3. CASE serv \notin {"none", "num"}
  BY <1>3 DEF Gai!TypesWanted, Gai!Calls
<1> QED BY <1>1, <1>2, <1>3

\* What is asked for of one family.
Quads == Gai!Families \X Nat \X Nat \X Servs
Of(f, n) == [i \in DOMAIN Gai!TypesWanted |-> <<f, n, Gai!TypesWanted[i], serv>>]
Part(f) == FlattenSeq([n \in 1 .. Gai!AddrsIn(f) |-> Of(f, n)])

LEMMA AskedParts ==
  ~(Gai!IsUnix /\ serv = "path" /\ Gai!Wanted("local")) => Gai!Asked = Part("inet6") \o Part("inet")
BY GaiFlatten DEF Gai!Asked, Part, Of

LEMMA TypesTyped ==
  ASSUME ArgsTyped
  PROVE  /\ Len(Gai!TypesWanted) \in 0 .. 2 /\ DOMAIN Gai!TypesWanted = 1 .. Len(Gai!TypesWanted)
         /\ \A k \in 1 .. Len(Gai!TypesWanted) : Gai!TypesWanted[k] \in Nat
<1>1. CASE serv = "none"
  <2>1. Gai!TypesWanted = <<hints.type>> /\ hints.type \in Nat
    BY <1>1, TypesAre DEF ArgsTyped
  <2> QED BY <2>1
<1>2. CASE serv # "none"
  <2>1. PICK c, t : c = Gai!Calls /\ t = hints.type /\ t \in 0 .. 4
    BY DEF ArgsTyped
  <2>2. c \in {<<>>, <<1>>, <<2>>, <<1, 2>>} \/ (c = <<t>> /\ t \in 1 .. 4)
    BY <2>1, CallsAre
  <2>3. Len(c) \in 0 .. 2 /\ DOMAIN c = 1 .. Len(c) /\ \A k \in 1 .. Len(c) : c[k] \in 1 .. 4
    BY <2>2
  <2> QED BY <1>2, <2>1, <2>3, TypesAre
<1> QED BY <1>1, <1>2

LEMMA PartIs ==
  ASSUME ArgsTyped, NEW f \in {"inet", "inet6"}, NEW m \in Nat, m = Gai!AddrsIn(f),
         NEW z \in 0 .. 2, z = Len(Gai!TypesWanted)
  PROVE  /\ Part(f) \in Seq(Quads) /\ (z = 0 => Part(f) = <<>>)
         /\ z = 1 => /\ Len(Part(f)) = m
                     /\ \A k \in 1 .. m : Part(f)[k] = <<f, k, Gai!TypesWanted[1], serv>>
         /\ z = 2 => /\ Len(Part(f)) = 2 * m
                     /\ \A k \in 1 .. m : /\ Part(f)[2 * k - 1] = <<f, k, Gai!TypesWanted[1], serv>>
                                          /\ Part(f)[2 * k] = <<f, k, Gai!TypesWanted[2], serv>>
<1>1. PICK ss : ss = [n \in 1 .. m |-> Of(f, n)]
  OBVIOUS
<1>2. DOMAIN Gai!TypesWanted = 1 .. z /\ \A k \in 1 .. z : Gai!TypesWanted[k] \in Nat
  BY TypesTyped
<1>3. f \in Gai!Families /\ serv \in Servs
  BY DEF Gai!Families, ArgsTyped
<1>4. \A n \in 1 .. m : \A k \in 1 .. z : <<f, n, Gai!TypesWanted[k], serv>> \in Quads
  BY <1>2, <1>3 DEF Quads
<1>5. ASSUME NEW n \in 1 .. m
      PROVE  /\ Of(f, n) \in Seq(Quads) /\ Len(Of(f, n)) = z
             /\ \A k \in 1 .. z : Of(f, n)[k] = <<f, n, Gai!TypesWanted[k], serv>>
  <2>1. Of(f, n) = [k \in 1 .. z |-> <<f, n, Gai!TypesWanted[k], serv>>]
    BY <1>2 DEF Of
  <2> QED BY <1>4, <2>1
<1>6. ss \in Seq(Seq(Quads)) /\ Len(ss) = m /\ \A k \in 1 .. m : ss[k] = Of(f, k) /\ Len(ss[k]) = z
  BY <1>1, <1>5
<1>7. Part(f) = FlattenSeq(ss)
  BY <1>1 DEF Part
<1>8. Part(f) \in Seq(Quads)
  BY <1>6, <1>7, FlattenTyped
<1>9. /\ z = 0 => Part(f) = <<>>
      /\ z = 1 => Len(Part(f)) = m /\ \A k \in 1 .. m : Part(f)[k] = ss[k][1]
      /\ z = 2 => /\ Len(Part(f)) = 2 * m
                  /\ \A k \in 1 .. m : Part(f)[2 * k - 1] = ss[k][1] /\ Part(f)[2 * k] = ss[k][2]
  <2>1. ss \in Seq(Seq(Quads)) /\ z \in 0 .. 2
    BY <1>6
  <2>2. \A k \in 1 .. Len(ss) : Len(ss[k]) = z
    BY <1>6
  <2>3. /\ z = 0 => FlattenSeq(ss) = <<>>
        /\ z = 1 => /\ Len(FlattenSeq(ss)) = Len(ss)
                    /\ \A k \in 1 .. Len(ss) : FlattenSeq(ss)[k] = ss[k][1]
        /\ z = 2 => /\ Len(FlattenSeq(ss)) = 2 * Len(ss)
                    /\ \A k \in 1 .. Len(ss) : /\ FlattenSeq(ss)[2 * k - 1] = ss[k][1]
                                               /\ FlattenSeq(ss)[2 * k] = ss[k][2]
    BY <2>1, <2>2, FlattenBlocks
  <2>4. Len(ss) = m
    BY <1>6
  <2> QED BY <1>7, <2>3, <2>4
<1>10. \A k \in 1 .. m : \A i \in 1 .. z : ss[k][i] = <<f, k, Gai!TypesWanted[i], serv>>
  BY <1>5, <1>6
<1>11. /\ z = 1 => \A k \in 1 .. m : ss[k][1] = <<f, k, Gai!TypesWanted[1], serv>>
       /\ z = 2 => \A k \in 1 .. m : /\ ss[k][1] = <<f, k, Gai!TypesWanted[1], serv>>
                                     /\ ss[k][2] = <<f, k, Gai!TypesWanted[2], serv>>
  <2>1. (z = 1 => 1 \in 1 .. z) /\ (z = 2 => 1 \in 1 .. z /\ 2 \in 1 .. z)
    OBVIOUS
  <2> QED BY <1>10, <2>1
<1>12. PICK pt : pt = Part(f)
  OBVIOUS
<1> QED BY <1>8, <1>9, <1>11, <1>12

\* All that is asked for.
LEMMA AskedIs ==
  ASSUME ArgsTyped, ~(Gai!IsUnix /\ serv = "path" /\ Gai!Wanted("local")),
         NEW z \in 0 .. 2, z = Len(Gai!TypesWanted), NEW m, m = N6 + N4
  PROVE  /\ Gai!Asked \in Seq(Quads) /\ (z = 0 \/ m = 0 => Gai!Asked = <<>>)
         /\ z = 1 => /\ Len(Gai!Asked) = m
                     /\ \A k \in 1 .. m :
                          Gai!Asked[k] = <<FamilyOf(k), NumberOf(k), Gai!TypesWanted[1], serv>>
         /\ z = 2 => /\ Len(Gai!Asked) = 2 * m
                     /\ \A k \in 1 .. m :
                          /\ Gai!Asked[2 * k - 1] = <<FamilyOf(k), NumberOf(k), Gai!TypesWanted[1], serv>>
                          /\ Gai!Asked[2 * k] = <<FamilyOf(k), NumberOf(k), Gai!TypesWanted[2], serv>>
<1>0. N6 \in Nat /\ N4 \in Nat /\ m \in Nat
  BY AddrsTyped
<1>1. PICK p, q, a, b : p = N6 /\ q = N4 /\ a = Part("inet6") /\ b = Part("inet")
  OBVIOUS
<1>2. p \in Nat /\ q \in Nat /\ p = Gai!AddrsIn("inet6") /\ q = Gai!AddrsIn("inet") /\ m = p + q
  BY <1>0, <1>1 DEF N6, N4
<1>3. Gai!Asked = a \o b
  BY <1>1, AskedParts
<1>4. PICK t1, t2 : t1 = Gai!TypesWanted[1] /\ t2 = Gai!TypesWanted[2]
  OBVIOUS
<1>5. /\ a \in Seq(Quads) /\ (z = 0 => a = <<>>)
      /\ z = 1 => Len(a) = p /\ \A k \in 1 .. p : a[k] = <<"inet6", k, t1, serv>>
      /\ z = 2 => /\ Len(a) = 2 * p
                  /\ \A k \in 1 .. p : a[2 * k - 1] = <<"inet6", k, t1, serv>> /\ a[2 * k] = <<"inet6", k, t2, serv>>
  BY <1>1, <1>2, <1>4, PartIs
<1>6. /\ b \in Seq(Quads) /\ (z = 0 => b = <<>>)
      /\ z = 1 => Len(b) = q /\ \A k \in 1 .. q : b[k] = <<"inet", k, t1, serv>>
      /\ z = 2 => /\ Len(b) = 2 * q
                  /\ \A k \in 1 .. q : b[2 * k - 1] = <<"inet", k, t1, serv>> /\ b[2 * k] = <<"inet", k, t2, serv>>
  BY <1>1, <1>2, <1>4, PartIs
<1>7. PICK c : c = a \o b
  OBVIOUS
<1>8. /\ Len(c) = Len(a) + Len(b) /\ c \in Seq(Quads) /\ \A k \in 1 .. Len(a) : c[k] = a[k]
      /\ \A k \in 1 .. Len(b) : c[Len(a) + k] = b[k]
  BY <1>5, <1>6, <1>7, Concatenated
<1>9. z = 0 \/ m = 0 => c = <<>>
  <2>1. z = 0 \/ m = 0 => Len(a) = 0 /\ Len(b) = 0
    <3>1. z = 0 => Len(a) = 0 /\ Len(b) = 0
      BY <1>5, <1>6
    <3>2. m = 0 => p = 0 /\ q = 0
      BY <1>2
    <3>3. (z = 1 => Len(a) = p /\ Len(b) = q) /\ (z = 2 => Len(a) = 2 * p /\ Len(b) = 2 * q)
      BY <1>5, <1>6
    <3> QED BY <3>1, <3>2, <3>3
  <2>2. Len(c) = 0 => c = <<>>
    BY <1>8
  <2> QED BY <1>8, <2>1, <2>2
<1>10. \A k \in 1 .. m : \/ k \in 1 .. p /\ FamilyOf(k) = "inet6" /\ NumberOf(k) = k
                         \/ k - p \in 1 .. q /\ FamilyOf(k) = "inet" /\ NumberOf(k) = k - p
  BY <1>1, <1>2 DEF FamilyOf, NumberOf
<1>11. ASSUME z = 1
       PROVE  Len(c) = m /\ \A k \in 1 .. m : c[k] = <<FamilyOf(k), NumberOf(k), t1, serv>>
  <2>1. Len(a) = p /\ Len(b) = q /\ Len(c) = m
    BY <1>2, <1>5, <1>6, <1>8, <1>11
  <2>2. ASSUME NEW k \in 1 .. m PROVE c[k] = <<FamilyOf(k), NumberOf(k), t1, serv>>
    <3>1. CASE k \in 1 .. p /\ FamilyOf(k) = "inet6" /\ NumberOf(k) = k
      BY <1>5, <1>8, <1>11, <2>1, <3>1
    <3>2. CASE k - p \in 1 .. q /\ FamilyOf(k) = "inet" /\ NumberOf(k) = k - p
      <4>1. PICK j : j = k - p /\ j \in 1 .. q /\ k = p + j
        BY <1>2, <3>2
      <4>2. c[p + j] = b[j] /\ b[j] = <<"inet", j, t1, serv>>
        BY <1>6, <1>8, <1>11, <2>1, <4>1
      <4> QED BY <3>2, <4>1, <4>2
    <3> QED BY <1>10, <3>1, <3>2
  <2> QED BY <2>1, <2>2
<1>12. ASSUME z = 2
       PROVE  /\ Len(c) = 2 * m
              /\ \A k \in 1 .. m : /\ c[2 * k - 1] = <<FamilyOf(k), NumberOf(k), t1, serv>>
                                   /\ c[2 * k] = <<FamilyOf(k), NumberOf(k), t2, serv>>
  <2>0. Len(a) = 2 * p /\ Len(b) = 2 * q /\ Len(c) = Len(a) + Len(b)
    BY <1>5, <1>6, <1>8, <1>12
  <2>1. Len(a) = 2 * p /\ Len(b) = 2 * q /\ Len(c) = 2 * m
    BY <1>2, <2>0
  <2>2. ASSUME NEW k \in 1 .. m
        PROVE  /\ c[2 * k - 1] = <<FamilyOf(k), NumberOf(k), t1, serv>>
               /\ c[2 * k] = <<FamilyOf(k), NumberOf(k), t2, serv>>
    <3>1. CASE k \in 1 .. p /\ FamilyOf(k) = "inet6" /\ NumberOf(k) = k
      <4>a. k \in 1 .. p /\ p \in Nat
        BY <1>2, <3>1
      <4>1. 2 * k - 1 \in 1 .. 2 * p /\ 2 * k \in 1 .. 2 * p
        BY <4>a
      <4>2. c[2 * k - 1] = a[2 * k - 1] /\ c[2 * k] = a[2 * k]
        BY <1>8, <2>1, <4>1
      <4> QED BY <1>5, <1>12, <3>1, <4>2
    <3>2. CASE k - p \in 1 .. q /\ FamilyOf(k) = "inet" /\ NumberOf(k) = k - p
      <4>1. PICK j : j = k - p /\ j \in 1 .. q /\ k = p + j
        BY <1>2, <3>2
      <4>a. p \in Nat /\ q \in Nat
        BY <1>2
      <4>2. /\ 2 * j - 1 \in 1 .. 2 * q /\ 2 * j \in 1 .. 2 * q
            /\ 2 * k - 1 = 2 * p + (2 * j - 1) /\ 2 * k = 2 * p + 2 * j
        BY <4>1, <4>a
      <4>3. c[2 * p + (2 * j - 1)] = b[2 * j - 1] /\ c[2 * p + 2 * j] = b[2 * j]
        BY <1>8, <2>1, <4>2
      <4>4. b[2 * j - 1] = <<"inet", j, t1, serv>> /\ b[2 * j] = <<"inet", j, t2, serv>>
        BY <1>6, <1>12, <4>1
      <4> QED BY <3>2, <4>1, <4>2, <4>3, <4>4
    <3> QED BY <1>10, <3>1, <3>2
  <2> QED BY <2>1, <2>2
<1> QED BY <1>3, <1>4, <1>7, <1>8, <1>9, <1>11, <1>12

\* A list that is right to the end is what was asked for.
LEMMA GivenTyped ==
  ASSUME GaiTyped
  PROVE  /\ Gai!Given \in Seq(Quads) /\ Len(Gai!Given) = Len(list) /\ DOMAIN list = 1 .. Len(list)
         /\ \A i \in 1 .. Len(list) :
              Gai!Given[i] = <<list[i].family, list[i].n, list[i].type, list[i].port>>
<1>1. list \in Seq(Structs) /\ DOMAIN list = 1 .. Len(list) /\ Len(list) \in Nat
  BY DEF GaiTyped
<1>2. \A i \in 1 .. Len(list) : <<list[i].family, list[i].n, list[i].type, list[i].port>> \in Quads
  <2>1. ASSUME NEW i \in 1 .. Len(list)
        PROVE  <<list[i].family, list[i].n, list[i].type, list[i].port>> \in Quads
    <3>1. PICK a : a = list[i]
      OBVIOUS
    <3>2. a \in Structs
      BY <1>1, <3>1
    <3>3. a.family \in Gai!Families /\ a.n \in Nat /\ a.type \in Nat /\ a.port \in Servs
      BY <3>2 DEF Structs
    <3> QED BY <3>1, <3>3 DEF Quads
  <2> QED BY <2>1
<1>3. Gai!Given = [i \in 1 .. Len(list) |-> <<list[i].family, list[i].n, list[i].type, list[i].port>>]
  BY <1>1 DEF Gai!Given
<1> DEFINE e(i) == <<list[i].family, list[i].n, list[i].type, list[i].port>>
<1>4. PICK m : m = Len(list) /\ m \in Nat
  BY <1>1
<1>5. Gai!Given = [i \in 1 .. m |-> e(i)] /\ \A i \in 1 .. m : e(i) \in Quads
  BY <1>2, <1>3, <1>4
<1> HIDE DEF e
<1>6. Gai!Given \in Seq(Quads) /\ Len(Gai!Given) = m /\ \A i \in 1 .. m : Gai!Given[i] = e(i)
  BY <1>4, <1>5
<1> QED BY <1>1, <1>4, <1>6 DEF e

LEMMA GivenOnce ==
  ASSUME GaiTyped, ~(Gai!IsUnix /\ serv = "path" /\ Gai!Wanted("local")),
         Len(Gai!TypesWanted) = 1, Listed(N6 + N4, Gai!TypesWanted[1], serv)
  PROVE  Gai!Given = Gai!Asked /\ \A i \in DOMAIN list : list[i].ready
<1>1. PICK m, t, s : m = N6 + N4 /\ t = Gai!TypesWanted[1] /\ s = serv
  OBVIOUS
<1>2. ArgsTyped /\ m \in Nat
  BY <1>1, AddrsTyped DEF GaiTyped
<1>3. PICK g, a : g = Gai!Given /\ a = Gai!Asked
  OBVIOUS
<1>4. /\ a \in Seq(Quads) /\ Len(a) = m
      /\ \A k \in 1 .. m : a[k] = <<FamilyOf(k), NumberOf(k), t, s>>
  BY <1>1, <1>2, <1>3, AskedIs
<1>5. /\ Len(list) = m
      /\ \A k \in 1 .. m : /\ list[k].family = FamilyOf(k) /\ list[k].n = NumberOf(k)
                           /\ list[k].type = t /\ list[k].port = s /\ list[k].ready
  BY <1>1 DEF Listed, Is
<1>6. /\ g \in Seq(Quads) /\ Len(g) = m /\ DOMAIN list = 1 .. m
      /\ \A k \in 1 .. m : g[k] = <<list[k].family, list[k].n, list[k].type, list[k].port>>
  BY <1>3, <1>5, GivenTyped
<1>7. ASSUME NEW k \in 1 .. m PROVE g[k] = a[k]
  <2>1. PICK b : b = list[k]
    OBVIOUS
  <2>2. b.family = FamilyOf(k) /\ b.n = NumberOf(k) /\ b.type = t /\ b.port = s
    BY <1>5, <2>1
  <2>3. g[k] = <<b.family, b.n, b.type, b.port>>
    BY <1>6, <2>1, Zenon
  <2>4. a[k] = <<FamilyOf(k), NumberOf(k), t, s>>
    BY <1>4, Zenon
  <2> QED BY <2>2, <2>3, <2>4, Zenon
<1>8. g = a
  BY <1>2, <1>4, <1>6, <1>7, SameSequence
<1> QED BY <1>3, <1>5, <1>6, <1>8

LEMMA GivenTwice ==
  ASSUME GaiTyped, ~(Gai!IsUnix /\ serv = "path" /\ Gai!Wanted("local")),
         Gai!TypesWanted = <<1, 2>>, ListedTwice(N6 + N4)
  PROVE  Gai!Given = Gai!Asked /\ \A i \in DOMAIN list : list[i].ready
<1>1. PICK m, s : m = N6 + N4 /\ s = serv
  OBVIOUS
<1>2. ArgsTyped /\ m \in Nat
  BY <1>1, AddrsTyped DEF GaiTyped
<1>3. PICK g, a : g = Gai!Given /\ a = Gai!Asked
  OBVIOUS
<1>a. Len(Gai!TypesWanted) = 2 /\ Gai!TypesWanted[1] = 1 /\ Gai!TypesWanted[2] = 2
  OBVIOUS
<1>4. /\ a \in Seq(Quads) /\ Len(a) = 2 * m
      /\ \A k \in 1 .. m : /\ a[2 * k - 1] = <<FamilyOf(k), NumberOf(k), 1, s>>
                           /\ a[2 * k] = <<FamilyOf(k), NumberOf(k), 2, s>>
  BY <1>1, <1>2, <1>3, <1>a, AskedIs
<1>5. /\ Len(list) = 2 * m
      /\ \A k \in 1 .. m : /\ list[2 * k - 1].family = FamilyOf(k) /\ list[2 * k - 1].n = NumberOf(k)
                           /\ list[2 * k - 1].type = 1 /\ list[2 * k - 1].port = s
                           /\ list[2 * k - 1].ready
      /\ \A k \in 1 .. m : /\ list[2 * k].family = FamilyOf(k) /\ list[2 * k].n = NumberOf(k)
                           /\ list[2 * k].type = 2 /\ list[2 * k].port = s
                           /\ list[2 * k].ready
  BY <1>1 DEF ListedTwice, Is
<1>6. /\ g \in Seq(Quads) /\ Len(g) = 2 * m /\ DOMAIN list = 1 .. 2 * m
      /\ \A k \in 1 .. 2 * m : g[k] = <<list[k].family, list[k].n, list[k].type, list[k].port>>
  BY <1>3, <1>5, GivenTyped
<1>7. ASSUME NEW j \in 1 .. 2 * m PROVE g[j] = a[j] /\ list[j].ready
  <2>1. PICK k \in 1 .. m : j = 2 * k - 1 \/ j = 2 * k
    <3>1. PICK i : i = (j + 1) \div 2
      OBVIOUS
    <3>2. i \in 1 .. m /\ (j = 2 * i - 1 \/ j = 2 * i)
      BY <1>2, <3>1
    <3> QED BY <3>2
  <2>2. CASE j = 2 * k - 1
    <3>1. PICK b : b = list[j]
      OBVIOUS
    <3>2. b.family = FamilyOf(k) /\ b.n = NumberOf(k) /\ b.type = 1 /\ b.port = s /\ b.ready
      BY <1>5, <2>2, <3>1, Zenon
    <3>3. g[j] = <<b.family, b.n, b.type, b.port>>
      BY <1>6, <3>1, Zenon
    <3>4. a[j] = <<FamilyOf(k), NumberOf(k), 1, s>>
      BY <1>4, <2>2, Zenon
    <3> QED BY <3>1, <3>2, <3>3, <3>4, Zenon
  <2>3. CASE j = 2 * k
    <3>1. PICK b : b = list[j]
      OBVIOUS
    <3>2. b.family = FamilyOf(k) /\ b.n = NumberOf(k) /\ b.type = 2 /\ b.port = s /\ b.ready
      BY <1>5, <2>3, <3>1, Zenon
    <3>3. g[j] = <<b.family, b.n, b.type, b.port>>
      BY <1>6, <3>1, Zenon
    <3>4. a[j] = <<FamilyOf(k), NumberOf(k), 2, s>>
      BY <1>4, <2>3, Zenon
    <3> QED BY <3>1, <3>2, <3>3, <3>4, Zenon
  <2> QED BY <2>1, <2>2, <2>3
<1>8. g = a
  BY <1>2, <1>4, <1>6, <1>7, SameSequence
<1> QED BY <1>3, <1>6, <1>7, <1>8

\* getaddrinfo() ends with an error, or with the list.
LEMMA FailsRight ==
  ASSUME UNCHANGED Gai!args, gpc' = "end",
         \/ rc' = "memory"
         \/ rc' = "exit" /\ hints.family = "local"
         \/ rc' \in {"noname", "service", "addrfamily"} /\ Gai!Asked = <<>>
         \/ rc' = Gai!ga_echeck /\ rc' # "ok"
  PROVE  (SoFar /\ Gai!ListRight)'
<1>1. Gai!Asked' = Gai!Asked /\ Gai!ga_echeck' = Gai!ga_echeck /\ hints' = hints
  BY AskedStays DEF Gai!args
<1>2. SoFar'
  BY DEF SoFar
<1>3. Gai!ga_echeck \in {"badflags", "noname", "socktype", "family", "ok"}
  BY DEF Gai!ga_echeck
<1>4. (Gai!ListRight)'
  BY <1>1, <1>3 DEF Gai!ListRight
<1> QED BY <1>2, <1>4

LEMMA EndsRight ==
  ASSUME UNCHANGED Gai!args, gpc' = "end", UNCHANGED <<list, rc>>, rc = "ok",
         Gai!Given = Gai!Asked, list # <<>>, \A i \in DOMAIN list : list[i].ready
  PROVE  (SoFar /\ Gai!ListRight)'
<1>1. Gai!Asked' = Gai!Asked
  BY AskedStays
<1>2. Gai!Given' = Gai!Given
  BY DEF Gai!Given
<1>3. SoFar'
  BY DEF SoFar
<1>4. (Gai!ListRight)'
  BY <1>1, <1>2 DEF Gai!ListRight
<1> QED BY <1>3, <1>4

\* Nothing is asked for.
LEMMA NothingAsked ==
  ASSUME ArgsTyped, ~Gai!IsUnix, (N6 = 0 /\ N4 = 0) \/ Len(Gai!TypesWanted) = 0
  PROVE  Gai!Asked = <<>>
<1>1. PICK z, m : z = Len(Gai!TypesWanted) /\ m = N6 + N4
  OBVIOUS
<1>2. z \in 0 .. 2 /\ (z = 0 \/ m = 0)
  BY <1>1, TypesTyped
<1> QED BY <1>1, <1>2, AskedIs

LEMMA CheckLists == ASSUME GaiInv, SoFar, Gai!Check PROVE (SoFar /\ Gai!ListRight)'
<1>1. /\ GaiTyped /\ ArgsTyped /\ list = <<>> /\ sptr = 0 /\ nport = 0 /\ rc = "ok"
      /\ UNCHANGED Gai!args /\ UNCHANGED <<sptr, nport>>
  BY DEF GaiInv, GaiTyped, Gai!Check, Holds, SoFar
<1>2. ArgsTyped' /\ Gai!ga_nsearch' = Gai!ga_nsearch /\ Gai!IsUnix' = Gai!IsUnix /\ hints' = hints
  BY <1>1, ArgsStay DEF Gai!args
<1>3. CASE gpc' = "end" /\ rc' = Gai!ga_echeck /\ rc' # "ok"
  BY <1>1, <1>3, FailsRight
<1>4. CASE gpc' = "end" /\ rc' = "exit" /\ Gai!ga_echeck = "ok" /\ Gai!ga_nsearch = <<>>
  <2>1. hints.family # "other"
    BY <1>4 DEF Gai!ga_echeck
  <2>2. hints.family = "local"
    BY <1>1, <1>4, <2>1, Searches DEF ArgsTyped, Gai!Families
  <2> QED BY <1>1, <1>4, <2>2, FailsRight
<1>5. CASE gpc' = "unix"
  BY <1>1, <1>5 DEF SoFar, Gai!ListRight
<1>6. CASE gpc' = "search" /\ ~Gai!IsUnix /\ Gai!ga_nsearch # <<>> /\ list' = list
  <2>1. hints.family \in {"unspec", "inet", "inet6"}
    <3>1. Len(Gai!ga_nsearch) # 0
      BY <1>1, <1>6, Searches
    <3> QED BY <1>1, <3>1, Searches DEF ArgsTyped, Gai!Families
  <2>2. ListedAfter(sptr)' = 0
    BY <1>1 DEF ListedAfter
  <2>3. Listed(ListedAfter(sptr), hints.type, "none")'
    BY <1>1, <1>6, <2>2 DEF Listed
  <2> QED BY <1>1, <1>2, <1>6, <2>1, <2>3 DEF SoFar, Gai!ListRight
<1> QED BY <1>3, <1>4, <1>5, <1>6 DEF Gai!Check, Gai!Bad

LEMMA UnixLists == ASSUME GaiInv, SoFar, Gai!ga_unix PROVE (SoFar /\ Gai!ListRight)'
<1>1. /\ GaiTyped /\ ArgsTyped /\ Gai!IsUnix /\ gpc' = "end" /\ host = "/local"
      /\ UNCHANGED Gai!args /\ serv \in {"path", "longpath"}
  BY DEF GaiInv, GaiTyped, Gai!ga_unix, Holds, Gai!IsUnix
<1>2. rc' = "memory" => (SoFar /\ Gai!ListRight)'
  BY <1>1, FailsRight
<1>3. CASE rc' \in {"addrfamily", "service"}
  <2>1. ~(serv = "path" /\ Gai!Wanted("local"))
    BY <1>3 DEF Gai!ga_unix, Gai!Wanted
  <2>2. N6 = 0 /\ N4 = 0
    BY <1>1 DEF N6, N4, Gai!AddrsIn
  <2>3. PICK z, m : z = Len(Gai!TypesWanted) /\ m = N6 + N4
    OBVIOUS
  <2>4. z \in 0 .. 2 /\ m = 0
    BY <1>1, <2>2, <2>3, TypesTyped
  <2>5. Gai!Asked = <<>>
    BY <1>1, <2>1, <2>3, <2>4, AskedIs
  <2> QED BY <1>1, <1>3, <2>5, FailsRight
<1>4. CASE rc' = "ok"
  <2>1. /\ list' = [i \in DOMAIN Gai!UnixTypes |-> Gai!Struct("local", 1, Gai!UnixTypes[i], FALSE, TRUE)]
        /\ serv = "path" /\ Gai!Wanted("local")
    BY <1>4 DEF Gai!ga_unix, Gai!Wanted
  <2>2. PICK u, d : u = Gai!UnixTypes /\ d = DOMAIN u
    OBVIOUS
  <2>3. 1 \in d
    <3>1. u = <<1, 2>> \/ u = <<hints.type>>
      BY <2>2 DEF Gai!UnixTypes, Gai!STREAM, Gai!DGRAM
    <3> QED BY <2>2, <3>1
  <2>4. /\ DOMAIN list' = d
        /\ \A i \in d : list'[i] = Gai!Struct("local", 1, u[i], FALSE, TRUE)
    BY <2>1, <2>2
  <2>5. \A i \in d : /\ list'[i].family = "local" /\ list'[i].n = 1 /\ list'[i].type = u[i]
                     /\ list'[i].port = "none" /\ list'[i].ready
    BY <2>4 DEF Gai!Struct
  <2>6. Gai!Given' = [i \in d |-> <<list'[i].family, list'[i].n, list'[i].type, list'[i].port>>]
    BY <2>4 DEF Gai!Given
  <2>7. Gai!Given' = [i \in d |-> <<"local", 1, u[i], "none">>]
    BY <2>5, <2>6
  <2>8. Gai!Asked = [i \in d |-> <<"local", 1, u[i], "none">>]
    BY <1>1, <2>1, <2>2 DEF Gai!Asked
  <2>9. Gai!Given' = Gai!Asked'
    BY <1>1, <2>7, <2>8, AskedStays
  <2>10. list' # <<>>
    BY <2>3, <2>4
  <2>11. \A i \in DOMAIN list' : list'[i].ready
    BY <2>4, <2>5
  <2> QED BY <1>1, <1>4, <2>9, <2>10, <2>11 DEF SoFar, Gai!ListRight
<1> QED BY <1>2, <1>3, <1>4 DEF Gai!ga_unix

\* More structures after the list.
LEMMA ListedMore ==
  ASSUME GaiTyped, NEW m \in Nat, NEW n \in Nat, NEW f \in {"inet", "inet6"}, UNCHANGED Gai!args,
         Listed(m, hints.type, "none"), list' = list \o Gai!Made(f, n),
         \A k \in m + 1 .. m + n : FamilyOf(k) = f /\ NumberOf(k) = k - m
  PROVE  Listed(m + n, hints.type, "none")'
<1>1. ArgsTyped /\ list \in Seq(Structs) /\ Len(list) = m /\ f \in Gai!Families
  BY DEF GaiTyped, Listed, Gai!Families
<1>2. PICK t, b, made : t = hints.type /\ b = (hints.type = 0) /\ made = Gai!Made(f, n)
  OBVIOUS
<1>3. /\ made \in Seq(Structs) /\ Len(made) = n
      /\ \A i \in 1 .. n : made[i] = Gai!Struct(f, i, t, b, TRUE)
  BY <1>1, <1>2, MadeTyped
<1>4. PICK all : all = list'
  OBVIOUS
<1>5. /\ Len(all) = m + n /\ \A k \in 1 .. m : all[k] = list[k]
      /\ \A i \in 1 .. n : all[m + i] = made[i]
  <2>1. PICK l : l = list /\ l \in Seq(Structs) /\ Len(l) = m
    BY <1>1
  <2>2. all = l \o made
    BY <1>2, <1>4, <2>1
  <2>3. /\ Len(l \o made) = Len(l) + Len(made) /\ \A k \in 1 .. Len(l) : (l \o made)[k] = l[k]
        /\ \A i \in 1 .. Len(made) : (l \o made)[Len(l) + i] = made[i]
    <3>1. made \in Seq(Structs) /\ l \in Seq(Structs)
      BY <1>3, <2>1
    <3> QED BY <3>1, Concatenated
  <2> QED BY <1>3, <2>1, <2>2, <2>3
<1>6. /\ hints' = hints
      /\ \A k \in 1 .. m + n : FamilyOf(k)' = FamilyOf(k) /\ NumberOf(k)' = NumberOf(k)
  BY AskedStays DEF Gai!args, FamilyOf, NumberOf
<1>7. ASSUME NEW k \in 1 .. m + n
      PROVE  /\ all[k].family = FamilyOf(k) /\ all[k].n = NumberOf(k) /\ all[k].type = t
             /\ all[k].port = "none" /\ all[k].ready /\ (all[k].clone <=> t = 0)
  <2>1. CASE k \in 1 .. m
    BY <1>2, <1>5, <2>1 DEF Listed, Is
  <2>2. CASE k \notin 1 .. m
    <3>1. PICK i : i = k - m /\ i \in 1 .. n /\ k = m + i /\ k \in m + 1 .. m + n
      BY <2>2
    <3>2. FamilyOf(k) = f /\ NumberOf(k) = i
      BY <3>1
    <3>3. all[k] = Gai!Struct(f, i, t, b, TRUE)
      BY <1>3, <1>5, <3>1
    <3>4. PICK a : a = Gai!Struct(f, i, t, b, TRUE)
      OBVIOUS
    <3>5. /\ a.family = f /\ a.n = i /\ a.type = t /\ a.port = "none" /\ a.ready
          /\ a.clone = b
      BY <3>4 DEF Gai!Struct
    <3> QED BY <1>2, <3>2, <3>3, <3>4, <3>5
  <2> QED BY <2>1, <2>2
<1> QED BY <1>2, <1>4, <1>5, <1>6, <1>7 DEF Listed, Is

\* The family of the search that is next, and what it adds to what is listed.
LEMMA CurLists ==
  ASSUME ArgsTyped, Gai!Searching, sptr \in Nat, hints.family \in {"unspec", "inet", "inet6"},
         NEW f, f = Gai!Cur.family, NEW n, n = Gai!AddrsIn(f), NEW m, m = ListedAfter(sptr)
  PROVE  /\ f \in {"inet", "inet6"} /\ n \in Nat /\ m \in Nat /\ Gai!Wanted(f)
         /\ hints.family # "unspec" => hints.family = f /\ Len(Gai!ga_nsearch) = 1
         /\ hints.family = "unspec" => Len(Gai!ga_nsearch) = 2
         /\ hints.family = "inet6" => N4 = 0
         /\ hints.family = "inet" => N6 = 0
         /\ ListedAfter(sptr + 1) = m + n
         /\ \A k \in m + 1 .. m + n : FamilyOf(k) = f /\ NumberOf(k) = k - m
<1>1. /\ N6 \in Nat /\ N4 \in Nat /\ N6 = Gai!AddrsIn("inet6") /\ N4 = Gai!AddrsIn("inet")
      /\ (hints.family = "inet6" => N4 = 0) /\ (hints.family = "inet" => N6 = 0)
  BY AddrsTyped, NotWanted DEF N6, N4
<1>2. f = Gai!ga_nsearch[sptr + 1].family /\ sptr < Len(Gai!ga_nsearch)
  BY DEF Gai!Cur, Gai!Searching
<1>3. CASE hints.family = "inet6"
  <2>a. Len(Gai!ga_nsearch) = 1 /\ Gai!ga_nsearch[1].family = "inet6"
    BY <1>3, Searches
  <2>1. sptr = 0 /\ f = "inet6" /\ Len(Gai!ga_nsearch) = 1
    BY <1>2, <2>a
  <2>2. m = 0 /\ n = N6 /\ ListedAfter(sptr + 1) = N6 + N4
    BY <1>1, <2>1 DEF ListedAfter
  <2>3. \A k \in 1 .. N6 : FamilyOf(k) = f /\ NumberOf(k) = k
    BY <1>1, <2>1 DEF FamilyOf, NumberOf
  <2> QED BY <1>1, <1>3, <2>1, <2>2, <2>3 DEF Gai!Wanted
<1>4. CASE hints.family = "inet"
  <2>a. Len(Gai!ga_nsearch) = 1 /\ Gai!ga_nsearch[1].family = "inet"
    BY <1>4, Searches
  <2>1. sptr = 0 /\ f = "inet" /\ Len(Gai!ga_nsearch) = 1
    BY <1>2, <2>a
  <2>2. m = 0 /\ n = N4 /\ ListedAfter(sptr + 1) = N6 + N4
    BY <1>1, <2>1 DEF ListedAfter
  <2>3. \A k \in 1 .. N4 : FamilyOf(k) = f /\ NumberOf(k) = k
    BY <1>1, <1>4, <2>1 DEF FamilyOf, NumberOf
  <2> QED BY <1>1, <1>4, <2>1, <2>2, <2>3 DEF Gai!Wanted
<1>5. CASE hints.family = "unspec" /\ sptr = 0
  <2>1. f = "inet6" /\ Len(Gai!ga_nsearch) = 2
    BY <1>2, <1>5, Searches
  <2>2. m = 0 /\ n = N6 /\ ListedAfter(sptr + 1) = N6
    BY <1>1, <1>5, <2>1 DEF ListedAfter
  <2>3. \A k \in 1 .. N6 : FamilyOf(k) = f /\ NumberOf(k) = k
    BY <1>1, <2>1 DEF FamilyOf, NumberOf
  <2> QED BY <1>1, <1>5, <2>1, <2>2, <2>3 DEF Gai!Wanted
<1>6. CASE hints.family = "unspec" /\ sptr # 0
  <2>a. Len(Gai!ga_nsearch) = 2 /\ Gai!ga_nsearch[2].family = "inet"
    BY <1>6, Searches
  <2>1. sptr = 1 /\ f = "inet" /\ Len(Gai!ga_nsearch) = 2
    BY <1>2, <1>6, <2>a
  <2>2. m = N6 /\ n = N4 /\ ListedAfter(sptr + 1) = N6 + N4
    BY <1>1, <1>6, <2>1 DEF ListedAfter
  <2>3. \A k \in N6 + 1 .. N6 + N4 : FamilyOf(k) = f /\ NumberOf(k) = k - N6
    BY <1>1, <2>1 DEF FamilyOf, NumberOf
  <2> QED BY <1>1, <1>6, <2>1, <2>2, <2>3 DEF Gai!Wanted
<1> QED BY <1>3, <1>4, <1>5, <1>6

\* A search that goes on has listed the addresses of its family.
LEMMA SearchLists ==
  ASSUME GaiInv, SoFar, Gai!Searching, UNCHANGED Gai!args, nport' = nport, gpc' = "search",
         sptr' = sptr + 1, list' = list \o Gai!Made(Gai!Cur.family, Gai!AddrsIn(Gai!Cur.family))
  PROVE  (SoFar /\ Gai!ListRight)'
<1>1. /\ GaiTyped /\ ArgsTyped /\ gpc = "search" /\ sptr \in Nat /\ nport = 0 /\ ~Gai!IsUnix
      /\ hints.family \in {"unspec", "inet", "inet6"} /\ Listed(ListedAfter(sptr), hints.type, "none")
  BY DEF GaiInv, GaiTyped, SoFar, Gai!Searching
<1>2. PICK f, n, m, j : /\ f = Gai!Cur.family /\ n = Gai!AddrsIn(f) /\ m = ListedAfter(sptr)
                        /\ j = ListedAfter(sptr + 1)
  OBVIOUS
<1>3. /\ f \in {"inet", "inet6"} /\ n \in Nat /\ m \in Nat /\ j = m + n
      /\ \A k \in m + 1 .. m + n : FamilyOf(k) = f /\ NumberOf(k) = k - m
  BY <1>1, <1>2, CurLists
<1>4. Listed(m + n, hints.type, "none")'
  BY <1>1, <1>2, <1>3, ListedMore
<1>5. ListedAfter(sptr)' = m + n
  <2>1. Gai!ga_nsearch' = Gai!ga_nsearch /\ N6' = N6 /\ N4' = N4
    BY <1>1, ArgsStay, AskedStays
  <2> QED BY <1>2, <1>3, <2>1 DEF ListedAfter
<1>6. Gai!IsUnix' = Gai!IsUnix /\ hints' = hints
  BY <1>1, ArgsStay DEF Gai!args
<1>7. Listed(ListedAfter(sptr), hints.type, "none")'
  BY <1>4, <1>5 DEF Listed
<1> QED BY <1>1, <1>6, <1>7 DEF SoFar, Gai!ListRight

\* Nothing was found for a name, or an address was not of the family that is wanted.
LEMMA SearchFails ==
  ASSUME GaiInv, SoFar, Gai!Searching, UNCHANGED Gai!args, gpc' = "end",
         \/ rc' = "memory"
         \/ /\ rc' \in {"noname", "addrfamily"} /\ hints.family # "unspec"
            /\ Gai!AddrsIn(Gai!Cur.family) = 0
  PROVE  (SoFar /\ Gai!ListRight)'
<1>1. /\ ArgsTyped /\ gpc = "search" /\ sptr \in Nat /\ ~Gai!IsUnix
      /\ hints.family \in {"unspec", "inet", "inet6"}
  BY DEF GaiInv, GaiTyped, SoFar, Gai!Searching
<1>2. CASE rc' = "memory"
  BY <1>2, FailsRight
<1>3. CASE rc' # "memory"
  <2>1. hints.family = Gai!Cur.family
    BY <1>1, <1>3, CurLists
  <2>2. N6 = 0 /\ N4 = 0
    BY <1>1, <1>3, <2>1, NotWanted DEF N6, N4
  <2>3. Gai!Asked = <<>>
    BY <1>1, <2>2, NothingAsked
  <2> QED BY <1>3, <2>3, FailsRight
<1> QED BY <1>2, <1>3

LEMMA MadeNone ==
  ASSUME GaiTyped, NEW f \in {"inet", "inet6"}
  PROVE  list \o Gai!Made(f, 0) = list /\ list \o <<>> = list
<1>1. PICK l, made : l = list /\ made = Gai!Made(f, 0)
  OBVIOUS
<1>2. l \in Seq(Structs) /\ made \in Seq(Structs) /\ Len(made) = 0
  BY <1>1, MadeTyped DEF GaiTyped, Gai!Families
<1>3. made = <<>>
  BY <1>2
<1>4. l \o <<>> = l
  BY <1>2
<1> QED BY <1>1, <1>3, <1>4

LEMMA SearchTextLists == ASSUME GaiInv, SoFar, Gai!SearchText PROVE (SoFar /\ Gai!ListRight)'
<1>1. /\ GaiTyped /\ ArgsTyped /\ Gai!Searching /\ sptr \in Nat /\ UNCHANGED Gai!args
      /\ nport' = nport /\ hints.family \in {"unspec", "inet", "inet6"} /\ gpc = "search"
  BY DEF GaiInv, GaiTyped, Gai!SearchText, SoFar, Gai!Searching
<1>2. PICK f, n, h, t : /\ f = Gai!Cur.family /\ n = Gai!AddrsIn(f) /\ h = Gai!Cur.host
                        /\ t = Gai!TextFamily
  OBVIOUS
<1>3. /\ f \in {"inet", "inet6"} /\ Gai!Wanted(f)
      /\ hints.family # "unspec" => hints.family = f
  BY <1>1, <1>2, CurLists
<1>4. h = Gai!HostFor(f) /\ h \in {"v4", "v6"} /\ t = (IF h = "v4" THEN "inet" ELSE "inet6")
  BY <1>1, <1>2, CurTyped DEF Gai!SearchText, Gai!TextFamily
<1>5. (f = t => n = 1) /\ (f # t => n = 0)
  <2>1. CASE host = "none"
    BY <1>2, <1>3, <1>4, <2>1 DEF Gai!HostFor, Gai!AddrsIn
  <2>2. CASE host # "none"
    <3>1. host = h
      BY <1>4, <2>2 DEF Gai!HostFor
    <3> QED BY <1>2, <1>3, <1>4, <2>2, <3>1 DEF Gai!AddrsIn
  <2> QED BY <2>1, <2>2
<1>6. \/ gpc' = "end" /\ rc' = "memory"
      \/ gpc' = "end" /\ rc' = "addrfamily" /\ hints.family \notin {"unspec", t}
      \/ sptr' = sptr + 1 /\ gpc' = gpc /\ list' = list \o <<>> /\ f # t
      \/ sptr' = sptr + 1 /\ gpc' = gpc /\ list' = list \o Gai!Made(t, 1) /\ f = t
  BY <1>2 DEF Gai!SearchText, Gai!Bad, Gai!Continue
<1>7. CASE gpc' = "end"
  <2>1. rc' = "memory" \/ (rc' = "addrfamily" /\ hints.family # "unspec" /\ n = 0)
    BY <1>1, <1>3, <1>5, <1>6, <1>7
  <2> QED BY <1>1, <1>2, <1>7, <2>1, SearchFails
<1>8. CASE gpc' # "end"
  <2>1. list' = list \o Gai!Made(f, n) /\ sptr' = sptr + 1 /\ gpc' = "search"
    BY <1>1, <1>3, <1>5, <1>6, <1>8, MadeNone
  <2> QED BY <1>1, <1>2, <2>1, SearchLists
<1> QED BY <1>7, <1>8

LEMMA SearchNameLists == ASSUME GaiInv, SoFar, Gai!SearchName PROVE (SoFar /\ Gai!ListRight)'
<1>1. /\ GaiTyped /\ ArgsTyped /\ Gai!Searching /\ sptr \in Nat /\ UNCHANGED Gai!args
      /\ nport' = nport /\ hints.family \in {"unspec", "inet", "inet6"} /\ gpc = "search"
  BY DEF GaiInv, GaiTyped, Gai!SearchName, SoFar, Gai!Searching
<1>2. PICK f, n, h, a, r : /\ f = Gai!Cur.family /\ n = Gai!AddrsIn(f) /\ h = Gai!Cur.host
                           /\ a = Gai!AnswerFamily /\ r = Gai!Answer
  OBVIOUS
<1>3. /\ f \in {"inet", "inet6"} /\ Gai!Wanted(f)
      /\ hints.family # "unspec" => hints.family = f /\ Len(Gai!ga_nsearch) = 1
      /\ hints.family = "unspec" => Len(Gai!ga_nsearch) = 2
  BY <1>1, <1>2, CurLists
<1>4. h = Gai!HostFor(f) /\ h \in {"name", "/local"} /\ names["inet"] = names.inet /\ names["inet6"] = names.inet6
  BY <1>1, <1>2, CurTyped DEF Gai!SearchName
<1>5. /\ a = (IF hints.family = "unspec" \/ names.new THEN f ELSE "inet")
      /\ r = (IF h = "/local" THEN 0 ELSE names[a]) /\ r \in Nat
  BY <1>1, <1>2, <1>3, <1>4 DEF Gai!AnswerFamily, Gai!Answer, ArgsTyped
<1>6. (a = f /\ n = r) \/ (n = 0 /\ hints.family = "inet6" /\ a = "inet")
  <2>1. CASE h = "/local"
    <3>1. host = "/local"
      BY <1>1, <1>3, <1>4, <2>1 DEF Gai!HostFor, ArgsTyped
    <3>2. n = 0 /\ r = 0
      BY <1>2, <1>3, <1>5, <2>1, <3>1 DEF Gai!AddrsIn
    <3> QED BY <1>3, <1>5, <3>2
  <2>2. CASE h = "name" /\ host = "none"
    <3>1. f = "inet" /\ "passive" \notin hints.flags
      BY <1>3, <1>4, <2>2 DEF Gai!HostFor
    <3>2. n = names.inet
      BY <1>2, <1>3, <2>2, <3>1 DEF Gai!AddrsIn
    <3> QED BY <1>4, <1>5, <2>2, <3>1, <3>2
  <2>3. CASE h = "name" /\ host # "none"
    <3>1. host = "name"
      BY <1>4, <2>3 DEF Gai!HostFor
    <3>2. n = IF f = "inet6" /\ ~names.new /\ hints.family = "inet6" THEN 0 ELSE names[f]
      BY <1>2, <1>3, <3>1 DEF Gai!AddrsIn
    <3>3. h # "/local"
      BY <2>3
    <3> QED BY <1>3, <1>5, <3>2, <3>3
  <2> QED BY <1>4, <2>1, <2>2, <2>3
<1>7. \/ gpc' = "end" /\ rc' = "memory"
      \/ gpc' = "end" /\ rc' = "noname" /\ r = 0 /\ Len(Gai!ga_nsearch) = 1
      \/ gpc' = "end" /\ rc' = "addrfamily" /\ hints.family \notin {"unspec", a}
      \/ sptr' = sptr + 1 /\ gpc' = gpc /\ list' = list \o <<>> /\ r = 0 /\ Len(Gai!ga_nsearch) = 2
      \/ sptr' = sptr + 1 /\ gpc' = gpc /\ list' = list \o Gai!Made(a, r) /\ hints.family \in {"unspec", a}
  BY <1>2 DEF Gai!SearchName, Gai!Bad, Gai!Continue
<1>8. CASE gpc' = "end"
  <2>1. rc' = "memory" \/ (rc' \in {"noname", "addrfamily"} /\ hints.family # "unspec" /\ n = 0)
    BY <1>1, <1>3, <1>6, <1>7, <1>8
  <2> QED BY <1>1, <1>2, <1>8, <2>1, SearchFails
<1>9. CASE gpc' # "end"
  <2>1. list' = list \o Gai!Made(f, n) /\ sptr' = sptr + 1 /\ gpc' = "search"
    <3>1. r = 0 /\ Len(Gai!ga_nsearch) = 2 => n = 0 /\ list \o <<>> = list \o Gai!Made(f, n)
      BY <1>1, <1>3, <1>6, MadeNone
    <3>2. hints.family \in {"unspec", a} => n = r /\ f = a
      BY <1>6
    <3> QED BY <1>1, <1>7, <1>9, <3>1, <3>2
  <2> QED BY <1>1, <1>2, <2>1, SearchLists
<1> QED BY <1>8, <1>9

LEMMA SearchEndLists == ASSUME GaiInv, SoFar, Gai!SearchEnd PROVE (SoFar /\ Gai!ListRight)'
<1>1. /\ GaiTyped /\ ArgsTyped /\ gpc = "search" /\ sptr = Len(Gai!ga_nsearch) /\ UNCHANGED Gai!args
      /\ nport' = nport /\ nport = 0 /\ ~Gai!IsUnix /\ hints.family \in {"unspec", "inet", "inet6"}
      /\ Listed(ListedAfter(sptr), hints.type, "none") /\ list \in Seq(Structs)
  BY DEF GaiInv, GaiTyped, Gai!SearchEnd, SoFar
<1>2. N6 \in Nat /\ N4 \in Nat /\ Len(Gai!ga_nsearch) \in 1 .. 2
  BY <1>1, AddrsTyped, Searches
<1>3. PICK m : m = N6 + N4 /\ ListedAfter(sptr) = m
  BY <1>1, <1>2 DEF ListedAfter
<1>4. Listed(m, hints.type, "none") /\ Len(list) = m
  BY <1>1, <1>3 DEF Listed
<1>5. CASE list = <<>>
  <2>1. gpc' = "end" /\ rc' = "noname"
    BY <1>5 DEF Gai!SearchEnd, Gai!Bad
  <2>2. N6 = 0 /\ N4 = 0
    BY <1>2, <1>3, <1>4, <1>5
  <2>3. Gai!Asked = <<>>
    BY <1>1, <2>2, NothingAsked
  <2> QED BY <1>1, <2>1, <2>3, FailsRight
<1>6. CASE list # <<>>
  <2>1. gpc' = "canon" /\ list' = list
    BY <1>6 DEF Gai!SearchEnd
  <2>2. m > 0
    BY <1>1, <1>2, <1>3, <1>4, <1>6
  <2>3. N6' = N6 /\ N4' = N4 /\ Gai!IsUnix' = Gai!IsUnix /\ hints' = hints
    BY <1>1, AskedStays, ArgsStay DEF Gai!args
  <2>4. Listed(m, hints.type, "none")'
    BY <1>4, <2>1, <2>3 DEF Listed, Is, FamilyOf, NumberOf
  <2> QED BY <1>1, <1>3, <2>1, <2>2, <2>3, <2>4 DEF SoFar, Gai!ListRight
<1> QED BY <1>5, <1>6

LEMMA CanonLists == ASSUME GaiInv, SoFar, Gai!Canon PROVE (SoFar /\ Gai!ListRight)'
<1>1. /\ GaiTyped /\ ArgsTyped /\ gpc = "canon" /\ UNCHANGED Gai!args /\ rc = "ok"
      /\ nport' = nport /\ nport = 0 /\ ~Gai!IsUnix /\ hints.family \in {"unspec", "inet", "inet6"}
      /\ N6 + N4 > 0 /\ Listed(N6 + N4, hints.type, "none") /\ list \in Seq(Structs)
  BY DEF GaiInv, GaiTyped, Gai!Canon, SoFar, Holds
<1>2. CASE gpc' = "end" /\ rc' = "memory"
  BY <1>1, <1>2, FailsRight
<1>3. CASE gpc' = "end" /\ serv = "none" /\ UNCHANGED <<list, rc>>
  <2>1. Gai!TypesWanted = <<hints.type>>
    BY <1>1, <1>3, TypesAre
  <2>2. Len(Gai!TypesWanted) = 1 /\ Gai!TypesWanted[1] = hints.type
    BY <2>1
  <2>3. Listed(N6 + N4, Gai!TypesWanted[1], serv)
    BY <1>1, <1>3, <2>2
  <2>4. Gai!Given = Gai!Asked /\ \A i \in DOMAIN list : list[i].ready
    BY <1>1, <2>2, <2>3, GivenOnce
  <2>5. list # <<>>
    BY <1>1 DEF Listed
  <2> QED BY <1>1, <1>3, <2>4, <2>5, EndsRight
<1>4. CASE gpc' = "serv" /\ serv # "none" /\ UNCHANGED list
  <2>1. /\ N6' = N6 /\ N4' = N4 /\ Gai!IsUnix' = Gai!IsUnix /\ hints' = hints /\ serv' = serv
        /\ Gai!Calls' = Gai!Calls
    BY <1>1, AskedStays, ArgsStay DEF Gai!args
  <2>2. PICK m : m = N6 + N4
    OBVIOUS
  <2>3. Listed(m, hints.type, "none")'
    BY <1>1, <1>4, <2>1, <2>2 DEF Listed, Is, FamilyOf, NumberOf
  <2>4. Listed(N6 + N4, hints.type, "none")'
    BY <2>1, <2>2, <2>3 DEF Listed
  <2>5. nport' = 0 /\ nport' <= Len(Gai!Calls')
    <3>1. Len(Gai!Calls) \in 0 .. 2
      BY <1>1, CallsTyped
    <3> QED BY <1>1, <2>1, <3>1
  <2>6. /\ serv' # "none" /\ N6' + N4' > 0 /\ hints'.family \in {"unspec", "inet", "inet6"}
        /\ ~Gai!IsUnix'
    BY <1>1, <1>4, <2>1
  <2>7. SoFar'
    BY <1>4, <2>4, <2>5, <2>6 DEF SoFar
  <2> QED BY <1>4, <2>7 DEF Gai!ListRight
<1> QED BY <1>2, <1>3, <1>4 DEF Gai!Canon, Gai!Bad

\* What ga_port() makes of a structure that has no type, or this one; and of one that
\* is in use for another type.
LEMMA PortedOnce ==
  ASSUME NEW a \in Structs, NEW t \in Nat, (a.clone /\ a.type = 0) \/ (~a.clone /\ a.type = t)
  PROVE  /\ Len(Ported(a, t)) = 1
         /\ \E b : /\ Ported(a, t)[1] = b
                   /\ b.family = a.family /\ b.n = a.n /\ b.type = t /\ b.port = serv
                   /\ b.ready = a.ready /\ b.clone = a.clone
<1>1. PICK b, d : b = [a EXCEPT !.type = t, !.port = serv] /\ d = [a EXCEPT !.port = serv]
  OBVIOUS
<1>2. /\ b.family = a.family /\ b.n = a.n /\ b.type = t /\ b.port = serv /\ b.ready = a.ready
      /\ b.clone = a.clone
  BY <1>1 DEF Structs
<1>3. /\ d.family = a.family /\ d.n = a.n /\ d.type = a.type /\ d.port = serv /\ d.ready = a.ready
      /\ d.clone = a.clone
  BY <1>1 DEF Structs
<1>4. CASE a.clone /\ a.type = 0
  <2>1. Ported(a, t) = <<b>>
    BY <1>1, <1>4 DEF Ported, Gai!ga_clone
  <2> QED BY <1>2, <2>1
<1>5. CASE ~a.clone /\ a.type = t
  <2>1. Ported(a, t) = <<d>>
    BY <1>1, <1>5 DEF Ported
  <2> QED BY <1>3, <1>5, <2>1
<1> QED BY <1>4, <1>5

LEMMA PortedTwice ==
  ASSUME NEW a \in Structs, NEW t \in Nat, a.clone, a.type # 0
  PROVE  /\ Len(Ported(a, t)) = 2 /\ Ported(a, t)[1] = a
         /\ \E b : /\ Ported(a, t)[2] = b
                   /\ b.family = a.family /\ b.n = a.n /\ b.type = t /\ b.port = serv
                   /\ b.ready = a.ready
<1>1. PICK b, c : /\ b = [a EXCEPT !.type = t, !.port = serv]
                  /\ c = [b EXCEPT !.clone = FALSE]
  OBVIOUS
<1>2. /\ b.family = a.family /\ b.n = a.n /\ b.type = t /\ b.port = serv /\ b.ready = a.ready
      /\ DOMAIN b = DOMAIN a
  BY <1>1 DEF Structs
<1>3. c.family = a.family /\ c.n = a.n /\ c.type = t /\ c.port = serv /\ c.ready = a.ready
  BY <1>1, <1>2 DEF Structs
<1>4. Ported(a, t) = <<a, c>>
  BY <1>1 DEF Ported, Gai!ga_clone
<1> QED BY <1>3, <1>4

\* The first call of ga_port() gives every structure its type and port.
LEMMA PortFirst ==
  ASSUME GaiTyped, NEW t \in Nat, NEW m, UNCHANGED Gai!args, list' = Gai!ga_port(t),
         Listed(m, hints.type, "none"), hints.type \in {0, t}
  PROVE  Listed(m, t, serv)'
<1>1. ArgsTyped /\ list \in Seq(Structs) /\ Len(list) = m /\ m \in Nat
  BY DEF GaiTyped, Listed
<1>2. PICK l, g, h : l = list /\ g = list' /\ h = hints.type
  OBVIOUS
<1>3. PICK ss \in Seq(Seq(Structs)) :
        Len(ss) = m /\ (\A i \in 1 .. m : ss[i] = Ported(l[i], t)) /\ g = FlattenSeq(ss)
  BY <1>1, <1>2, PortIsFlat
<1>4. ASSUME NEW k \in 1 .. m
      PROVE  /\ Len(ss[k]) = 1
             /\ \E b : /\ ss[k][1] = b
                       /\ b.family = FamilyOf(k) /\ b.n = NumberOf(k) /\ b.type = t /\ b.port = serv
                       /\ b.ready /\ (b.clone <=> h = 0)
  <2>1. PICK a : a = l[k]
    OBVIOUS
  <2>2. a \in Structs
    BY <1>1, <1>2, <2>1
  <2>3. /\ a.family = FamilyOf(k) /\ a.n = NumberOf(k) /\ a.type = h /\ a.ready
        /\ (a.clone <=> h = 0)
    BY <1>2, <2>1 DEF Listed, Is
  <2>a. (a.clone /\ a.type = 0) \/ (~a.clone /\ a.type = t)
    BY <1>2, <2>3
  <2>4. /\ Len(Ported(a, t)) = 1
        /\ \E b : /\ Ported(a, t)[1] = b
                  /\ b.family = a.family /\ b.n = a.n /\ b.type = t /\ b.port = serv
                  /\ b.ready = a.ready /\ b.clone = a.clone
    BY <2>2, <2>a, PortedOnce
  <2>5. ss[k] = Ported(a, t)
    BY <1>3, <2>1
  <2>6. PICK b : /\ ss[k][1] = b
                 /\ b.family = a.family /\ b.n = a.n /\ b.type = t /\ b.port = serv
                 /\ b.ready = a.ready /\ b.clone = a.clone
    BY <2>4, <2>5
  <2>7. /\ b.family = FamilyOf(k) /\ b.n = NumberOf(k) /\ b.ready /\ (b.clone <=> h = 0)
    BY <2>3, <2>6
  <2> QED BY <2>4, <2>5, <2>6, <2>7
<1>5. Len(g) = m /\ \A k \in 1 .. m : g[k] = ss[k][1]
  <2>1. PICK z : z = 1 /\ z \in 0 .. 2
    OBVIOUS
  <2>2. \A k \in 1 .. Len(ss) : Len(ss[k]) = z
    BY <1>3, <1>4, <2>1
  <2>3. Len(FlattenSeq(ss)) = Len(ss) /\ \A k \in 1 .. Len(ss) : FlattenSeq(ss)[k] = ss[k][1]
    BY <2>1, <2>2, FlattenBlocks
  <2> QED BY <1>3, <2>3
<1>6. ASSUME NEW k \in 1 .. m
      PROVE  /\ g[k].family = FamilyOf(k) /\ g[k].n = NumberOf(k) /\ g[k].type = t
             /\ g[k].port = serv /\ g[k].ready /\ (g[k].clone <=> h = 0)
  BY <1>4, <1>5
<1>7. /\ hints' = hints /\ serv' = serv
      /\ \A k \in 1 .. m : FamilyOf(k)' = FamilyOf(k) /\ NumberOf(k)' = NumberOf(k)
  BY AskedStays DEF Gai!args, FamilyOf, NumberOf
<1> QED BY <1>2, <1>5, <1>6, <1>7 DEF Listed, Is

\* The second call clones every structure.
LEMMA PortSecond ==
  ASSUME GaiTyped, NEW m, UNCHANGED Gai!args, list' = Gai!ga_port(2),
         Listed(m, 1, serv), hints.type = 0
  PROVE  ListedTwice(m)'
<1>1. ArgsTyped /\ list \in Seq(Structs) /\ Len(list) = m /\ m \in Nat
  BY DEF GaiTyped, Listed
<1>2. PICK l, g, t : l = list /\ t = 2 /\ t \in Nat /\ g = list' /\ g = Gai!ga_port(t)
  OBVIOUS
<1>3. PICK ss \in Seq(Seq(Structs)) :
        Len(ss) = m /\ (\A i \in 1 .. m : ss[i] = Ported(l[i], t)) /\ g = FlattenSeq(ss)
  BY <1>1, <1>2, PortIsFlat
<1>4. ASSUME NEW k \in 1 .. m
      PROVE  /\ Len(ss[k]) = 2
             /\ \E a : /\ ss[k][1] = a
                       /\ a.family = FamilyOf(k) /\ a.n = NumberOf(k) /\ a.type = 1 /\ a.port = serv
                       /\ a.ready
             /\ \E b : /\ ss[k][2] = b
                       /\ b.family = FamilyOf(k) /\ b.n = NumberOf(k) /\ b.type = t /\ b.port = serv
                       /\ b.ready
  <2>1. PICK a : a = l[k]
    OBVIOUS
  <2>2. a \in Structs
    BY <1>1, <1>2, <2>1
  <2>3. /\ a.family = FamilyOf(k) /\ a.n = NumberOf(k) /\ a.type = 1 /\ a.ready /\ a.port = serv
        /\ a.clone
    BY <1>2, <2>1 DEF Listed, Is
  <2>a. a.type # 0
    BY <2>3
  <2>4. /\ Len(Ported(a, t)) = 2 /\ Ported(a, t)[1] = a
        /\ \E b : /\ Ported(a, t)[2] = b
                  /\ b.family = a.family /\ b.n = a.n /\ b.type = t /\ b.port = serv
                  /\ b.ready = a.ready
    BY <1>2, <2>2, <2>3, <2>a, PortedTwice
  <2>5. ss[k] = Ported(a, t)
    BY <1>3, <2>1
  <2>6. PICK b : /\ ss[k][2] = b
                 /\ b.family = a.family /\ b.n = a.n /\ b.type = t /\ b.port = serv
                 /\ b.ready = a.ready
    BY <2>4, <2>5
  <2>7. b.family = FamilyOf(k) /\ b.n = NumberOf(k) /\ b.ready
    BY <2>3, <2>6
  <2> QED BY <2>3, <2>4, <2>5, <2>6, <2>7
<1>5. Len(g) = 2 * m /\ \A k \in 1 .. m : g[2 * k - 1] = ss[k][1] /\ g[2 * k] = ss[k][2]
  <2>1. PICK z : z = 2 /\ z \in 0 .. 2
    OBVIOUS
  <2>2. \A k \in 1 .. Len(ss) : Len(ss[k]) = z
    BY <1>3, <1>4, <2>1
  <2>3. /\ Len(FlattenSeq(ss)) = 2 * Len(ss)
        /\ \A k \in 1 .. Len(ss) : /\ FlattenSeq(ss)[2 * k - 1] = ss[k][1]
                                   /\ FlattenSeq(ss)[2 * k] = ss[k][2]
    BY <2>1, <2>2, FlattenBlocks
  <2> QED BY <1>3, <2>3
<1>6. ASSUME NEW k \in 1 .. m
      PROVE  /\ g[2 * k - 1].family = FamilyOf(k) /\ g[2 * k - 1].n = NumberOf(k)
             /\ g[2 * k - 1].type = 1 /\ g[2 * k - 1].port = serv /\ g[2 * k - 1].ready
             /\ g[2 * k].family = FamilyOf(k) /\ g[2 * k].n = NumberOf(k)
             /\ g[2 * k].type = 2 /\ g[2 * k].port = serv /\ g[2 * k].ready
  <2>1. PICK a, b : a = g[2 * k - 1] /\ b = g[2 * k]
    OBVIOUS
  <2>2. a = ss[k][1] /\ b = ss[k][2]
    BY <1>5, <2>1
  <2>3. a.family = FamilyOf(k) /\ a.n = NumberOf(k) /\ a.type = 1 /\ a.port = serv /\ a.ready
    BY <1>4, <2>2
  <2>4. b.family = FamilyOf(k) /\ b.n = NumberOf(k) /\ b.type = 2 /\ b.port = serv /\ b.ready
    BY <1>2, <1>4, <2>2
  <2> QED BY <2>1, <2>3, <2>4
<1>7. /\ serv' = serv
      /\ \A k \in 1 .. m : FamilyOf(k)' = FamilyOf(k) /\ NumberOf(k)' = NumberOf(k)
  BY AskedStays DEF Gai!args, FamilyOf, NumberOf
<1> QED BY <1>2, <1>5, <1>6, <1>7 DEF ListedTwice, Is

LEMMA PortLists == ASSUME GaiInv, SoFar, Gai!Port PROVE (SoFar /\ Gai!ListRight)'
<1>1. /\ GaiTyped /\ ArgsTyped /\ gpc = "serv" /\ UNCHANGED Gai!args /\ nport \in Nat
      /\ ~Gai!IsUnix /\ hints.family \in {"unspec", "inet", "inet6"}
      /\ serv # "none" /\ N6 + N4 > 0 /\ nport < Len(Gai!Calls)
  BY DEF GaiInv, GaiTyped, Gai!Port, SoFar
<1>2. CASE gpc' = "end" /\ rc' = "memory"
  BY <1>1, <1>2, FailsRight
<1>3. CASE gpc' = "serv" /\ list' = Gai!ga_port(Gai!Calls[nport + 1]) /\ nport' = nport + 1
  <2>1. /\ N6' = N6 /\ N4' = N4 /\ Gai!IsUnix' = Gai!IsUnix /\ hints' = hints /\ serv' = serv
        /\ Gai!Calls' = Gai!Calls
    BY <1>1, AskedStays, ArgsStay DEF Gai!args
  <2>2. PICK m, c, h : m = N6 + N4 /\ c = Gai!Calls /\ h = hints.type
    OBVIOUS
  <2>3. /\ Len(c) \in 0 .. 2 /\ \A k \in 1 .. Len(c) : c[k] \in 1 .. 4
    BY <1>1, <2>2, CallsTyped
  <2>4. /\ (h # 0 => c \in {<<>>, <<h>>}) /\ (h = 0 => c \in {<<>>, <<1>>, <<2>>, <<1, 2>>})
    BY <1>1, <2>2, CallsAre
  <2>5. \/ nport' = 1 /\ Listed(m, c[1], serv)'
        \/ nport' = 2 /\ ListedTwice(m)'
    <3>1. CASE nport = 0
      <4>1. PICK t : t = c[1]
        OBVIOUS
      <4>2. t \in Nat /\ h \in {0, t}
        <5>1. Len(c) \in 1 .. 2
          BY <1>1, <2>2, <2>3, <3>1
        <5>2. t \in Nat
          BY <2>3, <4>1, <5>1
        <5>3. h # 0 => h = t
          BY <2>4, <4>1, <5>1
        <5> QED BY <5>2, <5>3
      <4>3. list' = Gai!ga_port(t) /\ Listed(m, hints.type, "none")
        BY <1>1, <1>3, <2>2, <3>1, <4>1 DEF SoFar
      <4>4. Listed(m, t, serv)'
        BY <1>1, <2>2, <4>2, <4>3, PortFirst
      <4> QED BY <1>3, <3>1, <4>1, <4>4
    <3>2. CASE nport # 0
      <4>1. nport = 1 /\ Len(c) = 2
        BY <1>1, <2>2, <2>3, <3>2
      <4>a. \A x : Len(<<x>>) = 1
        OBVIOUS
      <4>b. c # <<>> /\ \A x : c # <<x>>
        BY <4>1, <4>a
      <4>2. h = 0 /\ c = <<1, 2>>
        BY <2>4, <4>b
      <4>3. c[1] = 1 /\ c[2] = 2
        BY <4>2
      <4>4. list' = Gai!ga_port(2)
        BY <1>3, <2>2, <4>1, <4>3
      <4>5. Listed(m, 1, serv)
        BY <1>1, <2>2, <4>1, <4>3 DEF SoFar
      <4>6. ListedTwice(m)'
        BY <1>1, <2>2, <4>2, <4>4, <4>5, PortSecond
      <4> QED BY <1>3, <4>1, <4>6
    <3> QED BY <3>1, <3>2
  <2>6. nport' <= Len(Gai!Calls')
    BY <1>1, <1>3, <2>1, <2>2, <2>3
  <2>7. /\ serv' # "none" /\ N6' + N4' > 0 /\ hints'.family \in {"unspec", "inet", "inet6"}
        /\ ~Gai!IsUnix'
    BY <1>1, <2>1
  <2>8. (nport' = 1 => Listed(N6 + N4, Gai!Calls[1], serv)') /\ (nport' = 2 => ListedTwice(N6 + N4)')
    <3>1. nport' = 1 => Listed(N6 + N4, Gai!Calls[1], serv)'
      BY <2>1, <2>2, <2>5 DEF Listed
    <3>2. nport' = 2 => ListedTwice(N6 + N4)'
      BY <2>1, <2>2, <2>5 DEF ListedTwice
    <3> QED BY <3>1, <3>2
  <2>9. nport' # 0
    BY <2>5
  <2>10. SoFar'
    BY <1>3, <2>6, <2>7, <2>8, <2>9 DEF SoFar
  <2> QED BY <1>3, <2>10 DEF Gai!ListRight
<1> QED BY <1>1, <1>2, <1>3 DEF Gai!Port, Gai!Bad

LEMMA ServEndLists == ASSUME GaiInv, SoFar, Gai!ServEnd PROVE (SoFar /\ Gai!ListRight)'
<1>1. /\ GaiTyped /\ ArgsTyped /\ gpc = "serv" /\ UNCHANGED Gai!args /\ nport \in Nat /\ rc = "ok"
      /\ ~Gai!IsUnix /\ serv # "none" /\ N6 + N4 > 0 /\ nport = Len(Gai!Calls)
      /\ list \in Seq(Structs) /\ DOMAIN list = 1 .. Len(list)
  BY DEF GaiInv, GaiTyped, Gai!ServEnd, SoFar, Holds
<1>2. PICK m, c : m = N6 + N4 /\ c = Gai!Calls /\ m \in Nat /\ m > 0
  BY <1>1, AddrsTyped
<1>3. Len(c) \in 0 .. 2 /\ Gai!TypesWanted = c
  BY <1>1, <1>2, CallsTyped, TypesAre
<1>4. CASE nport = 0
  <2>1. Listed(m, hints.type, "none")
    BY <1>1, <1>2, <1>4 DEF SoFar
  <2>2. ~Gai!Found
    BY <1>1, <2>1 DEF Gai!Found, Listed, Is
  <2>3. gpc' = "end" /\ rc' \in {"noname", "service"}
    BY <2>2 DEF Gai!ServEnd, Gai!Bad
  <2>4. Gai!Asked = <<>>
    <3>1. Len(Gai!TypesWanted) = 0
      BY <1>1, <1>2, <1>3, <1>4
    <3> QED BY <1>1, <3>1, NothingAsked
  <2> QED BY <1>1, <2>3, <2>4, FailsRight
<1>5. CASE nport = 1
  <2>1. Listed(m, c[1], serv) /\ Len(c) = 1
    BY <1>1, <1>2, <1>5 DEF SoFar
  <2>2. 1 \in DOMAIN list /\ list[1].port = serv
    BY <1>1, <1>2, <2>1 DEF Listed, Is
  <2>3. Gai!Found
    BY <1>1, <2>2 DEF Gai!Found
  <2>4. Len(Gai!TypesWanted) = 1 /\ Listed(N6 + N4, Gai!TypesWanted[1], serv)
    BY <1>2, <1>3, <2>1
  <2>5. Gai!Given = Gai!Asked /\ \A i \in DOMAIN list : list[i].ready
    BY <1>1, <2>4, GivenOnce
  <2>6. gpc' = "end" /\ UNCHANGED <<list, rc>>
    BY <2>3 DEF Gai!ServEnd
  <2>7. list # <<>>
    BY <1>2, <2>1 DEF Listed
  <2> QED BY <1>1, <2>5, <2>6, <2>7, EndsRight
<1>6. CASE nport = 2
  <2>1. ListedTwice(m) /\ Len(c) = 2
    BY <1>1, <1>2, <1>6 DEF SoFar
  <2>2. c = <<1, 2>>
    <3>1. PICK h : h = hints.type
      OBVIOUS
    <3>2. (h # 0 => c \in {<<>>, <<h>>}) /\ (h = 0 => c \in {<<>>, <<1>>, <<2>>, <<1, 2>>})
      BY <1>1, <1>2, <3>1, CallsAre
    <3> QED BY <2>1, <3>2
  <2>3. 1 \in DOMAIN list /\ list[1].port = serv
    <3>1. 1 \in 1 .. m /\ 2 * 1 - 1 = 1 /\ Len(list) = 2 * m
      BY <1>2, <2>1 DEF ListedTwice
    <3>2. list[2 * 1 - 1].port = serv
      BY <2>1, <3>1 DEF ListedTwice, Is
    <3> QED BY <1>1, <1>2, <3>1, <3>2
  <2>4. Gai!Found
    BY <1>1, <2>3 DEF Gai!Found
  <2>5. Gai!Given = Gai!Asked /\ \A i \in DOMAIN list : list[i].ready
    BY <1>1, <1>2, <1>3, <2>1, <2>2, GivenTwice
  <2>6. gpc' = "end" /\ UNCHANGED <<list, rc>>
    BY <2>4 DEF Gai!ServEnd
  <2>7. list # <<>>
    BY <2>3
  <2> QED BY <1>1, <2>5, <2>6, <2>7, EndsRight
<1> QED BY <1>1, <1>2, <1>3, <1>4, <1>5, <1>6

LEMMA ListStep ==
  GaiInv /\ SoFar /\ Gai!ListRight /\ (Gai!Next \/ UNCHANGED gaiVars) => (SoFar /\ Gai!ListRight)'
<1>1. GaiInv /\ SoFar /\ Gai!Next => (SoFar /\ Gai!ListRight)'
  BY CheckLists, UnixLists, SearchTextLists, SearchNameLists, SearchEndLists, CanonLists, PortLists,
     ServEndLists DEF Gai!Next
<1>2. ASSUME GaiInv, SoFar, Gai!ListRight, UNCHANGED gaiVars PROVE (SoFar /\ Gai!ListRight)'
  <2>1. UNCHANGED Gai!args /\ UNCHANGED <<host, serv, hints, names, gpc, sptr, nport, list, canon, rc>>
    BY <1>2 DEF gaiVars, Gai!args
  <2>2. /\ N6' = N6 /\ N4' = N4 /\ Gai!Calls' = Gai!Calls /\ Gai!Asked' = Gai!Asked
        /\ Gai!ga_echeck' = Gai!ga_echeck /\ Gai!Given' = Gai!Given
        /\ Gai!ga_nsearch' = Gai!ga_nsearch /\ Gai!IsUnix' = Gai!IsUnix
    BY <1>2, <2>1, AskedStays, ArgsStay DEF GaiInv, GaiTyped, Gai!Given
  <2>3. (Gai!ListRight)'
    BY <1>2, <2>1, <2>2 DEF Gai!ListRight
  <2>4. ListedAfter(sptr)' = ListedAfter(sptr)
    BY <2>1, <2>2 DEF ListedAfter
  <2>5. ASSUME NEW m, NEW t, NEW p, Listed(m, t, p) PROVE Listed(m, t, p)'
    BY <2>1, <2>2, <2>5 DEF Listed, Is, FamilyOf, NumberOf
  <2>6. ASSUME NEW m, ListedTwice(m) PROVE ListedTwice(m)'
    BY <2>1, <2>2, <2>6 DEF ListedTwice, Is, FamilyOf, NumberOf
  <2>7. PICK a, n, h, c, s : /\ a = ListedAfter(sptr) /\ n = N6 + N4 /\ h = hints.type
                             /\ c = Gai!Calls[1] /\ s = serv
    OBVIOUS
  <2>8. /\ gpc = "search" => Listed(a, h, "none")'
        /\ gpc = "canon" => n > 0 /\ Listed(n, h, "none")'
        /\ gpc = "serv" => /\ n > 0 /\ (nport = 0 => Listed(n, h, "none")')
                           /\ (nport = 1 => Listed(n, c, s)') /\ (nport = 2 => ListedTwice(n)')
    BY <1>2, <2>5, <2>6, <2>7 DEF SoFar
  <2>9. /\ gpc = "search" => Listed(ListedAfter(sptr), hints.type, "none")'
        /\ gpc = "canon" => (N6 + N4 > 0)' /\ Listed(N6 + N4, hints.type, "none")'
        /\ gpc = "serv" => /\ (N6 + N4 > 0)' /\ (nport = 0 => Listed(N6 + N4, hints.type, "none")')
                           /\ (nport = 1 => Listed(N6 + N4, Gai!Calls[1], serv)')
                           /\ (nport = 2 => ListedTwice(N6 + N4)')
    BY <2>1, <2>2, <2>4, <2>7, <2>8 DEF Listed, ListedTwice
  <2>10. SoFar'
    BY <1>2, <2>1, <2>2, <2>9 DEF SoFar
  <2> QED BY <2>3, <2>10
<1> QED BY <1>1, <1>2

\* "we need to return *four* addrinfo structures: IP#1, SOCK_STREAM, TCP port, IP#1,
\* SOCK_DGRAM, UDP port, IP#2, ..." (ga_port.c): for every host, service, hints and answer
\* of the resolver, however many addresses it has, getaddrinfo() lists each address that
\* is asked for with each type, in order and once; an error means that there is none, that
\* the arguments are wrong or that there is no memory.
THEOREM ListAlwaysRight == MCSpec => []ListRight
<1> DEFINE Inv == which = "getaddrinfo" => GaiInv /\ SoFar /\ Gai!ListRight
<1>1. MCInit => Inv
  BY GaiBegins DEF MCInit, Gai!Init, SoFar, Gai!ListRight
<1>2. Inv /\ [MCNext]_MCvars => Inv'
  BY OnlyGai, GaiStep, ListStep
<1>3. Inv => ListRight
  BY DEF ListRight
<1> QED BY <1>1, <1>2, <1>3, PTL DEF MCSpec

-----------------------------------------------------------------------------
(* readline(): the bytes of a descriptor, each once and in order.          *)

\* What is in a sequence, and in its parts.
LEMMA Members ==
  ASSUME NEW E, NEW a \in Seq(E), NEW b \in Seq(E)
  PROVE  /\ ToSet(a \o b) = ToSet(a) \cup ToSet(b) /\ ToSet(<<>>) = {}
         /\ \A x \in E : ToSet(Append(a, x)) = ToSet(a) \cup {x}
<1>1. ToSet(a \o b) = ToSet(a) \cup ToSet(b)
  <2>1. PICK c : c = a \o b
    OBVIOUS
  <2>2. /\ DOMAIN c = 1 .. Len(a) + Len(b) /\ DOMAIN a = 1 .. Len(a) /\ DOMAIN b = 1 .. Len(b)
        /\ \A k \in 1 .. Len(a) : c[k] = a[k]
        /\ \A k \in 1 .. Len(b) : c[Len(a) + k] = b[k]
    BY <2>1
  <2>3. ASSUME NEW y \in ToSet(c) PROVE y \in ToSet(a) \cup ToSet(b)
    <3>1. PICK i \in DOMAIN c : y = c[i]
      BY DEF ToSet
    <3>2. CASE i <= Len(a)
      BY <2>2, <3>1, <3>2 DEF ToSet
    <3>3. CASE i > Len(a)
      <4>1. PICK j : j = i - Len(a) /\ j \in 1 .. Len(b) /\ i = Len(a) + j
        BY <2>2, <3>3
      <4> QED BY <2>2, <3>1, <4>1 DEF ToSet
    <3> QED BY <2>2, <3>2, <3>3
  <2>4. ASSUME NEW y \in ToSet(a) \cup ToSet(b) PROVE y \in ToSet(c)
    <3>1. CASE y \in ToSet(a)
      BY <2>2, <3>1 DEF ToSet
    <3>2. CASE y \in ToSet(b)
      <4>1. PICK j \in 1 .. Len(b) : y = b[j]
        BY <2>2, <3>2 DEF ToSet
      <4>2. Len(a) + j \in DOMAIN c /\ c[Len(a) + j] = y
        BY <2>2, <4>1
      <4> QED BY <4>2 DEF ToSet
    <3> QED BY <3>1, <3>2
  <2> QED BY <2>1, <2>3, <2>4
<1>2. ASSUME NEW x \in E PROVE ToSet(Append(a, x)) = ToSet(a) \cup {x}
  <2>1. PICK c : c = Append(a, x)
    OBVIOUS
  <2>2. /\ DOMAIN c = 1 .. Len(a) + 1 /\ DOMAIN a = 1 .. Len(a)
        /\ \A k \in 1 .. Len(a) : c[k] = a[k]
        /\ c[Len(a) + 1] = x /\ Len(a) \in Nat
    BY <2>1
  <2>3. Len(a) + 1 \in DOMAIN c /\ \A i \in DOMAIN c : i \in 1 .. Len(a) \/ i = Len(a) + 1
    BY <2>2
  <2>4. \A y : y \in ToSet(c) <=> y \in ToSet(a) \cup {x}
    BY <2>2, <2>3 DEF ToSet
  <2> QED BY <2>1, <2>4
<1>3. ToSet(<<>>) = {}
  BY DEF ToSet
<1> QED BY <1>1, <1>2, <1>3

LEMMA FirstMember ==
  ASSUME NEW E, NEW a \in Seq(E), a # <<>>
  PROVE  /\ Head(a) \in E /\ Tail(a) \in Seq(E) /\ Len(Tail(a)) = Len(a) - 1
         /\ \A k \in 1 .. Len(a) - 1 : Tail(a)[k] = a[k + 1]
         /\ Head(a) = a[1] /\ ToSet(a) = {Head(a)} \cup ToSet(Tail(a))
<1>1. PICK h, t : h = Head(a) /\ t = Tail(a)
  OBVIOUS
<1>2. /\ h \in E /\ t \in Seq(E) /\ Len(t) = Len(a) - 1 /\ h = a[1] /\ Len(a) \in Nat \ {0}
      /\ \A k \in 1 .. Len(a) - 1 : t[k] = a[k + 1]
  BY <1>1
<1>3. DOMAIN a = 1 .. Len(a) /\ DOMAIN t = 1 .. Len(a) - 1
  BY <1>2
<1>4. ASSUME NEW y \in ToSet(a) PROVE y \in {h} \cup ToSet(t)
  <2>1. PICK i \in 1 .. Len(a) : y = a[i]
    BY <1>3 DEF ToSet
  <2>2. CASE i = 1
    BY <1>2, <2>1, <2>2
  <2>3. CASE i # 1
    <3>1. PICK j : j = i - 1 /\ j \in 1 .. Len(a) - 1 /\ i = j + 1
      BY <1>2, <2>3
    <3>2. j \in DOMAIN t /\ t[j] = y
      BY <1>2, <1>3, <2>1, <3>1
    <3> QED BY <3>2 DEF ToSet
  <2> QED BY <2>2, <2>3
<1>5. ASSUME NEW y \in {h} \cup ToSet(t) PROVE y \in ToSet(a)
  <2>1. CASE y = h
    <3>1. 1 \in DOMAIN a
      BY <1>2, <1>3
    <3> QED BY <1>2, <2>1, <3>1 DEF ToSet
  <2>2. CASE y \in ToSet(t)
    <3>1. PICK j \in 1 .. Len(a) - 1 : y = t[j]
      BY <1>3, <2>2 DEF ToSet
    <3>2. j + 1 \in DOMAIN a /\ a[j + 1] = y
      BY <1>2, <1>3, <3>1
    <3> QED BY <3>2 DEF ToSet
  <2> QED BY <2>1, <2>2
<1> QED BY <1>1, <1>2, <1>4, <1>5

\* p and q are the two parts of a.
TwoParts(a, p, q) ==
  /\ Len(a) = Len(p) + Len(q) /\ \A k \in 1 .. Len(p) : p[k] = a[k]
  /\ \A k \in 1 .. Len(q) : q[k] = a[Len(p) + k]

LEMMA InTwoParts ==
  ASSUME NEW E, NEW a \in Seq(E), NEW p \in Seq(E), NEW q \in Seq(E), TwoParts(a, p, q)
  PROVE  a = p \o q /\ ToSet(a) = ToSet(p) \cup ToSet(q)
<1>1. PICK c : c = p \o q
  OBVIOUS
<1>2. /\ c \in Seq(E) /\ Len(c) = Len(a) /\ \A k \in 1 .. Len(p) : c[k] = p[k]
      /\ \A k \in 1 .. Len(q) : c[Len(p) + k] = q[k]
  BY <1>1, Concatenated DEF TwoParts
<1>3. Len(p) \in Nat /\ Len(q) \in Nat /\ Len(a) = Len(p) + Len(q)
  BY DEF TwoParts
<1>4. ASSUME NEW i \in 1 .. Len(a) PROVE c[i] = a[i]
  <2>1. CASE i <= Len(p)
    BY <1>2, <1>3, <2>1 DEF TwoParts
  <2>2. CASE i > Len(p)
    <3>1. PICK j : j = i - Len(p) /\ j \in 1 .. Len(q) /\ i = Len(p) + j
      BY <1>3, <2>2
    <3> QED BY <1>2, <3>1 DEF TwoParts
  <2> QED BY <1>3, <2>1, <2>2
<1>5. c = a
  BY <1>2, <1>4, SameSequence
<1>6. ToSet(p \o q) = ToSet(p) \cup ToSet(q)
  BY Members
<1> QED BY <1>1, <1>5, <1>6

Byte == [from : Fds, at : Nat, nl : BOOLEAN]
Result == [bytes : Seq(Byte), n : Nat]

\* What is returned, one line after the other.
BytesOf(rs) == FlattenSeq([j \in DOMAIN rs |-> rs[j].bytes])

LEMMA BytesTyped ==
  ASSUME NEW rs \in Seq(Result)
  PROVE  BytesOf(rs) \in Seq(Byte) /\ (rs = <<>> => BytesOf(rs) = <<>>)
<1>1. PICK ss : ss = [j \in DOMAIN rs |-> rs[j].bytes]
  OBVIOUS
<1>2. \A j \in 1 .. Len(rs) : rs[j].bytes \in Seq(Byte)
  <2>1. ASSUME NEW j \in 1 .. Len(rs) PROVE rs[j].bytes \in Seq(Byte)
    <3>1. PICK r : r = rs[j]
      OBVIOUS
    <3>2. r \in Result
      BY <3>1
    <3> QED BY <3>1, <3>2 DEF Result
  <2> QED BY <2>1
<1>3. ss \in Seq(Seq(Byte)) /\ Len(ss) = Len(rs)
  <2>1. DOMAIN rs = 1 .. Len(rs) /\ Len(rs) \in Nat
    OBVIOUS
  <2> DEFINE Q == Seq(Byte)
  <2>2. \A j \in 1 .. Len(rs) : rs[j].bytes \in Q
    BY <1>2
  <2> HIDE DEF Q
  <2>3. ss \in Seq(Q) /\ Len(ss) = Len(rs)
    BY <1>1, <2>1, <2>2
  <2> QED BY <2>3 DEF Q
<1>4. FlattenSeq(ss) \in Seq(Byte)
  BY <1>3, FlattenTyped
<1>5. rs = <<>> => FlattenSeq(ss) = <<>>
  <2>1. SUFFICES ASSUME rs = <<>> PROVE FlattenSeq(ss) = <<>>
    OBVIOUS
  <2>2. PICK z : z = 0 /\ z \in 0 .. 2
    OBVIOUS
  <2>3. \A k \in 1 .. Len(ss) : Len(ss[k]) = z
    BY <1>3, <2>1
  <2> QED BY <1>3, <2>2, <2>3, FlattenBlocks
<1> QED BY <1>1, <1>4, <1>5 DEF BytesOf

LEMMA BytesMore ==
  ASSUME NEW rs \in Seq(Result), NEW r \in Result
  PROVE  Append(rs, r) \in Seq(Result) /\ BytesOf(Append(rs, r)) = BytesOf(rs) \o r.bytes
<1>1. PICK ss, tt, qs, x : /\ ss = [j \in DOMAIN rs |-> rs[j].bytes] /\ qs = Append(rs, r)
                           /\ tt = [j \in DOMAIN qs |-> qs[j].bytes] /\ x = r.bytes
  OBVIOUS
<1>2. /\ qs \in Seq(Result) /\ Len(qs) = Len(rs) + 1 /\ DOMAIN qs = 1 .. Len(rs) + 1
      /\ DOMAIN rs = 1 .. Len(rs) /\ Len(rs) \in Nat
      /\ \A j \in 1 .. Len(rs) : qs[j] = rs[j]
      /\ qs[Len(rs) + 1] = r
  BY <1>1
<1>3. x \in Seq(Byte)
  BY <1>1 DEF Result
<1>4. \A j \in 1 .. Len(rs) + 1 : qs[j].bytes \in Seq(Byte)
  <2>1. ASSUME NEW j \in 1 .. Len(rs) + 1 PROVE qs[j].bytes \in Seq(Byte)
    <3>1. PICK q : q = qs[j]
      OBVIOUS
    <3>2. q \in Result
      BY <1>2, <3>1
    <3> QED BY <3>1, <3>2 DEF Result
  <2> QED BY <2>1
<1> DEFINE Q == Seq(Byte)
<1>5. \A j \in 1 .. Len(rs) + 1 : qs[j].bytes \in Q
  BY <1>4
<1>6. x \in Q
  BY <1>3
<1> HIDE DEF Q
<1>7. /\ ss \in Seq(Q) /\ Len(ss) = Len(rs) /\ tt \in Seq(Q) /\ Len(tt) = Len(rs) + 1
      /\ \A j \in 1 .. Len(rs) : tt[j] = ss[j]
      /\ tt[Len(rs) + 1] = x
  <2>1. \A j \in 1 .. Len(rs) : rs[j].bytes \in Q /\ rs[j].bytes = qs[j].bytes
    BY <1>2, <1>5
  <2>2. ss \in Seq(Q) /\ Len(ss) = Len(rs) /\ \A j \in 1 .. Len(rs) : ss[j] = qs[j].bytes
    BY <1>1, <1>2, <2>1
  <2>3. tt \in Seq(Q) /\ Len(tt) = Len(rs) + 1 /\ \A j \in 1 .. Len(rs) + 1 : tt[j] = qs[j].bytes
    <3>1. PICK n : n = Len(rs) + 1 /\ n \in Nat
      BY <1>2
    <3>2. tt = [j \in 1 .. n |-> qs[j].bytes] /\ \A j \in 1 .. n : qs[j].bytes \in Q
      BY <1>1, <1>2, <1>5, <3>1
    <3>3. tt \in Seq(Q) /\ Len(tt) = n /\ \A j \in 1 .. n : tt[j] = qs[j].bytes
      BY <3>1, <3>2
    <3> QED BY <3>1, <3>3
  <2> QED BY <1>1, <1>2, <2>2, <2>3
<1>8. PICK uu : uu = Append(ss, x)
  OBVIOUS
<1>9. /\ uu \in Seq(Q) /\ Len(uu) = Len(tt) /\ \A j \in 1 .. Len(tt) : tt[j] = uu[j]
  <2>1. /\ uu \in Seq(Q) /\ Len(uu) = Len(ss) + 1 /\ uu[Len(ss) + 1] = x
        /\ \A j \in 1 .. Len(ss) : uu[j] = ss[j]
    BY <1>6, <1>7, <1>8
  <2> QED BY <1>2, <1>7, <2>1
<1>10. tt = uu
  BY <1>7, <1>9, SameSequence
<1>11. ss \in Seq(Seq(Byte))
  BY <1>7 DEF Q
<1>12. FlattenSeq(Append(ss, x)) = FlattenSeq(ss) \o x
  BY <1>3, <1>11, FlattenAppend
<1> QED BY <1>1, <1>2, <1>8, <1>10, <1>12 DEF BytesOf

-----------------------------------------------------------------------------
\* The eleven places where bytes are: returned, in a line, read ahead, to be read.
Numbers == 1 .. 11
BytePieces(c, b, i, rs) ==
  [k \in Numbers |-> IF k <= 2 THEN BytesOf(rs[k]) ELSE IF k <= 4 THEN c[k - 2]
                     ELSE IF k <= 9 THEN b[k - 5] ELSE i[k - 9]]
AddedUp(l) == l[1] + l[2] + l[3] + l[4] + l[5] + l[6] + l[7] + l[8] + l[9] + l[10] + l[11]
InAll(g) == UNION {ToSet(g[k]) : k \in Numbers}

LEMMA OneLess ==
  ASSUME NEW l \in [Numbers -> Nat], NEW m \in [Numbers -> Nat], NEW u \in Numbers,
         \A k \in Numbers : k # u => m[k] = l[k]
  PROVE  AddedUp(m) + l[u] = AddedUp(l) + m[u]
<1>1. ASSUME NEW v \in Numbers, v = u PROVE AddedUp(m) + l[v] = AddedUp(l) + m[v]
  BY <1>1 DEF AddedUp, Numbers
<1> QED BY <1>1

\* Bytes go from one piece to another.
Gives(g, h, u, v) ==
  /\ u # v /\ \A k \in Numbers : k \notin {u, v} => h[k] = g[k]
  /\ Len(h[u]) + Len(h[v]) = Len(g[u]) + Len(g[v])
  /\ ToSet(h[u]) \cup ToSet(h[v]) = ToSet(g[u]) \cup ToSet(g[v])

LEMMA Balance ==
  ASSUME NEW x \in Nat, NEW y \in Nat, NEW z \in Nat, NEW gu \in Nat, NEW gv \in Nat,
         NEW hu \in Nat, NEW hv \in Nat, y + gu = x + hu, z + gv = y + hv, hu + hv = gu + gv
  PROVE  z = x
OBVIOUS

\* What one piece gives to another is not lost.
LEMMA Moved ==
  ASSUME NEW g \in [Numbers -> Seq(Byte)], NEW h \in [Numbers -> Seq(Byte)],
         NEW u \in Numbers, NEW v \in Numbers, Gives(g, h, u, v)
  PROVE  /\ InAll(h) = InAll(g)
         /\ AddedUp([k \in Numbers |-> Len(h[k])]) = AddedUp([k \in Numbers |-> Len(g[k])])
<1>1. ASSUME NEW x PROVE x \in InAll(h) <=> x \in InAll(g)
  BY DEF InAll, Gives
<1>2. PICK l, m, n : /\ l = [k \in Numbers |-> Len(g[k])] /\ n = [k \in Numbers |-> Len(h[k])]
                     /\ m = [l EXCEPT ![u] = Len(h[u])]
  OBVIOUS
<1>3. /\ l \in [Numbers -> Nat] /\ m \in [Numbers -> Nat] /\ n \in [Numbers -> Nat]
      /\ (\A k \in Numbers : k # u => m[k] = l[k]) /\ (\A k \in Numbers : k # v => n[k] = m[k])
      /\ l[u] = Len(g[u]) /\ m[u] = Len(h[u]) /\ m[v] = Len(g[v]) /\ n[v] = Len(h[v])
  <2>1. \A k \in Numbers : Len(g[k]) \in Nat /\ Len(h[k]) \in Nat
    OBVIOUS
  <2> QED BY <1>2, <2>1 DEF Gives
<1>4. AddedUp(m) + l[u] = AddedUp(l) + m[u]
  BY <1>3, OneLess
<1>5. AddedUp(n) + m[v] = AddedUp(m) + n[v]
  BY <1>3, OneLess
<1>a. ASSUME NEW f \in [Numbers -> Nat] PROVE AddedUp(f) \in Nat
  <2>1. /\ f[1] \in Nat /\ f[2] \in Nat /\ f[3] \in Nat /\ f[4] \in Nat /\ f[5] \in Nat /\ f[6] \in Nat
        /\ f[7] \in Nat /\ f[8] \in Nat /\ f[9] \in Nat /\ f[10] \in Nat /\ f[11] \in Nat
    BY DEF Numbers
  <2>2. \A x, y \in Nat : x + y \in Nat
    OBVIOUS
  <2>3. f[1] + f[2] + f[3] + f[4] + f[5] + f[6] \in Nat
    BY <2>1, <2>2
  <2>4. f[1] + f[2] + f[3] + f[4] + f[5] + f[6] + f[7] + f[8] + f[9] + f[10] + f[11] \in Nat
    BY <2>1, <2>2, <2>3
  <2> QED BY <2>4 DEF AddedUp
<1>6. AddedUp(l) \in Nat /\ AddedUp(m) \in Nat /\ AddedUp(n) \in Nat
  BY <1>3, <1>a
<1>7. PICK gu, gv, hu, hv : gu = Len(g[u]) /\ gv = Len(g[v]) /\ hu = Len(h[u]) /\ hv = Len(h[v])
  OBVIOUS
<1>b. gu \in Nat /\ gv \in Nat /\ hu \in Nat /\ hv \in Nat /\ hu + hv = gu + gv
  BY <1>7 DEF Gives
<1>c. AddedUp(m) + gu = AddedUp(l) + hu /\ AddedUp(n) + gv = AddedUp(m) + hv
  BY <1>3, <1>4, <1>5, <1>7
<1>8. AddedUp(n) = AddedUp(l)
  <2>1. PICK x, y, z : x = AddedUp(l) /\ y = AddedUp(m) /\ z = AddedUp(n)
    OBVIOUS
  <2>2. x \in Nat /\ y \in Nat /\ z \in Nat
    BY <1>6, <2>1
  <2>3. y + gu = x + hu /\ z + gv = y + hv
    BY <1>c, <2>1
  <2>4. z = x
    BY <1>b, <2>2, <2>3, Balance
  <2> QED BY <2>1, <2>4
<1> QED BY <1>1, <1>2, <1>8

VersTyped ==
  /\ ver.keep \in {"static", "thread", "fd", "none"} /\ ver.fixed \in BOOLEAN
  /\ ver.eofcount \in Nat /\ (ver.fixed => ver.eofcount = 0)
  /\ use \in {"one", "two", "threads"} /\ (ver.keep = "static" => use # "threads")

LineTyped(c, b, i, rs, l) ==
  /\ c \in [Threads -> Seq(Byte)] /\ b \in [0 .. 4 -> Seq(Byte)] /\ i \in [Fds -> Seq(Byte)]
  /\ rs \in [Fds -> Seq(Result)] /\ l \in [Threads -> Fds]
  /\ use # "two" => \A t \in Threads : l[t] = t
  /\ ver.keep = "none" => b[0] = <<>>

\* Nothing is lost and nothing is there twice.
Complete(g) ==
  /\ AddedUp([k \in Numbers |-> Len(g[k])]) = total[1] + total[2]
  /\ \A f \in Fds : {x.at : x \in {y \in InAll(g) : y.from = f}} = 1 .. total[f]

\* The bytes of a descriptor follow each other: what was returned, the line, what was read
\* ahead, and what is still to be read.
InPlace(s, f, k) == \A j \in 1 .. Len(s) : s[j].from = f /\ s[j].at = k + j
InChain(f, p, q, r, s) ==
  /\ InPlace(p, f, 0) /\ InPlace(q, f, Len(p)) /\ InPlace(r, f, Len(p) + Len(q))
  /\ InPlace(s, f, Len(p) + Len(q) + Len(r))

\* The line of a descriptor, and what was read ahead for it, in a version that suits.
LineOf(f, c, l) == IF use = "threads" THEN c[f] ELSE IF l[1] = f THEN c[1] ELSE <<>>
BufOf(f, b) ==
  IF ver.keep = "static" THEN (IF f = 1 THEN b[0] ELSE <<>>)
  ELSE IF ver.keep = "thread" THEN b[f] ELSE IF ver.keep = "fd" THEN b[2 + f] ELSE <<>>
Chain(c, b, i, rs, l) ==
  \A f \in Fds : InChain(f, BytesOf(rs[f]), LineOf(f, c, l), BufOf(f, b), i[f])

LineInv(c, b, i, rs, l) ==
  LineTyped(c, b, i, rs, l) /\ Complete(BytePieces(c, b, i, rs)) /\ (Suits => Chain(c, b, i, rs, l))

LEMMA PiecesTyped ==
  ASSUME NEW c, NEW b, NEW i, NEW rs, NEW l, LineTyped(c, b, i, rs, l)
  PROVE  /\ BytePieces(c, b, i, rs) \in [Numbers -> Seq(Byte)]
         /\ \A f \in Fds : f \in Numbers /\ BytePieces(c, b, i, rs)[f] = BytesOf(rs[f])
         /\ \A t \in Threads : 2 + t \in Numbers /\ BytePieces(c, b, i, rs)[2 + t] = c[t]
         /\ \A k \in 0 .. 4 : 5 + k \in Numbers /\ BytePieces(c, b, i, rs)[5 + k] = b[k]
         /\ \A f \in Fds : 9 + f \in Numbers /\ BytePieces(c, b, i, rs)[9 + f] = i[f]
<1>1. PICK g : g = BytePieces(c, b, i, rs)
  OBVIOUS
<1>2. \A f \in Fds : BytesOf(rs[f]) \in Seq(Byte)
  BY BytesTyped DEF LineTyped
<1>3. ASSUME NEW k \in Numbers PROVE g[k] \in Seq(Byte)
  <2>1. CASE k <= 2
    <3>1. k \in Fds /\ g[k] = BytesOf(rs[k])
      BY <1>1, <2>1 DEF Numbers, Fds, BytePieces
    <3> QED BY <1>2, <3>1
  <2>2. CASE k > 2 /\ k <= 4
    <3>1. PICK j : j = k - 2 /\ j \in Threads /\ g[k] = c[j]
      BY <1>1, <2>2 DEF Numbers, Threads, BytePieces
    <3> QED BY <3>1 DEF LineTyped
  <2>3. CASE k > 4 /\ k <= 9
    <3>1. PICK j : j = k - 5 /\ j \in 0 .. 4 /\ g[k] = b[j]
      BY <1>1, <2>3 DEF Numbers, BytePieces
    <3> QED BY <3>1 DEF LineTyped
  <2>4. CASE k > 9
    <3>1. PICK j : j = k - 9 /\ j \in Fds /\ g[k] = i[j]
      BY <1>1, <2>4 DEF Numbers, Fds, BytePieces
    <3> QED BY <3>1 DEF LineTyped
  <2> QED BY <2>1, <2>2, <2>3, <2>4 DEF Numbers
<1>4. g \in [Numbers -> Seq(Byte)]
  <2>1. g = [k \in Numbers |-> g[k]]
    BY <1>1 DEF BytePieces
  <2> QED BY <1>3, <2>1
<1>5. /\ \A f \in Fds : f \in Numbers /\ g[f] = BytesOf(rs[f])
      /\ \A t \in Threads : 2 + t \in Numbers /\ g[2 + t] = c[t]
      /\ \A k \in 0 .. 4 : 5 + k \in Numbers /\ g[5 + k] = b[k]
      /\ \A f \in Fds : 9 + f \in Numbers /\ g[9 + f] = i[f]
  <2>1. \A f \in Fds : f \in Numbers /\ g[f] = BytesOf(rs[f])
    BY <1>1 DEF Fds, Numbers, BytePieces
  <2>2. \A t \in Threads : 2 + t \in Numbers /\ g[2 + t] = c[t]
    BY <1>1 DEF Threads, Numbers, BytePieces
  <2>3. \A k \in 0 .. 4 : 5 + k \in Numbers /\ g[5 + k] = b[k]
    BY <1>1 DEF Numbers, BytePieces
  <2>4. \A f \in Fds : 9 + f \in Numbers /\ g[9 + f] = i[f]
    BY <1>1 DEF Fds, Numbers, BytePieces
  <2> QED BY <2>1, <2>2, <2>3, <2>4
<1> QED BY <1>1, <1>4, <1>5

LEMMA StaysComplete ==
  ASSUME NEW g \in [Numbers -> Seq(Byte)], NEW h \in [Numbers -> Seq(Byte)], Complete(g),
         NEW u \in Numbers, NEW v \in Numbers, Gives(g, h, u, v)
  PROVE  Complete(h)
<1>1. /\ InAll(h) = InAll(g)
      /\ AddedUp([k \in Numbers |-> Len(h[k])]) = AddedUp([k \in Numbers |-> Len(g[k])])
  BY Moved
<1> QED BY <1>1 DEF Complete

\* The steps along the chain.
LEMMA ChainFill ==
  ASSUME NEW f, NEW p \in Seq(Byte), NEW q \in Seq(Byte), NEW r \in Seq(Byte), NEW s \in Seq(Byte),
         InChain(f, p, q, r, s), Len(r) = 0, NEW r2 \in Seq(Byte), NEW s2 \in Seq(Byte),
         TwoParts(s, r2, s2)
  PROVE  InChain(f, p, q, r2, s2)
<1>1. PICK a, n, m : a = Len(p) + Len(q) /\ a \in Nat /\ n = Len(r2) /\ n \in Nat /\ m = Len(s2) /\ m \in Nat
  <2>1. Len(p) \in Nat /\ Len(q) \in Nat /\ Len(r2) \in Nat /\ Len(s2) \in Nat
    OBVIOUS
  <2>2. Len(p) + Len(q) \in Nat
    BY <2>1
  <2> QED BY <2>1, <2>2, Zenon
<1>2. \A j \in 1 .. Len(s) : s[j].from = f /\ s[j].at = a + j
  BY <1>1 DEF InChain, InPlace
<1>3. /\ Len(s) = n + m /\ \A k \in 1 .. n : r2[k] = s[k]
      /\ \A k \in 1 .. m : s2[k] = s[n + k]
  BY <1>1 DEF TwoParts
<1>4. InPlace(r2, f, a)
  BY <1>1, <1>2, <1>3 DEF InPlace
<1>5. ASSUME NEW k \in 1 .. m PROVE s2[k].from = f /\ s2[k].at = (a + n) + k
  <2>1. PICK j : j = n + k /\ j \in 1 .. Len(s)
    BY <1>1, <1>3
  <2>2. s2[k] = s[j] /\ s[j].from = f /\ s[j].at = a + j
    BY <1>2, <1>3, <2>1
  <2>3. a + j = (a + n) + k
    BY <1>1, <2>1
  <2> QED BY <2>2, <2>3, Zenon
<1>6. InPlace(s2, f, a + n)
  BY <1>1, <1>5 DEF InPlace
<1> QED BY <1>1, <1>4, <1>6 DEF InChain

LEMMA OneMore ==
  ASSUME NEW f, NEW k \in Nat, NEW q \in Seq(Byte), NEW r \in Seq(Byte), r # <<>>,
         InPlace(q, f, k), InPlace(r, f, k + Len(q))
  PROVE  /\ Append(q, Head(r)) \in Seq(Byte) /\ Tail(r) \in Seq(Byte)
         /\ Len(Append(q, Head(r))) = Len(q) + 1 /\ Len(Tail(r)) = Len(r) - 1
         /\ InPlace(Append(q, Head(r)), f, k) /\ InPlace(Tail(r), f, k + Len(q) + 1)
<1>1. PICK h, t, q2, n, m : h = Head(r) /\ t = Tail(r) /\ q2 = Append(q, h) /\ n = Len(q) /\ m = Len(r)
  OBVIOUS
<1>2. /\ h \in Byte /\ t \in Seq(Byte) /\ Len(t) = m - 1 /\ h = r[1]
      /\ \A j \in 1 .. m - 1 : t[j] = r[j + 1]
  BY <1>1, FirstMember
<1>3. n \in Nat /\ m \in Nat \ {0}
  BY <1>1
<1>4. /\ q2 \in Seq(Byte) /\ Len(q2) = n + 1 /\ q2[n + 1] = h
      /\ \A j \in 1 .. n : q2[j] = q[j]
  BY <1>1, <1>2
<1>5. \A j \in 1 .. m : r[j].from = f /\ r[j].at = (k + n) + j
  BY <1>1 DEF InPlace
<1>6. ASSUME NEW j \in 1 .. n + 1 PROVE q2[j].from = f /\ q2[j].at = k + j
  <2>1. CASE j \in 1 .. n
    BY <1>1, <1>4, <2>1 DEF InPlace
  <2>2. CASE j \notin 1 .. n
    <3>a. j = n + 1
      BY <1>3, <2>2
    <3>1. j = n + 1 /\ q2[j] = r[1]
      BY <1>2, <1>4, <3>a, Zenon
    <3>2. r[1].from = f /\ r[1].at = (k + n) + 1
      BY <1>3, <1>5
    <3> QED BY <1>3, <3>1, <3>2
  <2> QED BY <2>1, <2>2
<1>7. ASSUME NEW j \in 1 .. m - 1 PROVE t[j].from = f /\ t[j].at = (k + n + 1) + j
  <2>1. PICK w : w = j + 1 /\ w \in 1 .. m
    BY <1>3
  <2>2. t[j] = r[w] /\ r[w].from = f /\ r[w].at = (k + n) + w
    BY <1>2, <1>5, <2>1
  <2>3. (k + n) + w = (k + n + 1) + j
    BY <1>3, <2>1
  <2> QED BY <2>2, <2>3, Zenon
<1>8. InPlace(q2, f, k) /\ InPlace(t, f, k + n + 1)
  BY <1>2, <1>4, <1>6, <1>7 DEF InPlace
<1> QED BY <1>1, <1>2, <1>4, <1>8

LEMMA ChainStore ==
  ASSUME NEW f, NEW p \in Seq(Byte), NEW q \in Seq(Byte), NEW r \in Seq(Byte), NEW s \in Seq(Byte),
         InChain(f, p, q, r, s), r # <<>>
  PROVE  InChain(f, p, Append(q, Head(r)), Tail(r), s)
<1>1. PICK q2, r2, a, b, c : /\ q2 = Append(q, Head(r)) /\ r2 = Tail(r)
                             /\ a = Len(p) /\ b = Len(q) /\ c = Len(r)
  OBVIOUS
<1>2. a \in Nat /\ b \in Nat /\ c \in Nat
  BY <1>1
<1>3. InPlace(p, f, 0) /\ InPlace(q, f, a) /\ InPlace(r, f, a + b) /\ InPlace(s, f, a + b + c)
  BY <1>1 DEF InChain
<1>4. Len(q2) = b + 1 /\ Len(r2) = c - 1 /\ InPlace(q2, f, a) /\ InPlace(r2, f, a + b + 1)
  BY <1>1, <1>2, <1>3, OneMore
<1>5. a + (b + 1) = a + b + 1 /\ a + (b + 1) + (c - 1) = a + b + c
  BY <1>2
<1>6. InPlace(r2, f, a + (b + 1)) /\ InPlace(s, f, a + (b + 1) + (c - 1))
  BY <1>3, <1>4, <1>5
<1> QED BY <1>1, <1>3, <1>4, <1>6 DEF InChain

LEMMA ChainByte ==
  ASSUME NEW f, NEW p \in Seq(Byte), NEW q \in Seq(Byte), NEW r \in Seq(Byte), NEW s \in Seq(Byte),
         InChain(f, p, q, r, s), Len(r) = 0, s # <<>>
  PROVE  InChain(f, p, Append(q, Head(s)), r, Tail(s))
<1>1. PICK q2, s2, a, b : /\ q2 = Append(q, Head(s)) /\ s2 = Tail(s)
                          /\ a = Len(p) /\ b = Len(q)
  OBVIOUS
<1>2. a \in Nat /\ b \in Nat
  BY <1>1
<1>3. InPlace(p, f, 0) /\ InPlace(q, f, a) /\ InPlace(s, f, a + b)
  <2>1. InPlace(s, f, a + b + 0)
    BY <1>1 DEF InChain
  <2>2. a + b + 0 = a + b
    BY <1>2
  <2> QED BY <1>1, <2>1, <2>2 DEF InChain
<1>4. Len(q2) = b + 1 /\ InPlace(q2, f, a) /\ InPlace(s2, f, a + b + 1)
  BY <1>1, <1>2, <1>3, OneMore
<1>5. a + (b + 1) + 0 = a + b + 1
  BY <1>2
<1>6. InPlace(r, f, a + (b + 1)) /\ InPlace(s2, f, a + (b + 1) + 0)
  BY <1>4, <1>5 DEF InPlace
<1> QED BY <1>1, <1>3, <1>4, <1>6 DEF InChain

LEMMA ChainReturn ==
  ASSUME NEW f, NEW p \in Seq(Byte), NEW q \in Seq(Byte), NEW r \in Seq(Byte), NEW s \in Seq(Byte),
         InChain(f, p, q, r, s)
  PROVE  InChain(f, p \o q, <<>>, r, s)
<1>1. PICK p2, a, b : p2 = p \o q /\ a = Len(p) /\ b = Len(q)
  OBVIOUS
<1>2. a \in Nat /\ b \in Nat
  BY <1>1
<1>3. /\ Len(p2) = a + b /\ \A k \in 1 .. a : p2[k] = p[k]
      /\ \A k \in 1 .. b : p2[a + k] = q[k]
  BY <1>1, Concatenated
<1>4. ASSUME NEW j \in 1 .. a + b PROVE p2[j].from = f /\ p2[j].at = 0 + j
  <2>1. CASE j <= a
    BY <1>1, <1>2, <1>3, <2>1 DEF InChain, InPlace
  <2>2. CASE j > a
    <3>1. PICK k : k = j - a /\ k \in 1 .. b /\ j = a + k
      BY <1>2, <2>2
    <3>2. q[k].from = f /\ q[k].at = a + k
      BY <1>1, <3>1 DEF InChain, InPlace
    <3>3. p2[j] = q[k] /\ 0 + j = a + k
      BY <1>2, <1>3, <3>1
    <3> QED BY <3>2, <3>3
  <2> QED BY <1>2, <2>1, <2>2
<1>5. InPlace(p2, f, 0)
  BY <1>3, <1>4 DEF InPlace
<1>6. PICK e : e = <<>> /\ Len(e) = 0
  OBVIOUS
<1>7. InPlace(e, f, a + b)
  BY <1>6 DEF InPlace
<1>8. a + b + 0 = a + b
  BY <1>2
<1>9. InPlace(r, f, a + b + 0) /\ InPlace(s, f, a + b + 0 + Len(r))
  BY <1>1, <1>8 DEF InChain
<1> QED BY <1>1, <1>3, <1>5, <1>6, <1>7, <1>9 DEF InChain

\* Whose line a thread has, and where it reads ahead.
LEMMA Owned ==
  ASSUME VersTyped, NEW t \in Threads, NEW l \in [Threads -> Fds], Active(t),
         use # "two" => \A w \in Threads : l[w] = w, NEW f, f = l[t]
  PROVE  /\ f \in Fds /\ \A c : LineOf(f, c, l) = c[t]
         /\ \A g \in Fds : g # f =>
              \A c, d : (\A w \in Threads : w # t => c[w] = d[w]) => LineOf(g, c, l) = LineOf(g, d, l)
<1>1. CASE use = "threads"
  <2>1. f = t
    BY <1>1
  <2> QED BY <1>1, <2>1 DEF LineOf, Fds, Threads
<1>2. CASE use # "threads"
  <2>1. t = 1
    BY <1>2 DEF Active
  <2> QED BY <1>2, <2>1 DEF LineOf
<1> QED BY <1>1, <1>2

LEMMA Placed ==
  ASSUME VersTyped, NEW t \in Threads, lfd \in [Threads -> Fds], Active(t),
         use # "two" => \A w \in Threads : lfd[w] = w, NEW f, f = lfd[t]
  PROVE  /\ Place(t) \in 0 .. 4
         /\ Suits /\ ver.keep # "none" =>
              /\ \A b : BufOf(f, b) = b[Place(t)]
              /\ \A g \in Fds : g # f =>
                   \A b, d : (\A k \in 0 .. 4 : k # Place(t) => b[k] = d[k]) => BufOf(g, b) = BufOf(g, d)
<1>0. f \in {1, 2} /\ t \in {1, 2}
  BY DEF Fds, Threads
<1>1. Place(t) \in 0 .. 4
  BY <1>0 DEF Place, VersTyped
<1>2. CASE Suits /\ ver.keep = "static"
  <2>1. use = "one" /\ t = 1 /\ f = 1 /\ Place(t) = 0
    BY <1>2 DEF Suits, Active, Place, Threads
  <2> QED BY <1>1, <1>2, <2>1 DEF BufOf
<1>3. CASE Suits /\ ver.keep = "thread"
  <2>1. t = f /\ Place(t) = f
    BY <1>3 DEF Suits, Active, Place, Threads
  <2>2. \A g \in Fds : g # f => g \in 0 .. 4 /\ g # Place(t)
    BY <2>1 DEF Fds
  <2> QED BY <1>1, <1>3, <2>1, <2>2 DEF BufOf
<1>4. CASE Suits /\ ver.keep = "fd"
  <2>1. Place(t) = 2 + f
    BY <1>4 DEF Place
  <2>2. \A g \in Fds : g # f => 2 + g \in 0 .. 4 /\ 2 + g # Place(t)
    BY <1>0, <2>1 DEF Fds
  <2> QED BY <1>1, <1>4, <2>1, <2>2 DEF BufOf
<1> QED BY <1>1, <1>2, <1>3, <1>4 DEF VersTyped

\* Two pieces share what they had.
Trade(gu, gv, hu, hv) ==
  Len(hu) + Len(hv) = Len(gu) + Len(gv) /\ ToSet(hu) \cup ToSet(hv) = ToSet(gu) \cup ToSet(gv)

LEMMA TradeParts ==
  ASSUME NEW s \in Seq(Byte), NEW x \in Seq(Byte), NEW y \in Seq(Byte), TwoParts(s, x, y),
         NEW e, e = <<>>
  PROVE  Trade(e, s, x, y)
<1>1. Len(e) = 0 /\ ToSet(e) = {}
  BY DEF ToSet
<1>2. ToSet(s) = ToSet(x) \cup ToSet(y)
  BY InTwoParts
<1>3. Len(s) = Len(x) + Len(y) /\ Len(s) \in Nat
  BY DEF TwoParts
<1>4. Len(x) + Len(y) = Len(e) + Len(s)
  BY <1>1, <1>3
<1>5. ToSet(x) \cup ToSet(y) = ToSet(e) \cup ToSet(s)
  BY <1>1, <1>2
<1> QED BY <1>4, <1>5 DEF Trade

LEMMA TradeHead ==
  ASSUME NEW q \in Seq(Byte), NEW r \in Seq(Byte), r # <<>>
  PROVE  /\ Append(q, Head(r)) \in Seq(Byte) /\ Tail(r) \in Seq(Byte)
         /\ Trade(q, r, Append(q, Head(r)), Tail(r))
<1>1. PICK h, t, p : h = Head(r) /\ t = Tail(r) /\ p = Append(q, h)
  OBVIOUS
<1>2. h \in Byte /\ t \in Seq(Byte) /\ Len(t) = Len(r) - 1 /\ ToSet(r) = {h} \cup ToSet(t)
  BY <1>1, FirstMember
<1>3. p \in Seq(Byte) /\ Len(p) = Len(q) + 1
  BY <1>1, <1>2
<1>4. ToSet(p) = ToSet(q) \cup {h}
  BY <1>1, <1>2, Members
<1>5. Len(p) + Len(t) = Len(q) + Len(r)
  <2>a. Len(q) \in Nat /\ Len(r) \in Nat
    OBVIOUS
  <2>1. PICK a, b : a = Len(q) /\ b = Len(r) /\ a \in Nat /\ b \in Nat
    BY <2>a, Zenon
  <2> QED BY <1>2, <1>3, <2>1
<1>6. ToSet(p) \cup ToSet(t) = ToSet(q) \cup ToSet(r)
  BY <1>2, <1>4
<1> QED BY <1>1, <1>2, <1>3, <1>5, <1>6 DEF Trade

LEMMA TradeJoin ==
  ASSUME NEW p \in Seq(Byte), NEW q \in Seq(Byte), NEW e, e = <<>>
  PROVE  Trade(p, q, p \o q, e)
<1>1. Len(e) = 0 /\ ToSet(e) = {}
  BY DEF ToSet
<1>2. ToSet(p \o q) = ToSet(p) \cup ToSet(q)
  BY Members
<1>3. PICK j : j = p \o q
  OBVIOUS
<1>4. Len(j) = Len(p) + Len(q) /\ Len(p) + Len(q) \in Nat
  BY <1>3
<1>5. Len(j) + Len(e) = Len(p) + Len(q)
  BY <1>1, <1>4
<1>6. ToSet(j) \cup ToSet(e) = ToSet(p) \cup ToSet(q)
  BY <1>1, <1>2, <1>3
<1> QED BY <1>3, <1>5, <1>6 DEF Trade

\* All pieces but u and v are as they were.
Unmoved(c, b, i, rs, c2, b2, i2, rs2, u, v) ==
  /\ \A f \in Fds : f \notin {u, v} => rs2[f] = rs[f]
  /\ \A t \in Threads : 2 + t \notin {u, v} => c2[t] = c[t]
  /\ \A k \in 0 .. 4 : 5 + k \notin {u, v} => b2[k] = b[k]
  /\ \A f \in Fds : 9 + f \notin {u, v} => i2[f] = i[f]

LEMMA PiecesStay ==
  ASSUME NEW c, NEW b, NEW i, NEW rs, NEW c2, NEW b2, NEW i2, NEW rs2, NEW u, NEW v,
         Unmoved(c, b, i, rs, c2, b2, i2, rs2, u, v)
  PROVE  \A k \in Numbers : k \notin {u, v} => BytePieces(c2, b2, i2, rs2)[k] = BytePieces(c, b, i, rs)[k]
<1>1. PICK g, h : g = BytePieces(c, b, i, rs) /\ h = BytePieces(c2, b2, i2, rs2)
  OBVIOUS
<1>2. ASSUME NEW k \in Numbers, k \notin {u, v} PROVE h[k] = g[k]
  <2>0. k \in 1 .. 11
    BY DEF Numbers
  <2>1. CASE k <= 2
    <3>1. k \in Fds
      BY <2>0, <2>1 DEF Fds
    <3>2. rs2[k] = rs[k]
      BY <1>2, <3>1 DEF Unmoved
    <3>3. g[k] = BytesOf(rs[k]) /\ h[k] = BytesOf(rs2[k])
      BY <1>1, <2>1 DEF BytePieces
    <3> QED BY <3>2, <3>3
  <2>2. CASE k > 2 /\ k <= 4
    <3>1. PICK j : j = k - 2 /\ j \in Threads /\ 2 + j = k
      BY <2>0, <2>2 DEF Threads
    <3>2. c2[j] = c[j]
      BY <1>2, <3>1 DEF Unmoved
    <3>3. g[k] = c[j] /\ h[k] = c2[j]
      BY <1>1, <2>0, <2>2, <3>1 DEF BytePieces
    <3> QED BY <3>2, <3>3
  <2>3. CASE k > 4 /\ k <= 9
    <3>1. PICK j : j = k - 5 /\ j \in 0 .. 4 /\ 5 + j = k
      BY <2>0, <2>3
    <3>2. b2[j] = b[j]
      BY <1>2, <3>1 DEF Unmoved
    <3>3. g[k] = b[j] /\ h[k] = b2[j]
      BY <1>1, <2>0, <2>3, <3>1 DEF BytePieces
    <3> QED BY <3>2, <3>3
  <2>4. CASE k > 9
    <3>1. PICK j : j = k - 9 /\ j \in Fds /\ 9 + j = k
      BY <2>0, <2>4 DEF Fds
    <3>2. i2[j] = i[j]
      BY <1>2, <3>1 DEF Unmoved
    <3>3. g[k] = i[j] /\ h[k] = i2[j]
      BY <1>1, <2>0, <2>4, <3>1 DEF BytePieces
    <3> QED BY <3>2, <3>3
  <2> QED BY <2>0, <2>1, <2>2, <2>3, <2>4
<1> QED BY <1>1, <1>2

LEMMA TradeComplete ==
  ASSUME NEW c, NEW b, NEW i, NEW rs, NEW l, NEW c2, NEW b2, NEW i2, NEW rs2, NEW l2,
         LineTyped(c, b, i, rs, l), LineTyped(c2, b2, i2, rs2, l2), Complete(BytePieces(c, b, i, rs)),
         NEW u \in Numbers, NEW v \in Numbers, u # v,
         Unmoved(c, b, i, rs, c2, b2, i2, rs2, u, v),
         Trade(BytePieces(c, b, i, rs)[u], BytePieces(c, b, i, rs)[v],
               BytePieces(c2, b2, i2, rs2)[u], BytePieces(c2, b2, i2, rs2)[v])
  PROVE  Complete(BytePieces(c2, b2, i2, rs2))
<1>1. PICK g, h : g = BytePieces(c, b, i, rs) /\ h = BytePieces(c2, b2, i2, rs2)
  OBVIOUS
<1>2. g \in [Numbers -> Seq(Byte)]
  BY <1>1, PiecesTyped
<1>3. h \in [Numbers -> Seq(Byte)]
  BY <1>1, PiecesTyped
<1>4. \A k \in Numbers : k \notin {u, v} => h[k] = g[k]
  BY <1>1, PiecesStay
<1>5. Trade(g[u], g[v], h[u], h[v])
  BY <1>1
<1>6. Gives(g, h, u, v)
  BY <1>4, <1>5 DEF Gives, Trade
<1>7. Complete(g)
  BY <1>1
<1> QED BY <1>1, <1>2, <1>3, <1>6, <1>7, StaysComplete

\* The chains of the descriptors but f are as they were.
Others(c, b, i, rs, l, c2, b2, i2, rs2, l2, f) ==
  \A g \in Fds : g # f =>
     /\ rs2[g] = rs[g] /\ i2[g] = i[g]
     /\ LineOf(g, c2, l2) = LineOf(g, c, l) /\ BufOf(g, b2) = BufOf(g, b)

LEMMA ChainMoves ==
  ASSUME NEW c, NEW b, NEW i, NEW rs, NEW l, NEW c2, NEW b2, NEW i2, NEW rs2, NEW l2, NEW f,
         Chain(c, b, i, rs, l), Others(c, b, i, rs, l, c2, b2, i2, rs2, l2, f),
         InChain(f, BytesOf(rs2[f]), LineOf(f, c2, l2), BufOf(f, b2), i2[f])
  PROVE  Chain(c2, b2, i2, rs2, l2)
<1>1. ASSUME NEW g \in Fds
      PROVE  InChain(g, BytesOf(rs2[g]), LineOf(g, c2, l2), BufOf(g, b2), i2[g])
  <2>1. CASE g = f
    BY <2>1
  <2>2. CASE g # f
    <3>1. InChain(g, BytesOf(rs[g]), LineOf(g, c, l), BufOf(g, b), i[g])
      BY DEF Chain
    <3>2. /\ rs2[g] = rs[g] /\ i2[g] = i[g]
          /\ LineOf(g, c2, l2) = LineOf(g, c, l) /\ BufOf(g, b2) = BufOf(g, b)
      BY <2>2 DEF Others
    <3> QED BY <3>1, <3>2
  <2> QED BY <2>1, <2>2
<1> QED BY <1>1 DEF Chain

\* What the lemmas about a thread's descriptor say, for any values.
Owner(t, l) == VersTyped /\ t \in Threads /\ Active(t) /\ l \in [Threads -> Fds]
               /\ (use # "two" => \A w \in Threads : l[w] = w)

LEMMA OwnLine ==
  ASSUME NEW t, NEW c, NEW l, Owner(t, l)
  PROVE  LineOf(l[t], c, l) = c[t]
<1>1. PICK f : f = l[t]
  OBVIOUS
<1> QED BY <1>1, Owned DEF Owner

SameElse(S, c, d, u) == \A w \in S : w # u => c[w] = d[w]

LEMMA OtherLines ==
  ASSUME NEW t, NEW c, NEW d, NEW l, Owner(t, l), SameElse(Threads, c, d, t)
  PROVE  \A g \in Fds : g # l[t] => LineOf(g, c, l) = LineOf(g, d, l)
<1>1. PICK f : f = l[t]
  OBVIOUS
<1>2. \A w \in Threads : w # t => c[w] = d[w]
  BY DEF SameElse
<1> QED BY <1>1, <1>2, Owned DEF Owner

LEMMA OwnPlace ==
  ASSUME NEW t, Owner(t, lfd)
  PROVE  Place(t) \in 0 .. 4
<1>1. PICK f : f = lfd[t]
  OBVIOUS
<1> QED BY <1>1, Placed DEF Owner

LEMMA OwnBuf ==
  ASSUME NEW t, NEW b, Owner(t, lfd), Suits, ver.keep # "none"
  PROVE  BufOf(lfd[t], b) = b[Place(t)]
<1>1. PICK f : f = lfd[t]
  OBVIOUS
<1> QED BY <1>1, Placed DEF Owner

LEMMA OtherBufs ==
  ASSUME NEW t, NEW b, NEW d, Owner(t, lfd), Suits, ver.keep # "none",
         SameElse(0 .. 4, b, d, Place(t))
  PROVE  \A g \in Fds : g # lfd[t] => BufOf(g, b) = BufOf(g, d)
<1>1. PICK f : f = lfd[t]
  OBVIOUS
<1>2. \A k \in 0 .. 4 : k # Place(t) => b[k] = d[k]
  BY DEF SameElse
<1> QED BY <1>1, <1>2, Placed DEF Owner

LEMMA LinksTyped ==
  ASSUME VersTyped, NEW c, NEW b, NEW i, NEW rs, NEW l, LineTyped(c, b, i, rs, l), NEW f \in Fds
  PROVE  /\ BytesOf(rs[f]) \in Seq(Byte) /\ LineOf(f, c, l) \in Seq(Byte)
         /\ BufOf(f, b) \in Seq(Byte) /\ i[f] \in Seq(Byte)
<1>e. <<>> \in Seq(Byte)
  OBVIOUS
<1>1. BytesOf(rs[f]) \in Seq(Byte)
  <2>1. rs[f] \in Seq(Result)
    BY DEF LineTyped
  <2> QED BY <2>1, BytesTyped
<1>2. LineOf(f, c, l) \in Seq(Byte)
  <2>1. c \in [Threads -> Seq(Byte)] /\ 1 \in Threads /\ f \in Threads
    BY DEF LineTyped, Threads, Fds
  <2>2. c[1] \in Seq(Byte) /\ c[f] \in Seq(Byte)
    BY <2>1
  <2> QED BY <1>e, <2>2 DEF LineOf
<1>3. BufOf(f, b) \in Seq(Byte)
  <2>1. b \in [0 .. 4 -> Seq(Byte)] /\ 0 \in 0 .. 4 /\ f \in 0 .. 4 /\ 2 + f \in 0 .. 4
    BY DEF LineTyped, Fds
  <2>2. b[0] \in Seq(Byte) /\ b[f] \in Seq(Byte) /\ b[2 + f] \in Seq(Byte)
    BY <2>1
  <2> QED BY <1>e, <2>2 DEF BufOf
<1>4. i[f] \in Seq(Byte)
  BY DEF LineTyped
<1> QED BY <1>1, <1>2, <1>3, <1>4

LEMMA PieceNumbers ==
  ASSUME NEW k \in 0 .. 4, NEW f \in Fds, NEW t \in Threads
  PROVE  /\ f \in Numbers /\ 2 + t \in Numbers /\ 5 + k \in Numbers /\ 9 + f \in Numbers
         /\ 5 + k # 9 + f /\ 2 + t # 5 + k /\ 2 + t # 9 + f /\ f # 2 + t
<1>1. f \in {1, 2} /\ t \in {1, 2}
  BY DEF Fds, Threads
<1> QED BY <1>1 DEF Numbers

\* What is at each of the places g.
AtPlaces(g, c, b, i, rs) ==
  /\ \A f \in Fds : g[f] = BytesOf(rs[f])
  /\ \A t \in Threads : g[2 + t] = c[t]
  /\ \A k \in 0 .. 4 : g[5 + k] = b[k]
  /\ \A f \in Fds : g[9 + f] = i[f]

LEMMA PiecesAt ==
  ASSUME NEW c, NEW b, NEW i, NEW rs, NEW l, LineTyped(c, b, i, rs, l)
  PROVE  AtPlaces(BytePieces(c, b, i, rs), c, b, i, rs)
BY PiecesTyped DEF AtPlaces

\* read() moves bytes from a descriptor to the place where they are read ahead.
LEMMA FillMove ==
  ASSUME NEW t, Owner(t, lfd), ver.keep # "none", LineInv(cur, rbuf, inp, results, lfd),
         NEW p, NEW f, p = Place(t), f = lfd[t], rbuf[p] = <<>>,
         NEW x \in Seq(Byte), NEW y \in Seq(Byte), TwoParts(inp[f], x, y),
         NEW b \in [0 .. 4 -> Seq(Byte)], b[p] = x, SameElse(0 .. 4, b, rbuf, p),
         NEW i \in [Fds -> Seq(Byte)], i[f] = y, SameElse(Fds, i, inp, f)
  PROVE  LineInv(cur, b, i, results, lfd)
<1>1. LineTyped(cur, rbuf, inp, results, lfd)
  BY DEF LineInv
<1>2. p \in 0 .. 4 /\ f \in Fds
  BY OwnPlace DEF Owner
<1>3. /\ \A k \in 0 .. 4 : k # p => b[k] = rbuf[k]
      /\ \A g \in Fds : g # f => i[g] = inp[g]
  BY DEF SameElse
<1>4. LineTyped(cur, b, i, results, lfd)
  BY <1>1 DEF LineTyped
<1>5. inp[f] \in Seq(Byte)
  BY <1>1, <1>2 DEF LineTyped
<1>6. Complete(BytePieces(cur, b, i, results))
  <2>1. PICK u, v : u = 5 + p /\ v = 9 + f
    OBVIOUS
  <2>t. t \in Threads
    BY DEF Owner
  <2>2. 5 + p \in Numbers /\ 9 + f \in Numbers /\ 5 + p # 9 + f
    BY <1>2, <2>t, PieceNumbers
  <2>a. u \in Numbers /\ v \in Numbers /\ u # v
    BY <2>1, <2>2
  <2>c. /\ BytePieces(cur, rbuf, inp, results)[5 + p] = rbuf[p]
        /\ BytePieces(cur, rbuf, inp, results)[9 + f] = inp[f]
    <3>1. AtPlaces(BytePieces(cur, rbuf, inp, results), cur, rbuf, inp, results)
      BY <1>1, PiecesAt
    <3> QED BY <1>2, <3>1 DEF AtPlaces
  <2>d. /\ BytePieces(cur, b, i, results)[5 + p] = b[p]
        /\ BytePieces(cur, b, i, results)[9 + f] = i[f]
    <3>1. AtPlaces(BytePieces(cur, b, i, results), cur, b, i, results)
      BY <1>4, PiecesAt
    <3> QED BY <1>2, <3>1 DEF AtPlaces
  <2>3. /\ BytePieces(cur, rbuf, inp, results)[u] = rbuf[p]
        /\ BytePieces(cur, rbuf, inp, results)[v] = inp[f]
    BY <2>1, <2>c
  <2>4. BytePieces(cur, b, i, results)[u] = b[p] /\ BytePieces(cur, b, i, results)[v] = i[f]
    BY <2>1, <2>d
  <2>5. Trade(rbuf[p], inp[f], x, y)
    BY <1>5, TradeParts
  <2>6. Trade(rbuf[p], inp[f], b[p], i[f])
    BY <1>3, <2>5
  <2>b. (\A k \in 0 .. 4 : 5 + k # u => k # p) /\ (\A g \in Fds : 9 + g # v => g # f)
    BY <2>1
  <2>7. Unmoved(cur, rbuf, inp, results, cur, b, i, results, u, v)
    BY <1>3, <2>b DEF Unmoved
  <2>8. Complete(BytePieces(cur, rbuf, inp, results))
    BY DEF LineInv
  <2>9. Trade(BytePieces(cur, rbuf, inp, results)[u], BytePieces(cur, rbuf, inp, results)[v],
              BytePieces(cur, b, i, results)[u], BytePieces(cur, b, i, results)[v])
    BY <2>3, <2>4, <2>6
  <2> QED BY <1>1, <1>4, <2>a, <2>7, <2>8, <2>9, TradeComplete
<1>7. ASSUME Suits PROVE Chain(cur, b, i, results, lfd)
  <2>1. Chain(cur, rbuf, inp, results, lfd)
    BY <1>7 DEF LineInv
  <2>2. BufOf(f, b) = x /\ BufOf(f, rbuf) = <<>>
    BY <1>3, <1>7, OwnBuf
  <2>a. SameElse(0 .. 4, b, rbuf, Place(t))
    OBVIOUS
  <2>b. \A g \in Fds : g # lfd[t] => BufOf(g, b) = BufOf(g, rbuf)
    BY <1>7, <2>a, OtherBufs
  <2>3. \A g \in Fds : g # f => BufOf(g, b) = BufOf(g, rbuf)
    BY <2>b
  <2>4. Others(cur, rbuf, inp, results, lfd, cur, b, i, results, lfd, f)
    BY <1>3, <2>3 DEF Others
  <2>5. PICK a, q, r, s : /\ a = BytesOf(results[f]) /\ q = LineOf(f, cur, lfd)
                          /\ r = BufOf(f, rbuf) /\ s = inp[f]
    OBVIOUS
  <2>6. a \in Seq(Byte) /\ q \in Seq(Byte) /\ r \in Seq(Byte) /\ s \in Seq(Byte)
    BY <1>1, <1>2, <2>5, LinksTyped DEF Owner
  <2>7. InChain(f, a, q, r, s)
    BY <1>2, <2>1, <2>5 DEF Chain
  <2>8. Len(r) = 0
    BY <2>2, <2>5
  <2>9. InChain(f, a, q, x, y)
    BY <2>5, <2>6, <2>7, <2>8, ChainFill
  <2>10. InChain(f, BytesOf(results[f]), LineOf(f, cur, lfd), BufOf(f, b), i[f])
    BY <1>3, <2>2, <2>5, <2>9
  <2> QED BY <2>1, <2>4, <2>10, ChainMoves
<1> QED BY <1>4, <1>6, <1>7 DEF LineInv

\* my_read(): a byte that was read ahead is added to the line.
LEMMA StoreMove ==
  ASSUME NEW t, Owner(t, lfd), ver.keep # "none", LineInv(cur, rbuf, inp, results, lfd),
         NEW p, NEW f, p = Place(t), f = lfd[t], rbuf[p] # <<>>,
         NEW c \in [Threads -> Seq(Byte)], c[t] = Append(cur[t], Head(rbuf[p])),
         SameElse(Threads, c, cur, t),
         NEW b \in [0 .. 4 -> Seq(Byte)], b[p] = Tail(rbuf[p]), SameElse(0 .. 4, b, rbuf, p)
  PROVE  LineInv(c, b, inp, results, lfd)
<1>1. LineTyped(cur, rbuf, inp, results, lfd)
  BY DEF LineInv
<1>2. p \in 0 .. 4 /\ f \in Fds /\ t \in Threads
  BY OwnPlace DEF Owner
<1>3. /\ \A k \in 0 .. 4 : k # p => b[k] = rbuf[k]
      /\ \A w \in Threads : w # t => c[w] = cur[w]
  BY DEF SameElse
<1>4. LineTyped(c, b, inp, results, lfd)
  BY <1>1 DEF LineTyped
<1>5. cur[t] \in Seq(Byte) /\ rbuf[p] \in Seq(Byte)
  BY <1>1, <1>2 DEF LineTyped
<1>6. Complete(BytePieces(c, b, inp, results))
  <2>1. PICK u, v : u = 2 + t /\ v = 5 + p
    OBVIOUS
  <2>2. 2 + t \in Numbers /\ 5 + p \in Numbers /\ 2 + t # 5 + p
    BY <1>2, PieceNumbers
  <2>a. u \in Numbers /\ v \in Numbers /\ u # v
    BY <2>1, <2>2
  <2>c. /\ BytePieces(cur, rbuf, inp, results)[2 + t] = cur[t]
        /\ BytePieces(cur, rbuf, inp, results)[5 + p] = rbuf[p]
    <3>1. AtPlaces(BytePieces(cur, rbuf, inp, results), cur, rbuf, inp, results)
      BY <1>1, PiecesAt
    <3> QED BY <1>2, <3>1 DEF AtPlaces
  <2>d. BytePieces(c, b, inp, results)[2 + t] = c[t] /\ BytePieces(c, b, inp, results)[5 + p] = b[p]
    <3>1. AtPlaces(BytePieces(c, b, inp, results), c, b, inp, results)
      BY <1>4, PiecesAt
    <3> QED BY <1>2, <3>1 DEF AtPlaces
  <2>5. Trade(cur[t], rbuf[p], Append(cur[t], Head(rbuf[p])), Tail(rbuf[p]))
    BY <1>5, TradeHead
  <2>6. Trade(cur[t], rbuf[p], c[t], b[p])
    BY <2>5
  <2>b. (\A w \in Threads : 2 + w # u => w # t) /\ (\A k \in 0 .. 4 : 5 + k # v => k # p)
    BY <2>1
  <2>7. Unmoved(cur, rbuf, inp, results, c, b, inp, results, u, v)
    BY <1>3, <2>b DEF Unmoved
  <2>8. Complete(BytePieces(cur, rbuf, inp, results))
    BY DEF LineInv
  <2>9. Trade(BytePieces(cur, rbuf, inp, results)[u], BytePieces(cur, rbuf, inp, results)[v],
              BytePieces(c, b, inp, results)[u], BytePieces(c, b, inp, results)[v])
    BY <2>1, <2>c, <2>d, <2>6
  <2> QED BY <1>1, <1>4, <2>a, <2>7, <2>8, <2>9, TradeComplete
<1>7. ASSUME Suits PROVE Chain(c, b, inp, results, lfd)
  <2>1. Chain(cur, rbuf, inp, results, lfd)
    BY <1>7 DEF LineInv
  <2>2. BufOf(lfd[t], b) = b[Place(t)] /\ BufOf(lfd[t], rbuf) = rbuf[Place(t)]
    BY <1>7, OwnBuf
  <2>3. LineOf(lfd[t], c, lfd) = c[t] /\ LineOf(lfd[t], cur, lfd) = cur[t]
    BY OwnLine
  <2>a. SameElse(0 .. 4, b, rbuf, Place(t))
    OBVIOUS
  <2>b. \A g \in Fds : g # lfd[t] => BufOf(g, b) = BufOf(g, rbuf)
    BY <1>7, <2>a, OtherBufs
  <2>c. \A g \in Fds : g # lfd[t] => LineOf(g, c, lfd) = LineOf(g, cur, lfd)
    BY OtherLines
  <2>4. Others(cur, rbuf, inp, results, lfd, c, b, inp, results, lfd, f)
    BY <2>b, <2>c DEF Others
  <2>5. PICK a, q, r, s : /\ a = BytesOf(results[f]) /\ q = LineOf(f, cur, lfd)
                          /\ r = BufOf(f, rbuf) /\ s = inp[f]
    OBVIOUS
  <2>6. a \in Seq(Byte) /\ q \in Seq(Byte) /\ r \in Seq(Byte) /\ s \in Seq(Byte)
    BY <1>1, <1>2, <2>5, LinksTyped DEF Owner
  <2>7. InChain(f, a, q, r, s)
    BY <1>2, <2>1, <2>5 DEF Chain
  <2>8. q = cur[t] /\ r = rbuf[p]
    BY <2>2, <2>3, <2>5
  <2>9. InChain(f, a, Append(q, Head(r)), Tail(r), s)
    BY <2>6, <2>7, <2>8, ChainStore
  <2>10. LineOf(f, c, lfd) = Append(q, Head(r)) /\ BufOf(f, b) = Tail(r)
    BY <2>2, <2>3, <2>8
  <2>11. InChain(f, BytesOf(results[f]), LineOf(f, c, lfd), BufOf(f, b), inp[f])
    BY <2>5, <2>9, <2>10
  <2> QED BY <2>1, <2>4, <2>11, ChainMoves
<1> QED BY <1>4, <1>6, <1>7 DEF LineInv

\* Where nothing is kept, a byte that is read is added to the line.
LEMMA ByteMove ==
  ASSUME NEW t, Owner(t, lfd), ver.keep = "none", LineInv(cur, rbuf, inp, results, lfd),
         NEW f, f = lfd[t], inp[f] # <<>>,
         NEW c \in [Threads -> Seq(Byte)], c[t] = Append(cur[t], Head(inp[f])),
         SameElse(Threads, c, cur, t),
         NEW i \in [Fds -> Seq(Byte)], i[f] = Tail(inp[f]), SameElse(Fds, i, inp, f)
  PROVE  LineInv(c, rbuf, i, results, lfd)
<1>1. LineTyped(cur, rbuf, inp, results, lfd)
  BY DEF LineInv
<1>2. f \in Fds /\ t \in Threads
  BY DEF Owner
<1>3. /\ \A g \in Fds : g # f => i[g] = inp[g]
      /\ \A w \in Threads : w # t => c[w] = cur[w]
  BY DEF SameElse
<1>4. LineTyped(c, rbuf, i, results, lfd)
  BY <1>1 DEF LineTyped
<1>5. cur[t] \in Seq(Byte) /\ inp[f] \in Seq(Byte)
  BY <1>1, <1>2 DEF LineTyped
<1>z. 0 \in 0 .. 4
  OBVIOUS
<1>6. Complete(BytePieces(c, rbuf, i, results))
  <2>1. PICK u, v : u = 2 + t /\ v = 9 + f
    OBVIOUS
  <2>2. 2 + t \in Numbers /\ 9 + f \in Numbers /\ 2 + t # 9 + f
    BY <1>2, <1>z, PieceNumbers
  <2>a. u \in Numbers /\ v \in Numbers /\ u # v
    BY <2>1, <2>2
  <2>c. /\ BytePieces(cur, rbuf, inp, results)[2 + t] = cur[t]
        /\ BytePieces(cur, rbuf, inp, results)[9 + f] = inp[f]
    <3>1. AtPlaces(BytePieces(cur, rbuf, inp, results), cur, rbuf, inp, results)
      BY <1>1, PiecesAt
    <3> QED BY <1>2, <3>1 DEF AtPlaces
  <2>d. BytePieces(c, rbuf, i, results)[2 + t] = c[t] /\ BytePieces(c, rbuf, i, results)[9 + f] = i[f]
    <3>1. AtPlaces(BytePieces(c, rbuf, i, results), c, rbuf, i, results)
      BY <1>4, PiecesAt
    <3> QED BY <1>2, <3>1 DEF AtPlaces
  <2>5. Trade(cur[t], inp[f], Append(cur[t], Head(inp[f])), Tail(inp[f]))
    BY <1>5, TradeHead
  <2>6. Trade(cur[t], inp[f], c[t], i[f])
    BY <2>5
  <2>b. (\A w \in Threads : 2 + w # u => w # t) /\ (\A g \in Fds : 9 + g # v => g # f)
    BY <2>1
  <2>7. Unmoved(cur, rbuf, inp, results, c, rbuf, i, results, u, v)
    BY <1>3, <2>b DEF Unmoved
  <2>8. Complete(BytePieces(cur, rbuf, inp, results))
    BY DEF LineInv
  <2>9. Trade(BytePieces(cur, rbuf, inp, results)[u], BytePieces(cur, rbuf, inp, results)[v],
              BytePieces(c, rbuf, i, results)[u], BytePieces(c, rbuf, i, results)[v])
    BY <2>1, <2>c, <2>d, <2>6
  <2> QED BY <1>1, <1>4, <2>a, <2>7, <2>8, <2>9, TradeComplete
<1>7. ASSUME Suits PROVE Chain(c, rbuf, i, results, lfd)
  <2>1. Chain(cur, rbuf, inp, results, lfd)
    BY <1>7 DEF LineInv
  <2>2. \A g \in Fds : BufOf(g, rbuf) = <<>>
    BY DEF BufOf
  <2>3. LineOf(lfd[t], c, lfd) = c[t] /\ LineOf(lfd[t], cur, lfd) = cur[t]
    BY OwnLine
  <2>c. \A g \in Fds : g # lfd[t] => LineOf(g, c, lfd) = LineOf(g, cur, lfd)
    BY OtherLines
  <2>4. Others(cur, rbuf, inp, results, lfd, c, rbuf, i, results, lfd, f)
    BY <1>3, <2>c DEF Others
  <2>5. PICK a, q, r, s : /\ a = BytesOf(results[f]) /\ q = LineOf(f, cur, lfd)
                          /\ r = BufOf(f, rbuf) /\ s = inp[f]
    OBVIOUS
  <2>6. a \in Seq(Byte) /\ q \in Seq(Byte) /\ r \in Seq(Byte) /\ s \in Seq(Byte)
    BY <1>1, <1>2, <2>5, LinksTyped DEF Owner
  <2>7. InChain(f, a, q, r, s)
    BY <1>2, <2>1, <2>5 DEF Chain
  <2>8. q = cur[t] /\ Len(r) = 0
    BY <1>2, <2>2, <2>3, <2>5
  <2>9. InChain(f, a, Append(q, Head(s)), r, Tail(s))
    BY <2>5, <2>6, <2>7, <2>8, ChainByte
  <2>10. LineOf(f, c, lfd) = Append(q, Head(s)) /\ i[f] = Tail(s)
    BY <2>3, <2>5, <2>8
  <2>11. InChain(f, BytesOf(results[f]), LineOf(f, c, lfd), BufOf(f, rbuf), i[f])
    BY <2>5, <2>9, <2>10
  <2> QED BY <2>1, <2>4, <2>11, ChainMoves
<1> QED BY <1>4, <1>6, <1>7 DEF LineInv

\* A line is returned.
LEMMA ReturnMove ==
  ASSUME NEW t, NEW c, NEW b, NEW i, NEW rs, NEW l, Owner(t, l), LineInv(c, b, i, rs, l),
         NEW f, f = l[t], NEW r \in Result, r.bytes = c[t],
         NEW c2 \in [Threads -> Seq(Byte)], c2[t] = <<>>, SameElse(Threads, c2, c, t),
         NEW rs2 \in [Fds -> Seq(Result)], rs2[f] = Append(rs[f], r), SameElse(Fds, rs2, rs, f)
  PROVE  LineInv(c2, b, i, rs2, l)
<1>1. LineTyped(c, b, i, rs, l)
  BY DEF LineInv
<1>2. f \in Fds /\ t \in Threads
  BY DEF Owner
<1>3. /\ \A g \in Fds : g # f => rs2[g] = rs[g]
      /\ \A w \in Threads : w # t => c2[w] = c[w]
  BY DEF SameElse
<1>4. LineTyped(c2, b, i, rs2, l)
  BY <1>1 DEF LineTyped
<1>5. c[t] \in Seq(Byte) /\ rs[f] \in Seq(Result)
  BY <1>1, <1>2 DEF LineTyped
<1>8. BytesOf(rs[f]) \in Seq(Byte)
  BY <1>5, BytesTyped
<1>9. BytesOf(rs2[f]) = BytesOf(rs[f]) \o c[t]
  <2>1. BytesOf(Append(rs[f], r)) = BytesOf(rs[f]) \o r.bytes
    BY <1>5, BytesMore
  <2> QED BY <2>1
<1>6. Complete(BytePieces(c2, b, i, rs2))
  <2>1. PICK u, v : u = f /\ v = 2 + t
    OBVIOUS
  <2>z. 0 \in 0 .. 4
    OBVIOUS
  <2>2. f \in Numbers /\ 2 + t \in Numbers /\ f # 2 + t
    BY <1>2, <2>z, PieceNumbers
  <2>a. u \in Numbers /\ v \in Numbers /\ u # v
    BY <2>1, <2>2
  <2>c. BytePieces(c, b, i, rs)[f] = BytesOf(rs[f]) /\ BytePieces(c, b, i, rs)[2 + t] = c[t]
    <3>1. AtPlaces(BytePieces(c, b, i, rs), c, b, i, rs)
      BY <1>1, PiecesAt
    <3> QED BY <1>2, <3>1 DEF AtPlaces
  <2>d. BytePieces(c2, b, i, rs2)[f] = BytesOf(rs2[f]) /\ BytePieces(c2, b, i, rs2)[2 + t] = c2[t]
    <3>1. AtPlaces(BytePieces(c2, b, i, rs2), c2, b, i, rs2)
      BY <1>4, PiecesAt
    <3> QED BY <1>2, <3>1 DEF AtPlaces
  <2>5. PICK e : e = <<>>
    OBVIOUS
  <2>6. Trade(BytesOf(rs[f]), c[t], BytesOf(rs[f]) \o c[t], e)
    BY <1>5, <1>8, <2>5, TradeJoin
  <2>e. Trade(BytesOf(rs[f]), c[t], BytesOf(rs2[f]), c2[t])
    BY <1>9, <2>5, <2>6
  <2>b. (\A w \in Threads : 2 + w # v => w # t) /\ (\A g \in Fds : g # u => g # f)
    BY <2>1
  <2>7. Unmoved(c, b, i, rs, c2, b, i, rs2, u, v)
    BY <1>3, <2>b DEF Unmoved
  <2>8. Complete(BytePieces(c, b, i, rs))
    BY DEF LineInv
  <2>9. Trade(BytePieces(c, b, i, rs)[u], BytePieces(c, b, i, rs)[v],
              BytePieces(c2, b, i, rs2)[u], BytePieces(c2, b, i, rs2)[v])
    BY <2>1, <2>c, <2>d, <2>e
  <2> QED BY <1>1, <1>4, <2>a, <2>7, <2>8, <2>9, TradeComplete
<1>7. ASSUME Suits PROVE Chain(c2, b, i, rs2, l)
  <2>1. Chain(c, b, i, rs, l)
    BY <1>7 DEF LineInv
  <2>3. LineOf(l[t], c2, l) = c2[t] /\ LineOf(l[t], c, l) = c[t]
    BY OwnLine
  <2>c. \A g \in Fds : g # l[t] => LineOf(g, c2, l) = LineOf(g, c, l)
    BY OtherLines
  <2>4. Others(c, b, i, rs, l, c2, b, i, rs2, l, f)
    BY <1>3, <2>c DEF Others
  <2>5. PICK a, q, h, s, e : /\ a = BytesOf(rs[f]) /\ q = LineOf(f, c, l)
                             /\ h = BufOf(f, b) /\ s = i[f] /\ e = <<>>
    OBVIOUS
  <2>6. a \in Seq(Byte) /\ q \in Seq(Byte) /\ h \in Seq(Byte) /\ s \in Seq(Byte)
    BY <1>1, <1>2, <2>5, LinksTyped DEF Owner
  <2>7. InChain(f, a, q, h, s)
    BY <1>2, <2>1, <2>5 DEF Chain
  <2>9. InChain(f, a \o q, e, h, s)
    BY <2>5, <2>6, <2>7, ChainReturn
  <2>10. BytesOf(rs2[f]) = a \o q /\ LineOf(f, c2, l) = e
    BY <1>9, <2>3, <2>5
  <2>11. InChain(f, BytesOf(rs2[f]), LineOf(f, c2, l), BufOf(f, b), i[f])
    BY <2>5, <2>9, <2>10
  <2> QED BY <2>1, <2>4, <2>11, ChainMoves
<1> QED BY <1>4, <1>6, <1>7 DEF LineInv

\* A thread without a line goes on with another descriptor.
LEMMA TurnMove ==
  ASSUME NEW t, NEW c, NEW b, NEW i, NEW rs, NEW l, Owner(t, l), LineInv(c, b, i, rs, l),
         c[t] = <<>>, NEW l2 \in [Threads -> Fds], l2 = l \/ use = "two"
  PROVE  LineInv(c, b, i, rs, l2)
<1>1. CASE l2 = l
  BY <1>1
<1>2. CASE use = "two"
  <2>1. LineTyped(c, b, i, rs, l2)
    BY <1>2 DEF LineInv, LineTyped
  <2>2. t = 1
    BY <1>2 DEF Owner, Active
  <2>3. \A g : LineOf(g, c, l2) = <<>> /\ LineOf(g, c, l) = <<>>
    BY <1>2, <2>2 DEF LineOf
  <2>4. Chain(c, b, i, rs, l) => Chain(c, b, i, rs, l2)
    BY <2>3 DEF Chain
  <2> QED BY <2>1, <2>4 DEF LineInv
<1> QED BY <1>1, <1>2

\* What a call returns, the line it begins again, and the descriptor it goes on with.
Makes(t, line, n, r, c, rs, l) ==
  /\ r \in Result /\ r.bytes = line /\ r.n = n
  /\ c \in [Threads -> Seq(Byte)] /\ cur' = c /\ c[t] = <<>> /\ SameElse(Threads, c, cur, t)
  /\ rs \in [Fds -> Seq(Result)] /\ results' = rs
  /\ rs[lfd[t]] = Append(results[lfd[t]], r) /\ SameElse(Fds, rs, results, lfd[t])
  /\ l \in [Threads -> Fds] /\ lfd' = l /\ (l = lfd \/ use = "two")

LEMMA ReturnMakes ==
  ASSUME NEW t, Owner(t, lfd), cur \in [Threads -> Seq(Byte)], results \in [Fds -> Seq(Result)],
         NEW line \in Seq(Byte), NEW n \in Nat, Return(t, line, n)
  PROVE  \E r, c, rs, l : Makes(t, line, n, r, c, rs, l)
<1>1. PICK r, f : r = [bytes |-> line, n |-> n] /\ f = lfd[t]
  OBVIOUS
<1>2. r \in Result /\ r.bytes = line /\ r.n = n /\ f \in Fds /\ t \in Threads
  BY <1>1 DEF Result, Owner
<1>3. PICK q : q = Append(results[f], r) /\ q \in Seq(Result)
  <2>1. results[f] \in Seq(Result)
    BY <1>2
  <2>2. Append(results[f], r) \in Seq(Result)
    BY <1>2, <2>1
  <2> QED BY <2>2
<1>4. PICK rs : rs = [results EXCEPT ![f] = q]
  OBVIOUS
<1>5. results' = rs
  BY <1>1, <1>3, <1>4 DEF Return
<1>6. rs \in [Fds -> Seq(Result)] /\ rs[f] = q /\ SameElse(Fds, rs, results, f)
  BY <1>2, <1>3, <1>4 DEF SameElse
<1>7. PICK c : c = [cur EXCEPT ![t] = <<>>]
  OBVIOUS
<1>8. <<>> \in Seq(Byte)
  OBVIOUS
<1>9. c \in [Threads -> Seq(Byte)] /\ c[t] = <<>> /\ SameElse(Threads, c, cur, t)
  BY <1>2, <1>7, <1>8 DEF SameElse
<1>10. cur' = c
  BY <1>7 DEF Return
<1>11. PICK l : lfd' = l /\ l \in [Threads -> Fds] /\ (l = lfd \/ use = "two")
  <2>1. PICK g \in (IF use = "two" THEN Fds ELSE {t}) : lfd' = [lfd EXCEPT ![t] = g]
    BY DEF Return
  <2>2. CASE use = "two"
    <3>1. g \in Fds /\ lfd \in [Threads -> Fds]
      BY <2>1, <2>2 DEF Owner
    <3>2. [lfd EXCEPT ![t] = g] \in [Threads -> Fds]
      BY <3>1
    <3> QED BY <2>1, <2>2, <3>2
  <2>3. CASE use # "two"
    <3>1. g = lfd[t] /\ lfd \in [Threads -> Fds]
      BY <1>2, <2>1, <2>3 DEF Owner
    <3>2. lfd' = lfd
      BY <2>1, <3>1
    <3> QED BY <3>1, <3>2
  <2> QED BY <2>2, <2>3
<1> QED BY <1>1, <1>2, <1>3, <1>5, <1>6, <1>9, <1>10, <1>11 DEF Makes

LEMMA Returns ==
  ASSUME NEW t, NEW c, NEW b, NEW i, Owner(t, lfd), LineInv(c, b, i, results, lfd),
         cur \in [Threads -> Seq(Byte)], SameElse(Threads, c, cur, t),
         NEW n \in Nat, Return(t, c[t], n)
  PROVE  LineInv(cur', b, i, results', lfd')
<1>1. c[t] \in Seq(Byte) /\ results \in [Fds -> Seq(Result)]
  BY DEF LineInv, LineTyped, Owner
<1>2. PICK r, c2, rs, l : Makes(t, c[t], n, r, c2, rs, l)
  BY <1>1, ReturnMakes
<1>3. SameElse(Threads, c2, c, t)
  BY <1>2 DEF Makes, SameElse
<1>4. PICK f : f = lfd[t]
  OBVIOUS
<1>5. rs[f] = Append(results[f], r) /\ SameElse(Fds, rs, results, f) /\ r.bytes = c[t] /\ c2[t] = <<>>
  BY <1>2, <1>4 DEF Makes
<1>a. /\ r \in Result /\ c2 \in [Threads -> Seq(Byte)] /\ rs \in [Fds -> Seq(Result)]
      /\ l \in [Threads -> Fds] /\ (l = lfd \/ use = "two")
  BY <1>2 DEF Makes
<1>6. LineInv(c2, b, i, rs, lfd)
  BY <1>3, <1>4, <1>5, <1>a, ReturnMove
<1>7. LineInv(c2, b, i, rs, l)
  BY <1>5, <1>6, <1>a, TurnMove
<1> QED BY <1>2, <1>7 DEF Makes

\* Lines are cut after newlines.
LineGood(r) ==
  /\ r.bytes # <<>> /\ \A j \in 1 .. Len(r.bytes) - 1 : r.bytes[j].nl => ver.fixed
  /\ Last(r.bytes).nl => r.n = Len(r.bytes)
NoNewline(s) == \A j \in 1 .. Len(s) : s[j].nl => ver.fixed
Cut(c, rs) ==
  /\ \A t \in Threads : NoNewline(c[t])
  /\ \A f \in Fds : \A m \in 1 .. Len(rs[f]) : LineGood(rs[f][m])

LEMMA CutReturns ==
  ASSUME NEW t, Owner(t, lfd), cur \in [Threads -> Seq(Byte)], results \in [Fds -> Seq(Result)],
         Cut(cur, results), NEW line \in Seq(Byte), NEW n \in Nat, Return(t, line, n),
         \A r : r.bytes = line /\ r.n = n => LineGood(r)
  PROVE  Cut(cur', results')
<1>2. PICK r, c, rs, l : Makes(t, line, n, r, c, rs, l)
  BY ReturnMakes
<1>3. ASSUME NEW w \in Threads PROVE NoNewline(c[w])
  <2>1. CASE w = t
    <3>1. Len(c[w]) = 0
      BY <1>2, <2>1 DEF Makes
    <3> QED BY <3>1 DEF NoNewline
  <2>2. CASE w # t
    BY <1>2, <2>2 DEF Makes, SameElse, Cut
  <2> QED BY <2>1, <2>2
<1>4. ASSUME NEW f \in Fds, NEW m \in 1 .. Len(rs[f]) PROVE LineGood(rs[f][m])
  <2>1. CASE f # lfd[t]
    <3>1. rs[f] = results[f]
      BY <1>2, <2>1 DEF Makes, SameElse
    <3> QED BY <1>4, <3>1 DEF Cut
  <2>2. CASE f = lfd[t]
    <3>1. PICK a, q : a = results[f] /\ q = rs[f]
      OBVIOUS
    <3>2. a \in Seq(Result) /\ q = Append(a, r)
      BY <1>2, <2>2, <3>1 DEF Makes
    <3>3. /\ Len(a) \in Nat /\ Len(q) = Len(a) + 1 /\ q[Len(a) + 1] = r
          /\ \A k \in 1 .. Len(a) : q[k] = a[k]
      BY <3>2
    <3>4. m \in 1 .. Len(a) \/ m = Len(a) + 1
      BY <3>1, <3>3
    <3>5. CASE m \in 1 .. Len(a)
      BY <3>1, <3>3, <3>5 DEF Cut
    <3>6. CASE m = Len(a) + 1
      <4>1. rs[f][m] = r
        BY <3>1, <3>3, <3>6
      <4> QED BY <1>2, <4>1 DEF Makes
    <3> QED BY <3>4, <3>5, <3>6
  <2> QED BY <2>1, <2>2
<1>5. Cut(c, rs)
  BY <1>3, <1>4 DEF Cut
<1> QED BY <1>2, <1>5 DEF Makes

LEMMA LonglineTyped == MAXLINE \in Nat
BY LibraryAssumption

\* A byte is stored, and the line returned if it ends with it.
LEMMA StoreStep ==
  ASSUME NEW t, Owner(t, lfd), NEW x \in Byte, NEW b, NEW i,
         cur \in [Threads -> Seq(Byte)], Cut(cur, results),
         NEW c \in [Threads -> Seq(Byte)], c[t] = Append(cur[t], x), SameElse(Threads, c, cur, t),
         LineInv(c, b, i, results, lfd), Store(t, x)
  PROVE  LineInv(cur', b, i, results', lfd') /\ Cut(cur', results')
<1>1. PICK line, old : line = c[t] /\ old = cur[t]
  OBVIOUS
<1>2. t \in Threads /\ old \in Seq(Byte) /\ line \in Seq(Byte) /\ line = Append(old, x)
  BY <1>1 DEF Owner
<1>3. /\ Len(old) \in Nat /\ Len(line) \in Nat /\ Len(line) = Len(old) + 1 /\ line[Len(line)] = x
      /\ \A k \in 1 .. Len(old) : line[k] = old[k]
  BY <1>2
<1>4. \A k \in 1 .. Len(old) : old[k].nl => ver.fixed
  BY <1>1, <1>2 DEF Cut, NoNewline
<1>5. \A k \in 1 .. Len(line) - 1 : line[k].nl => ver.fixed
  BY <1>3, <1>4
<1>6. line # <<>> /\ Last(line) = x
  BY <1>3 DEF Last
<1>7. results \in [Fds -> Seq(Result)]
  BY DEF LineInv, LineTyped
<1>8. ASSUME NEW n \in Nat, Return(t, line, n), x.nl => n = Len(line)
      PROVE  LineInv(cur', b, i, results', lfd') /\ Cut(cur', results')
  <2>1. LineInv(cur', b, i, results', lfd')
    <3>1. Return(t, c[t], n)
      BY <1>1, <1>8
    <3> QED BY <1>8, <3>1, Returns
  <2>2. ASSUME NEW r, r.bytes = line, r.n = n PROVE LineGood(r)
    BY <1>5, <1>6, <1>8, <2>2 DEF LineGood
  <2>3. Cut(cur', results')
    BY <1>2, <1>7, <1>8, <2>2, CutReturns
  <2> QED BY <2>1, <2>3
<1>9. CASE x.nl /\ ~ver.fixed
  <2>1. Return(t, line, Len(line))
    BY <1>1, <1>2, <1>9 DEF Store
  <2> QED BY <1>3, <1>8, <2>1
<1>10. CASE ~(x.nl /\ ~ver.fixed) /\ Len(line) = MAXLINE - 1
  <2>1. PICK n : n = IF ver.fixed THEN Len(line) ELSE MAXLINE
    OBVIOUS
  <2>2. Return(t, line, n)
    BY <1>1, <1>2, <1>10, <2>1 DEF Store
  <2>3. n \in Nat /\ (x.nl => n = Len(line))
    BY <1>3, <1>10, <2>1, LonglineTyped
  <2> QED BY <1>8, <2>2, <2>3
<1>11. CASE ~(x.nl /\ ~ver.fixed) /\ Len(line) # MAXLINE - 1
  <2>1. cur' = [cur EXCEPT ![t] = line] /\ UNCHANGED <<lfd, results>>
    BY <1>1, <1>2, <1>11 DEF Store
  <2>2. cur' = c
    BY <1>1, <1>2, <2>1 DEF SameElse
  <2>3. LineInv(cur', b, i, results', lfd')
    BY <2>1, <2>2
  <2>4. NoNewline(line)
    <3>1. ASSUME NEW k \in 1 .. Len(line), line[k].nl PROVE ver.fixed
      <4>1. CASE k = Len(line)
        BY <1>3, <1>11, <3>1, <4>1
      <4>2. CASE k # Len(line)
        BY <1>3, <1>5, <3>1, <4>2
      <4> QED BY <4>1, <4>2
    <3> QED BY <3>1 DEF NoNewline
  <2>5. ASSUME NEW w \in Threads PROVE NoNewline(c[w])
    BY <1>1, <2>4 DEF SameElse, Cut
  <2>6. Cut(c, results)
    BY <2>5 DEF Cut
  <2> QED BY <2>1, <2>2, <2>3, <2>6
<1> QED BY <1>9, <1>10, <1>11

\* What holds of the lines in every state, and what a step makes of it.
LinesInv == VersTyped /\ LineInv(cur, rbuf, inp, results, lfd) /\ Cut(cur, results)
LinesStay == LineInv(cur', rbuf', inp', results', lfd') /\ Cut(cur', results')

LEMMA IsOwner ==
  ASSUME LinesInv, NEW t \in Threads, Active(t)
  PROVE  /\ Owner(t, lfd) /\ cur \in [Threads -> Seq(Byte)] /\ rbuf \in [0 .. 4 -> Seq(Byte)]
         /\ inp \in [Fds -> Seq(Byte)] /\ results \in [Fds -> Seq(Result)] /\ lfd[t] \in Fds
         /\ Place(t) \in 0 .. 4
<1>1. Owner(t, lfd) /\ lfd[t] \in Fds
  BY DEF LinesInv, LineInv, LineTyped, Owner
<1>2. Place(t) \in 0 .. 4
  BY <1>1, OwnPlace
<1> QED BY <1>1, <1>2 DEF LinesInv, LineInv, LineTyped

\* The first n of s, and the rest.
Parted(s, n, x, y) ==
  /\ x \in Seq(Byte) /\ y \in Seq(Byte) /\ TwoParts(s, x, y)
  /\ x = SubSeq(s, 1, n) /\ y = SubSeq(s, n + 1, Len(s))

LEMMA Parting ==
  ASSUME NEW s \in Seq(Byte), NEW n \in 0 .. Len(s)
  PROVE  \E x, y : Parted(s, n, x, y)
<1>0. Len(s) \in Nat /\ n \in Nat /\ n <= Len(s)
  OBVIOUS
<1>1. /\ SubSeq(s, 1, n) \in Seq(Byte) /\ Len(SubSeq(s, 1, n)) = n
      /\ \A k \in 1 .. n : SubSeq(s, 1, n)[k] = s[k]
  BY <1>0
<1>2. /\ SubSeq(s, n + 1, Len(s)) \in Seq(Byte) /\ Len(SubSeq(s, n + 1, Len(s))) = Len(s) - n
      /\ \A k \in 1 .. Len(s) - n : SubSeq(s, n + 1, Len(s))[k] = s[n + k]
  BY <1>0
<1>3. PICK x, y : x = SubSeq(s, 1, n) /\ y = SubSeq(s, n + 1, Len(s))
  OBVIOUS
<1>4. /\ x \in Seq(Byte) /\ y \in Seq(Byte) /\ Len(x) = n /\ Len(y) = Len(s) - n
      /\ \A k \in 1 .. n : x[k] = s[k]
      /\ \A k \in 1 .. Len(s) - n : y[k] = s[n + k]
  BY <1>1, <1>2, <1>3
<1>5. TwoParts(s, x, y)
  BY <1>0, <1>4 DEF TwoParts
<1> QED BY <1>3, <1>4, <1>5 DEF Parted

LEMMA FillStays == ASSUME LinesInv, NEW t \in Threads, Fill(t) PROVE LinesStay
<1>1. PICK p, f, s : p = Place(t) /\ f = lfd[t] /\ s = inp[lfd[t]]
  OBVIOUS
<1>2. /\ Owner(t, lfd) /\ s \in Seq(Byte) /\ p \in 0 .. 4 /\ f \in Fds /\ inp[f] = s
      /\ ver.keep # "none" /\ rbuf[p] = <<>> /\ s # <<>>
  BY <1>1, IsOwner DEF Fill
<1>3. PICK n \in 1 .. (IF Len(s) < MAXLINE THEN Len(s) ELSE MAXLINE) :
         /\ rbuf' = [rbuf EXCEPT ![p] = SubSeq(s, 1, n)]
         /\ inp' = [inp EXCEPT ![f] = SubSeq(s, n + 1, Len(s))]
  BY <1>1 DEF Fill
<1>4. n \in 0 .. Len(s)
  <2>1. Len(s) \in Nat
    BY <1>2
  <2> QED BY <2>1, LonglineTyped
<1>5. PICK x, y : Parted(s, n, x, y)
  BY <1>2, <1>4, Parting
<1>6. x \in Seq(Byte) /\ y \in Seq(Byte) /\ TwoParts(s, x, y)
  BY <1>5 DEF Parted
<1>7. PICK b, i : b = [rbuf EXCEPT ![p] = x] /\ i = [inp EXCEPT ![f] = y]
  OBVIOUS
<1>8. rbuf' = b /\ inp' = i
  BY <1>3, <1>5, <1>7 DEF Parted
<1>9. /\ b \in [0 .. 4 -> Seq(Byte)] /\ b[p] = x /\ SameElse(0 .. 4, b, rbuf, p)
      /\ i \in [Fds -> Seq(Byte)] /\ i[f] = y /\ SameElse(Fds, i, inp, f)
  <2>1. rbuf \in [0 .. 4 -> Seq(Byte)] /\ inp \in [Fds -> Seq(Byte)]
    BY IsOwner DEF Fill
  <2> QED BY <1>2, <1>6, <1>7, <2>1 DEF SameElse
<1>10. LineInv(cur, b, i, results, lfd)
  <2>1. LineInv(cur, rbuf, inp, results, lfd) /\ TwoParts(inp[f], x, y)
    BY <1>2, <1>6 DEF LinesInv
  <2> QED BY <1>1, <1>2, <1>6, <1>9, <2>1, FillMove
<1>11. UNCHANGED <<cur, results, lfd>>
  BY DEF Fill
<1> QED BY <1>8, <1>10, <1>11 DEF LinesStay, LinesInv

LEMMA MyReadStays == ASSUME LinesInv, NEW t \in Threads, MyRead(t) PROVE LinesStay
<1>1. PICK p, f, s, x, old : /\ p = Place(t) /\ f = lfd[t] /\ s = rbuf[p] /\ x = Head(s)
                             /\ old = cur[t]
  OBVIOUS
<1>2. /\ Owner(t, lfd) /\ p \in 0 .. 4 /\ f \in Fds /\ s # <<>>
      /\ cur \in [Threads -> Seq(Byte)] /\ rbuf \in [0 .. 4 -> Seq(Byte)]
  BY <1>1, IsOwner DEF MyRead
<1>3. s \in Seq(Byte) /\ old \in Seq(Byte)
  BY <1>1, <1>2
<1>4. x \in Byte /\ Tail(s) \in Seq(Byte) /\ Append(old, x) \in Seq(Byte)
  BY <1>1, <1>2, <1>3, FirstMember
<1>5. ver.keep # "none"
  <2>1. SUFFICES ASSUME ver.keep = "none" PROVE FALSE
    OBVIOUS
  <2>2. p = 0
    BY <1>1, <2>1 DEF Place
  <2>3. rbuf[0] = <<>>
    BY <2>1 DEF LinesInv, LineInv, LineTyped
  <2> QED BY <1>1, <1>2, <2>2, <2>3
<1>6. PICK c, b, y, z : /\ y = Append(old, x) /\ z = Tail(s)
                        /\ c = [cur EXCEPT ![t] = y] /\ b = [rbuf EXCEPT ![p] = z]
  OBVIOUS
<1>7. y \in Seq(Byte) /\ z \in Seq(Byte)
  BY <1>4, <1>6
<1>8. /\ c \in [Threads -> Seq(Byte)] /\ c[t] = y /\ SameElse(Threads, c, cur, t)
      /\ b \in [0 .. 4 -> Seq(Byte)] /\ b[p] = z /\ SameElse(0 .. 4, b, rbuf, p)
  BY <1>2, <1>6, <1>7 DEF SameElse
<1>9. /\ rbuf' = b /\ Store(t, x) /\ inp' = inp
  <2>1. rbuf' = [rbuf EXCEPT ![p] = Tail(@)] /\ Store(t, Head(rbuf[p])) /\ inp' = inp
    BY <1>1 DEF MyRead
  <2> QED BY <1>1, <1>2, <1>6, <2>1
<1>10. LineInv(c, b, inp, results, lfd)
  <2>1. c[t] = Append(cur[t], Head(rbuf[p])) /\ b[p] = Tail(rbuf[p]) /\ rbuf[p] # <<>>
    BY <1>1, <1>2, <1>6, <1>8
  <2>2. LineInv(cur, rbuf, inp, results, lfd)
    BY DEF LinesInv
  <2> QED BY <1>1, <1>2, <1>5, <1>8, <2>1, <2>2, StoreMove
<1>11. LineInv(cur', b, inp, results', lfd') /\ Cut(cur', results')
  <2>1. c[t] = Append(cur[t], x) /\ Cut(cur, results)
    BY <1>1, <1>6, <1>8 DEF LinesInv
  <2> QED BY <1>2, <1>4, <1>8, <1>9, <1>10, <2>1, StoreStep
<1> QED BY <1>9, <1>11 DEF LinesStay

LEMMA ReadByteStays == ASSUME LinesInv, NEW t \in Threads, ReadByte(t) PROVE LinesStay
<1>1. PICK f, s, x, old : f = lfd[t] /\ s = inp[f] /\ x = Head(s) /\ old = cur[t]
  OBVIOUS
<1>2. /\ Owner(t, lfd) /\ f \in Fds /\ s # <<>> /\ ver.keep = "none"
      /\ cur \in [Threads -> Seq(Byte)] /\ inp \in [Fds -> Seq(Byte)]
  BY <1>1, IsOwner DEF ReadByte
<1>3. s \in Seq(Byte) /\ old \in Seq(Byte)
  BY <1>1, <1>2
<1>4. x \in Byte /\ Tail(s) \in Seq(Byte) /\ Append(old, x) \in Seq(Byte)
  BY <1>1, <1>2, <1>3, FirstMember
<1>6. PICK c, i, y, z : /\ y = Append(old, x) /\ z = Tail(s)
                        /\ c = [cur EXCEPT ![t] = y] /\ i = [inp EXCEPT ![f] = z]
  OBVIOUS
<1>7. y \in Seq(Byte) /\ z \in Seq(Byte)
  BY <1>4, <1>6
<1>8. /\ c \in [Threads -> Seq(Byte)] /\ c[t] = y /\ SameElse(Threads, c, cur, t)
      /\ i \in [Fds -> Seq(Byte)] /\ i[f] = z /\ SameElse(Fds, i, inp, f)
  BY <1>2, <1>6, <1>7 DEF SameElse
<1>9. /\ inp' = i /\ Store(t, x) /\ rbuf' = rbuf
  <2>1. inp' = [inp EXCEPT ![f] = Tail(@)] /\ Store(t, Head(inp[f])) /\ rbuf' = rbuf
    BY <1>1 DEF ReadByte
  <2> QED BY <1>1, <1>2, <1>6, <2>1
<1>10. LineInv(c, rbuf, i, results, lfd)
  <2>1. c[t] = Append(cur[t], Head(inp[f])) /\ i[f] = Tail(inp[f]) /\ inp[f] # <<>>
    BY <1>1, <1>2, <1>6, <1>8
  <2>2. LineInv(cur, rbuf, inp, results, lfd)
    BY DEF LinesInv
  <2> QED BY <1>1, <1>2, <1>8, <2>1, <2>2, ByteMove
<1>11. LineInv(cur', rbuf, i, results', lfd') /\ Cut(cur', results')
  <2>1. c[t] = Append(cur[t], x) /\ Cut(cur, results)
    BY <1>1, <1>6, <1>8 DEF LinesInv
  <2> QED BY <1>2, <1>4, <1>8, <1>9, <1>10, <2>1, StoreStep
<1> QED BY <1>9, <1>11 DEF LinesStay

LEMMA AtEofStays == ASSUME LinesInv, NEW t \in Threads, AtEof(t) PROVE LinesStay
<1>1. PICK line, n : line = cur[t] /\ n = Len(line) + ver.eofcount
  OBVIOUS
<1>2. /\ Owner(t, lfd) /\ cur \in [Threads -> Seq(Byte)] /\ results \in [Fds -> Seq(Result)]
      /\ line # <<>> /\ Return(t, line, n) /\ UNCHANGED <<inp, rbuf>>
  BY <1>1, IsOwner DEF AtEof
<1>3. line \in Seq(Byte) /\ Len(line) \in Nat \ {0} /\ ver.eofcount \in Nat
  BY <1>1, <1>2 DEF LinesInv, VersTyped
<1>4. n \in Nat
  BY <1>1, <1>3
<1>5. LineInv(cur', rbuf, inp, results', lfd')
  <2>1. LineInv(cur, rbuf, inp, results, lfd) /\ SameElse(Threads, cur, cur, t) /\ Return(t, cur[t], n)
    BY <1>1, <1>2 DEF LinesInv, SameElse
  <2> QED BY <1>2, <1>4, <2>1, Returns
<1>6. \A k \in 1 .. Len(line) : line[k].nl => ver.fixed
  BY <1>1 DEF LinesInv, Cut, NoNewline
<1>7. ver.fixed => n = Len(line)
  BY <1>1, <1>3 DEF LinesInv, VersTyped
<1>8. ASSUME NEW r, r.bytes = line, r.n = n PROVE LineGood(r)
  <2>1. \A k \in 1 .. Len(line) - 1 : line[k].nl => ver.fixed
    BY <1>3, <1>6
  <2>2. Last(line).nl => n = Len(line)
    BY <1>3, <1>6, <1>7 DEF Last
  <2> QED BY <1>2, <1>8, <2>1, <2>2 DEF LineGood
<1>9. Cut(cur', results')
  <2>1. Cut(cur, results)
    BY DEF LinesInv
  <2> QED BY <1>2, <1>3, <1>4, <1>8, <2>1, CutReturns
<1> QED BY <1>2, <1>5, <1>9 DEF LinesStay

LEMMA TurnStays == ASSUME LinesInv, NEW t \in Threads, Turn(t) PROVE LinesStay
<1>1. /\ Owner(t, lfd) /\ cur[t] = <<>> /\ use = "two" /\ lfd[t] \in Fds /\ lfd \in [Threads -> Fds]
      /\ lfd' = [lfd EXCEPT ![t] = 3 - lfd[t]] /\ UNCHANGED <<inp, rbuf, cur, results>>
  BY IsOwner DEF Turn, Owner
<1>2. PICK l, g : g = 3 - lfd[t] /\ l = [lfd EXCEPT ![t] = g]
  OBVIOUS
<1>3. g \in Fds
  BY <1>1, <1>2 DEF Fds
<1>4. l \in [Threads -> Fds] /\ lfd' = l
  BY <1>1, <1>2, <1>3
<1>5. LineInv(cur, rbuf, inp, results, l)
  <2>1. LineInv(cur, rbuf, inp, results, lfd)
    BY DEF LinesInv
  <2> QED BY <1>1, <1>4, <2>1, TurnMove
<1> QED BY <1>1, <1>4, <1>5 DEF LinesStay, LinesInv

LEMMA LinesStep == LinesInv /\ (Next \/ UNCHANGED lvars) => LinesInv'
<1>1. SUFFICES ASSUME LinesInv, Next \/ UNCHANGED lvars PROVE LinesInv'
  OBVIOUS
<1>2. LinesStay
  <2>1. CASE Next
    BY <1>1, <2>1, FillStays, MyReadStays, ReadByteStays, AtEofStays, TurnStays DEF Next
  <2>2. CASE UNCHANGED lvars
    BY <1>1, <2>2 DEF LinesStay, LinesInv, lvars
  <2> QED BY <1>1, <2>1, <2>2
<1>3. UNCHANGED <<ver, use, total>>
  BY <1>1 DEF Next, Fill, MyRead, ReadByte, AtEof, Turn, lvars
<1>4. VersTyped'
  BY <1>1, <1>3 DEF LinesInv, VersTyped
<1>5. PICK c, b, i, rs, l : c = cur' /\ b = rbuf' /\ i = inp' /\ rs = results' /\ l = lfd'
  OBVIOUS
<1>6. LineInv(c, b, i, rs, l) /\ Cut(c, rs)
  BY <1>2, <1>5 DEF LinesStay
<1>7. LineTyped(c, b, i, rs, l)'
  BY <1>3, <1>6 DEF LineInv, LineTyped
<1>8. Complete(BytePieces(c, b, i, rs))'
  BY <1>3, <1>6 DEF LineInv, Complete
<1>9. (Suits => Chain(c, b, i, rs, l))'
  BY <1>3, <1>6 DEF LineInv, Suits, Chain, LineOf, BufOf
<1>10. Cut(c, rs)'
  BY <1>3, <1>6 DEF Cut, NoNewline, LineGood
<1>11. LineInv(cur, rbuf, inp, results, lfd)' /\ Cut(cur, results)'
  BY <1>5, <1>7, <1>8, <1>9, <1>10 DEF LineInv
<1> QED BY <1>4, <1>11 DEF LinesInv

LEMMA SequenceOf ==
  ASSUME NEW Q, NEW n \in Nat, NEW g \in [1 .. n -> Q]
  PROVE  g \in Seq(Q) /\ Len(g) = n
<1>1. g = [k \in 1 .. n |-> g[k]] /\ \A k \in 1 .. n : g[k] \in Q
  OBVIOUS
<1> QED BY <1>1

\* What is gathered from all places.
LEMMA TwoJoined ==
  ASSUME NEW g \in [Fds -> Seq(Byte)]
  PROVE  FlattenSeq(g) = g[1] \o g[2]
<1>1. Fds = 1 .. 2
  BY DEF Fds
<1> DEFINE Q == Seq(Byte)
<1>2. g \in [1 .. 2 -> Q]
  BY <1>1
<1> HIDE DEF Q
<1>3. g \in Seq(Q) /\ Len(g) = 2
  BY <1>2, SequenceOf
<1>4. g \in Seq(Seq(Byte)) /\ Len(g) = 2
  BY <1>3 DEF Q
<1> QED BY <1>4, FlattenFew

LEMMA FiveJoined ==
  ASSUME NEW g \in [1 .. 5 -> Seq(Byte)]
  PROVE  FlattenSeq(g) = (((g[1] \o g[2]) \o g[3]) \o g[4]) \o g[5]
<1> DEFINE Q == Seq(Byte)
<1>2. g \in [1 .. 5 -> Q]
  OBVIOUS
<1> HIDE DEF Q
<1>3. g \in Seq(Q) /\ Len(g) = 5
  BY <1>2, SequenceOf
<1>4. g \in Seq(Seq(Byte)) /\ Len(g) = 5
  BY <1>3 DEF Q
<1> QED BY <1>4, FlattenFew

\* A sequence's length, and what is in it.
Holding(s, n, S) == s \in Seq(Byte) /\ Len(s) = n /\ n \in Nat /\ ToSet(s) = S

LEMMA Together ==
  ASSUME NEW s, NEW n, NEW S, NEW t, NEW m, NEW T, Holding(s, n, S), Holding(t, m, T)
  PROVE  Holding(s \o t, n + m, S \cup T)
<1>1. s \in Seq(Byte) /\ t \in Seq(Byte) /\ ToSet(s) = S /\ ToSet(t) = T
  BY DEF Holding
<1>2. Len(s) = n /\ Len(t) = m /\ n \in Nat /\ m \in Nat
  BY DEF Holding
<1>3. ToSet(s \o t) = S \cup T
  BY <1>1, Members
<1>4. s \o t \in Seq(Byte) /\ Len(s \o t) = n + m /\ n + m \in Nat
  BY <1>1, <1>2
<1> QED BY <1>3, <1>4 DEF Holding

LEMMA Gathered ==
  ASSUME NEW g \in [Numbers -> Seq(Byte)]
  PROVE  LET w == (((g[1] \o g[2]) \o (g[3] \o g[4]))
                   \o ((((g[5] \o g[6]) \o g[7]) \o g[8]) \o g[9])) \o (g[10] \o g[11])
         IN  Len(w) = AddedUp([k \in Numbers |-> Len(g[k])]) /\ ToSet(w) = InAll(g)
<1>1. PICK l, S : l = [k \in Numbers |-> Len(g[k])] /\ S = [k \in Numbers |-> ToSet(g[k])]
  OBVIOUS
<1>2. ASSUME NEW k \in Numbers PROVE Holding(g[k], l[k], S[k])
  <2>1. g[k] \in Seq(Byte)
    OBVIOUS
  <2>2. Len(g[k]) \in Nat
    BY <2>1
  <2> QED BY <1>1, <2>1, <2>2 DEF Holding
<1>3. /\ Holding(g[1], l[1], S[1]) /\ Holding(g[2], l[2], S[2]) /\ Holding(g[3], l[3], S[3])
      /\ Holding(g[4], l[4], S[4]) /\ Holding(g[5], l[5], S[5]) /\ Holding(g[6], l[6], S[6])
      /\ Holding(g[7], l[7], S[7]) /\ Holding(g[8], l[8], S[8]) /\ Holding(g[9], l[9], S[9])
      /\ Holding(g[10], l[10], S[10]) /\ Holding(g[11], l[11], S[11])
  BY <1>2 DEF Numbers
<1>4. PICK a, an, aS : a = g[1] \o g[2] /\ an = l[1] + l[2] /\ aS = S[1] \cup S[2]
  OBVIOUS
<1>5. PICK b, bn, bS : b = g[3] \o g[4] /\ bn = l[3] + l[4] /\ bS = S[3] \cup S[4]
  OBVIOUS
<1>6. PICK c, cn, cS : c = g[10] \o g[11] /\ cn = l[10] + l[11] /\ cS = S[10] \cup S[11]
  OBVIOUS
<1>7. PICK d, dn, dS : d = g[5] \o g[6] /\ dn = l[5] + l[6] /\ dS = S[5] \cup S[6]
  OBVIOUS
<1>8. PICK e, en, eS : e = d \o g[7] /\ en = dn + l[7] /\ eS = dS \cup S[7]
  OBVIOUS
<1>9. PICK f, fn, fS : f = e \o g[8] /\ fn = en + l[8] /\ fS = eS \cup S[8]
  OBVIOUS
<1>10. PICK h, hn, hS : h = f \o g[9] /\ hn = fn + l[9] /\ hS = fS \cup S[9]
  OBVIOUS
<1>11. PICK p, pn, pS : p = a \o b /\ pn = an + bn /\ pS = aS \cup bS
  OBVIOUS
<1>12. PICK q, qn, qS : q = p \o h /\ qn = pn + hn /\ qS = pS \cup hS
  OBVIOUS
<1>13. Holding(a, an, aS) /\ Holding(b, bn, bS) /\ Holding(c, cn, cS) /\ Holding(d, dn, dS)
  BY <1>3, <1>4, <1>5, <1>6, <1>7, Together, Zenon
<1>14. Holding(e, en, eS)
  BY <1>3, <1>8, <1>13, Together, Zenon
<1>15. Holding(f, fn, fS)
  BY <1>3, <1>9, <1>14, Together, Zenon
<1>16. Holding(h, hn, hS)
  BY <1>3, <1>10, <1>15, Together, Zenon
<1>17. Holding(p, pn, pS)
  BY <1>11, <1>13, Together, Zenon
<1>18. Holding(q, qn, qS)
  BY <1>12, <1>16, <1>17, Together, Zenon
<1>19. Holding(q \o c, qn + cn, qS \cup cS)
  BY <1>13, <1>18, Together, Zenon
<1>20. qn + cn = AddedUp(l)
  <2>1. \A k \in Numbers : l[k] \in Nat
    BY <1>2 DEF Holding
  <2>2. PICK n1, n2, n3, n4, n5, n6, n7, n8, n9, n10, n11 :
           /\ n1 = l[1] /\ n2 = l[2] /\ n3 = l[3] /\ n4 = l[4] /\ n5 = l[5] /\ n6 = l[6]
           /\ n7 = l[7] /\ n8 = l[8] /\ n9 = l[9] /\ n10 = l[10] /\ n11 = l[11]
    OBVIOUS
  <2>a. /\ n1 \in Nat /\ n2 \in Nat /\ n3 \in Nat /\ n4 \in Nat /\ n5 \in Nat /\ n6 \in Nat
        /\ n7 \in Nat /\ n8 \in Nat /\ n9 \in Nat /\ n10 \in Nat /\ n11 \in Nat
    BY <2>1, <2>2 DEF Numbers
  <2>3. AddedUp(l) = n1 + n2 + n3 + n4 + n5 + n6 + n7 + n8 + n9 + n10 + n11
    BY <2>2 DEF AddedUp
  <2>4. an = n1 + n2 /\ bn = n3 + n4 /\ cn = n10 + n11 /\ dn = n5 + n6 /\ en = dn + n7
        /\ fn = en + n8 /\ hn = fn + n9
    BY <1>4, <1>5, <1>6, <1>7, <1>8, <1>9, <1>10, <2>2
  <2> QED BY <1>11, <1>12, <2>a, <2>3, <2>4
<1>21. qS \cup cS = InAll(g)
  <2>1. ASSUME NEW x PROVE x \in qS \cup cS <=> \E k \in Numbers : x \in S[k]
    <3>1. x \in qS \cup cS <=> \/ x \in S[1] \/ x \in S[2] \/ x \in S[3] \/ x \in S[4] \/ x \in S[5]
                               \/ x \in S[6] \/ x \in S[7] \/ x \in S[8] \/ x \in S[9]
                               \/ x \in S[10] \/ x \in S[11]
      BY <1>4, <1>5, <1>6, <1>7, <1>8, <1>9, <1>10, <1>11, <1>12, Zenon
    <3>2. \A k : k \in Numbers <=> \/ k = 1 \/ k = 2 \/ k = 3 \/ k = 4 \/ k = 5 \/ k = 6 \/ k = 7
                                   \/ k = 8 \/ k = 9 \/ k = 10 \/ k = 11
      BY DEF Numbers
    <3> QED BY <3>1, <3>2, Zenon
  <2>2. ASSUME NEW x PROVE x \in InAll(g) <=> \E k \in Numbers : x \in S[k]
    BY <1>1 DEF InAll
  <2> QED BY <2>1, <2>2
<1>22. q \o c = (((g[1] \o g[2]) \o (g[3] \o g[4]))
                 \o ((((g[5] \o g[6]) \o g[7]) \o g[8]) \o g[9])) \o (g[10] \o g[11])
  BY <1>4, <1>5, <1>6, <1>7, <1>8, <1>9, <1>10, <1>11, <1>12, Zenon
<1>23. Len(q \o c) = AddedUp(l) /\ ToSet(q \o c) = InAll(g)
  BY <1>19, <1>20, <1>21 DEF Holding
<1> QED BY <1>1, <1>22, <1>23, Zenon

LEMMA EverywhereIs ==
  ASSUME LineTyped(cur, rbuf, inp, results, lfd), NEW g, g = BytePieces(cur, rbuf, inp, results)
  PROVE  /\ Len(Everywhere) = AddedUp([k \in Numbers |-> Len(g[k])])
         /\ ToSet(Everywhere) = InAll(g)
<1>1. PICK R, C, B, I : /\ R = [f \in Fds |-> Returned(f)] /\ C = [t \in Threads |-> cur[t]]
                        /\ B = [k \in 1 .. 5 |-> rbuf[k - 1]] /\ I = [f \in Fds |-> inp[f]]
  OBVIOUS
<1>2. g \in [Numbers -> Seq(Byte)]
  BY PiecesTyped
<1>3. /\ cur \in [Threads -> Seq(Byte)] /\ rbuf \in [0 .. 4 -> Seq(Byte)] /\ inp \in [Fds -> Seq(Byte)]
      /\ results \in [Fds -> Seq(Result)]
  BY DEF LineTyped
<1>4. R \in [Fds -> Seq(Byte)] /\ \A f \in Fds : R[f] = BytesOf(results[f])
  <2>1. \A f \in Fds : Returned(f) = BytesOf(results[f])
    BY DEF Returned, BytesOf
  <2>2. \A f \in Fds : BytesOf(results[f]) \in Seq(Byte)
    BY <1>3, BytesTyped
  <2>3. \A f \in Fds : Returned(f) \in Seq(Byte)
    BY <2>1, <2>2
  <2> QED BY <1>1, <2>1, <2>3
<1>5. C \in [Fds -> Seq(Byte)] /\ C[1] = cur[1] /\ C[2] = cur[2]
  BY <1>1, <1>3 DEF Fds, Threads
<1>6. I \in [Fds -> Seq(Byte)] /\ I[1] = inp[1] /\ I[2] = inp[2]
  BY <1>1, <1>3 DEF Fds
<1>7. /\ B \in [1 .. 5 -> Seq(Byte)] /\ B[1] = rbuf[0] /\ B[2] = rbuf[1] /\ B[3] = rbuf[2]
      /\ B[4] = rbuf[3] /\ B[5] = rbuf[4]
  <2>1. \A k \in 1 .. 5 : rbuf[k - 1] \in Seq(Byte)
    BY <1>3
  <2> QED BY <1>1, <2>1
<1>8. /\ FlattenSeq(R) = R[1] \o R[2] /\ FlattenSeq(C) = C[1] \o C[2] /\ FlattenSeq(I) = I[1] \o I[2]
      /\ FlattenSeq(B) = (((B[1] \o B[2]) \o B[3]) \o B[4]) \o B[5]
  BY <1>4, <1>5, <1>6, <1>7, TwoJoined, FiveJoined
<1>9. Everywhere = ((FlattenSeq(R) \o FlattenSeq(C)) \o FlattenSeq(B)) \o FlattenSeq(I)
  BY <1>1, Zenon DEF Everywhere
<1>10. /\ g[1] = R[1] /\ g[2] = R[2] /\ g[3] = C[1] /\ g[4] = C[2] /\ g[5] = B[1] /\ g[6] = B[2]
       /\ g[7] = B[3] /\ g[8] = B[4] /\ g[9] = B[5] /\ g[10] = I[1] /\ g[11] = I[2]
  <2>1. /\ g[1] = BytesOf(results[1]) /\ g[2] = BytesOf(results[2])
        /\ g[3] = cur[1] /\ g[4] = cur[2]
        /\ g[5] = rbuf[0] /\ g[6] = rbuf[1] /\ g[7] = rbuf[2] /\ g[8] = rbuf[3] /\ g[9] = rbuf[4]
        /\ g[10] = inp[1] /\ g[11] = inp[2]
    BY DEF BytePieces, Numbers
  <2>2. 1 \in Fds /\ 2 \in Fds
    BY DEF Fds
  <2> QED BY <1>4, <1>5, <1>6, <1>7, <2>1, <2>2
<1>11. Everywhere = (((g[1] \o g[2]) \o (g[3] \o g[4]))
                     \o ((((g[5] \o g[6]) \o g[7]) \o g[8]) \o g[9])) \o (g[10] \o g[11])
  BY <1>8, <1>9, <1>10, Zenon
<1>12. PICK w : w = (((g[1] \o g[2]) \o (g[3] \o g[4]))
                     \o ((((g[5] \o g[6]) \o g[7]) \o g[8]) \o g[9])) \o (g[10] \o g[11])
  OBVIOUS
<1>13. Len(w) = AddedUp([k \in Numbers |-> Len(g[k])]) /\ ToSet(w) = InAll(g)
  BY <1>2, <1>12, Gathered, Zenon
<1> QED BY <1>11, <1>12, <1>13, Zenon

LEMMA LinesHold == LinesInv => LinesRight
<1> SUFFICES ASSUME LinesInv PROVE LinesRight
  OBVIOUS
<1>1. LineTyped(cur, rbuf, inp, results, lfd)
  BY DEF LinesInv, LineInv
<1>2. PICK g : g = BytePieces(cur, rbuf, inp, results)
  OBVIOUS
<1>3. Complete(g)
  BY <1>2 DEF LinesInv, LineInv
<1>4. Len(Everywhere) = AddedUp([k \in Numbers |-> Len(g[k])]) /\ ToSet(Everywhere) = InAll(g)
  BY <1>1, <1>2, EverywhereIs
<1>5. PICK all : all = Everywhere
  OBVIOUS
<1>6. /\ Len(all) = total[1] + total[2]
      /\ \A f \in Fds : {b.at : b \in {x \in ToSet(all) : x.from = f}} = 1 .. total[f]
  BY <1>3, <1>4, <1>5 DEF Complete
<1>7. ASSUME Suits, NEW f \in Fds
      PROVE  \A i \in DOMAIN Returned(f) : Returned(f)[i].from = f /\ Returned(f)[i].at = i
  <2>1. PICK q : q = BytesOf(results[f])
    OBVIOUS
  <2>2. Returned(f) = q
    BY <2>1 DEF Returned, BytesOf
  <2>3. q \in Seq(Byte)
    BY <1>1, <2>1, BytesTyped DEF LineTyped
  <2>4. InPlace(q, f, 0)
    BY <1>7, <2>1 DEF LinesInv, LineInv, Chain, InChain
  <2>5. \A i \in 1 .. Len(q) : q[i].from = f /\ q[i].at = i
    BY <2>4 DEF InPlace
  <2> QED BY <2>2, <2>3, <2>5
<1>8. ASSUME NEW f \in Fds, NEW i \in DOMAIN results[f]
      PROVE  LET r == results[f][i] IN
               /\ \A j \in 1 .. Len(r.bytes) - 1 : r.bytes[j].nl => ver.fixed
               /\ Last(r.bytes).nl => r.n = Len(r.bytes)
  <2>1. i \in 1 .. Len(results[f])
    BY <1>1 DEF LineTyped
  <2>2. LineGood(results[f][i])
    BY <2>1 DEF LinesInv, Cut
  <2> QED BY <2>2 DEF LineGood
<1> QED BY <1>5, <1>6, <1>7, <1>8, Zenon DEF LinesRight

LEMMA BytesPlaced ==
  ASSUME NEW f \in Fds, NEW s \in Inputs
  PROVE  Bytes(f, s) \in Seq(Byte) /\ InPlace(Bytes(f, s), f, 0)
<1>1. PICK n \in 0 .. NBYTE : s \in [1 .. n -> BOOLEAN]
  BY DEF Inputs
<1>2. n \in Nat /\ DOMAIN s = 1 .. n
  BY <1>1
<1>3. PICK q : q = Bytes(f, s)
  OBVIOUS
<1>4. q = [k \in 1 .. n |-> [from |-> f, at |-> k, nl |-> s[k]]]
  BY <1>2, <1>3 DEF Bytes
<1>5. \A k \in 1 .. n : q[k].from = f /\ q[k].at = k
  BY <1>4
<1>6. \A k \in 1 .. n : [from |-> f, at |-> k, nl |-> s[k]] \in Byte
  BY <1>1, <1>2 DEF Byte
<1>7. q \in [1 .. n -> Byte]
  BY <1>4, <1>6
<1>8. q \in Seq(Byte) /\ Len(q) = n
  BY <1>2, <1>7, SequenceOf
<1>9. \A k \in 1 .. n : q[k].at = 0 + k
  BY <1>2, <1>5
<1> QED BY <1>3, <1>5, <1>8, <1>9 DEF InPlace

\* At the start all bytes are still to be read.
LEMMA StartComplete ==
  ASSUME NEW c, NEW b, NEW i, NEW rs, NEW l, LineTyped(c, b, i, rs, l),
         \A t \in Threads : c[t] = <<>>, \A k \in 0 .. 4 : b[k] = <<>>, \A f \in Fds : rs[f] = <<>>,
         \A f \in Fds : InPlace(i[f], f, 0) /\ total[f] = Len(i[f])
  PROVE  Complete(BytePieces(c, b, i, rs))
<1>1. PICK g : g = BytePieces(c, b, i, rs)
  OBVIOUS
<1>2. /\ g \in [Numbers -> Seq(Byte)] /\ g[10] = i[1] /\ g[11] = i[2]
      /\ \A k \in 1 .. 9 : k \in Numbers /\ g[k] = <<>>
  <2>1. g \in [Numbers -> Seq(Byte)]
    BY <1>1, PiecesTyped
  <2>2. g[10] = i[1] /\ g[11] = i[2]
    BY <1>1 DEF BytePieces, Numbers
  <2>3. \A f \in Fds : BytesOf(rs[f]) = <<>>
    BY BytesTyped DEF LineTyped
  <2>4. ASSUME NEW k \in 1 .. 9 PROVE k \in Numbers /\ g[k] = <<>>
    <3>1. k \in Numbers
      BY DEF Numbers
    <3>2. CASE k <= 2
      <4>1. k \in Fds /\ g[k] = BytesOf(rs[k])
        BY <1>1, <3>1, <3>2 DEF BytePieces, Fds
      <4> QED BY <2>3, <3>1, <4>1
    <3>3. CASE k > 2 /\ k <= 4
      <4>1. PICK j : j = k - 2 /\ j \in Threads /\ g[k] = c[j]
        BY <1>1, <3>1, <3>3 DEF BytePieces, Threads
      <4> QED BY <3>1, <4>1
    <3>4. CASE k > 4
      <4>1. PICK j : j = k - 5 /\ j \in 0 .. 4 /\ g[k] = b[j]
        BY <1>1, <3>1, <3>4 DEF BytePieces
      <4> QED BY <3>1, <4>1
    <3> QED BY <3>2, <3>3, <3>4
  <2> QED BY <2>1, <2>2, <2>4
<1>3. PICK l2, a, d : /\ l2 = [k \in Numbers |-> Len(g[k])] /\ a = Len(i[1]) /\ d = Len(i[2])
  OBVIOUS
<1>4. a \in Nat /\ d \in Nat /\ total[1] = a /\ total[2] = d
  BY <1>3 DEF LineTyped, Fds
<1>5. \A k \in 1 .. 9 : l2[k] = 0
  <2>1. \A k \in 1 .. 9 : l2[k] = Len(g[k])
    BY <1>2, <1>3
  <2>2. Len(<<>>) = 0
    OBVIOUS
  <2> QED BY <1>2, <2>1, <2>2
<1>6. l2[10] = a /\ l2[11] = d
  <2>1. 10 \in Numbers /\ 11 \in Numbers
    BY DEF Numbers
  <2>2. l2[10] = Len(g[10]) /\ l2[11] = Len(g[11])
    BY <1>3, <2>1, Zenon
  <2> QED BY <1>2, <1>3, <2>2, Zenon
<1>7. AddedUp(l2) = total[1] + total[2]
  <2>1. /\ l2[1] = 0 /\ l2[2] = 0 /\ l2[3] = 0 /\ l2[4] = 0 /\ l2[5] = 0 /\ l2[6] = 0 /\ l2[7] = 0
        /\ l2[8] = 0 /\ l2[9] = 0
    BY <1>5
  <2>2. AddedUp(l2) = 0 + 0 + 0 + 0 + 0 + 0 + 0 + 0 + 0 + a + d
    BY <1>6, <2>1, Zenon DEF AddedUp
  <2> QED BY <1>4, <2>2
<1>8. \A x : x \in InAll(g) <=> x \in ToSet(i[1]) \/ x \in ToSet(i[2])
  <2>1. \A k \in Numbers : k \in 1 .. 9 \/ k = 10 \/ k = 11
    BY DEF Numbers
  <2>2. 10 \in Numbers /\ 11 \in Numbers
    BY DEF Numbers
  <2>3. \A k \in 1 .. 9 : ToSet(g[k]) = {}
    <3>1. ToSet(<<>>) = {}
      BY DEF ToSet
    <3> QED BY <1>2, <3>1, Zenon
  <2>4. \A x : x \in InAll(g) <=> \E k \in Numbers : x \in ToSet(g[k])
    BY DEF InAll
  <2>5. ToSet(g[10]) = ToSet(i[1]) /\ ToSet(g[11]) = ToSet(i[2])
    BY <1>2, Zenon
  <2> QED BY <2>1, <2>2, <2>3, <2>4, <2>5, Zenon
<1>9. ASSUME NEW f \in Fds PROVE {x.at : x \in {y \in InAll(g) : y.from = f}} = 1 .. total[f]
  <2>1. ASSUME NEW h \in Fds, NEW x \in ToSet(i[h])
        PROVE  \E j \in 1 .. Len(i[h]) : x = i[h][j] /\ x.from = h /\ x.at = j
    <3>1. i[h] \in Seq(Byte)
      BY DEF LineTyped
    <3>2. PICK j \in 1 .. Len(i[h]) : x = i[h][j]
      BY <3>1 DEF ToSet
    <3>3. x.from = h /\ x.at = j
      BY <3>2 DEF InPlace
    <3> QED BY <3>2, <3>3
  <2>2. ASSUME NEW x \in InAll(g), x.from = f PROVE x.at \in 1 .. total[f]
    <3>1. PICK h \in Fds : x \in ToSet(i[h])
      BY <1>8 DEF Fds
    <3>2. PICK j \in 1 .. Len(i[h]) : x = i[h][j] /\ x.from = h /\ x.at = j
      BY <2>1, <3>1
    <3> QED BY <2>2, <3>2
  <2>3. ASSUME NEW k \in 1 .. total[f] PROVE \E x \in InAll(g) : x.from = f /\ x.at = k
    <3>1. i[f] \in Seq(Byte) /\ k \in 1 .. Len(i[f])
      BY DEF LineTyped
    <3>2. PICK x : x = i[f][k]
      OBVIOUS
    <3>3. x.from = f /\ x.at = k
      BY <3>1, <3>2 DEF InPlace
    <3>4. x \in ToSet(i[f])
      BY <3>1, <3>2 DEF ToSet
    <3>5. x \in InAll(g)
      BY <1>8, <3>4 DEF Fds
    <3> QED BY <3>3, <3>5
  <2> QED BY <2>2, <2>3
<1> QED BY <1>1, <1>3, <1>7, <1>9 DEF Complete

LEMMA LinesBegin == Init => LinesInv
<1> SUFFICES ASSUME Init PROVE LinesInv
  OBVIOUS
<1>1. VersTyped
  <2>1. ver \in All /\ use \in {"one", "two", "threads"} /\ (ver.keep = "static" => use # "threads")
    BY DEF Init
  <2>2. ASSUME NEW k \in {"static", "thread", "fd", "none"}, NEW b \in BOOLEAN, NEW n \in Nat,
               b => n = 0, ver = Version(k, b, n)
        PROVE  VersTyped
    <3>1. ver.keep = k /\ ver.fixed = b /\ ver.eofcount = n
      BY <2>2 DEF Version
    <3> QED BY <2>1, <2>2, <3>1 DEF VersTyped
  <2>3. \/ ver = Version("static", FALSE, 0) \/ ver = Version("thread", FALSE, 0)
        \/ ver = Version("fd", FALSE, 1) \/ ver = Version("fd", FALSE, 0)
        \/ ver = Version("none", FALSE, 0) \/ ver = Version("none", TRUE, 0)
    BY <2>1 DEF All, readline, threads_readline, readline_r, test_readline3, test_readline1, readn
  <2> QED BY <2>2, <2>3
<1>2. PICK s \in [Fds -> Inputs] : inp = [f \in Fds |-> Bytes(f, s[f])]
  BY DEF Init
<1>3. /\ rbuf = [k \in 0 .. 4 |-> <<>>] /\ cur = [t \in Threads |-> <<>>]
      /\ lfd = [t \in Threads |-> t] /\ results = [f \in Fds |-> <<>>]
      /\ total = [f \in Fds |-> Len(inp[f])]
  BY DEF Init
<1>4. /\ \A t \in Threads : cur[t] = <<>> /\ lfd[t] = t
      /\ \A k \in 0 .. 4 : rbuf[k] = <<>>
      /\ \A f \in Fds : results[f] = <<>>
  BY <1>3
<1>5. \A f \in Fds : /\ inp[f] \in Seq(Byte) /\ InPlace(inp[f], f, 0)
                     /\ total[f] = Len(inp[f])
  <2>1. ASSUME NEW f \in Fds PROVE inp[f] \in Seq(Byte) /\ InPlace(inp[f], f, 0)
    <3>1. s[f] \in Inputs /\ inp[f] = Bytes(f, s[f])
      BY <1>2
    <3>2. Bytes(f, s[f]) \in Seq(Byte) /\ InPlace(Bytes(f, s[f]), f, 0)
      BY <3>1, BytesPlaced
    <3> QED BY <3>1, <3>2
  <2> QED BY <1>3, <2>1
<1>6. LineTyped(cur, rbuf, inp, results, lfd)
  <2>1. <<>> \in Seq(Byte) /\ <<>> \in Seq(Result)
    OBVIOUS
  <2>2. cur \in [Threads -> Seq(Byte)] /\ rbuf \in [0 .. 4 -> Seq(Byte)]
    BY <1>3, <2>1
  <2>3. results \in [Fds -> Seq(Result)]
    BY <1>3, <2>1
  <2>4. inp \in [Fds -> Seq(Byte)]
    BY <1>2, <1>5
  <2>5. lfd \in [Threads -> Fds]
    BY <1>3 DEF Threads, Fds
  <2> QED BY <1>4, <2>2, <2>3, <2>4, <2>5 DEF LineTyped
<1>7. Complete(BytePieces(cur, rbuf, inp, results))
  BY <1>4, <1>5, <1>6, StartComplete
<1>8. Chain(cur, rbuf, inp, results, lfd)
  <2>1. ASSUME NEW f \in Fds
        PROVE  InChain(f, BytesOf(results[f]), LineOf(f, cur, lfd), BufOf(f, rbuf), inp[f])
    <3>1. results[f] \in Seq(Result) /\ results[f] = <<>>
      BY <1>4, <1>6 DEF LineTyped
    <3>2. BytesOf(results[f]) = <<>>
      BY <3>1, BytesTyped
    <3>3. LineOf(f, cur, lfd) = <<>>
      BY <1>4 DEF LineOf, Threads, Fds
    <3>4. BufOf(f, rbuf) = <<>>
      BY <1>4 DEF BufOf, Fds
    <3>5. PICK e : e = <<>> /\ Len(e) = 0
      OBVIOUS
    <3>6. \A n : InPlace(e, f, n)
      BY <3>5 DEF InPlace
    <3>7. InPlace(inp[f], f, 0) /\ 0 + 0 + 0 = 0
      BY <1>5
    <3>8. InChain(f, e, e, e, inp[f])
      BY <3>5, <3>6, <3>7 DEF InChain
    <3> QED BY <3>2, <3>3, <3>4, <3>5, <3>8
  <2> QED BY <2>1 DEF Chain
<1>9. Cut(cur, results)
  <2>1. Len(<<>>) = 0
    OBVIOUS
  <2>2. \A t \in Threads : NoNewline(cur[t])
    BY <1>4, <2>1 DEF NoNewline
  <2> QED BY <1>4, <2>1, <2>2 DEF Cut
<1> QED BY <1>1, <1>6, <1>7, <1>8, <1>9 DEF LinesInv, LineInv

LEMMA OnlyLines ==
  ASSUME [MCNext]_MCvars
  PROVE  Next \/ UNCHANGED lvars
BY DEF MCNext, MCvars, Lines, Gais, Write

\* readline() and readn() in every version, for every size of the callers' buffer and
\* every input, however reads and threads interleave: no byte is lost or given twice; a
\* version that suits its use gives each descriptor's bytes to that descriptor's callers in
\* order, cut after newlines, with the right count for every line that ends with a newline.
THEOREM LinesAlwaysRight == MCSpec => []LinesRight
<1>1. MCInit => LinesInv
  BY LinesBegin DEF MCInit
<1>2. LinesInv /\ [MCNext]_MCvars => LinesInv'
  BY OnlyLines, LinesStep
<1>3. LinesInv => LinesRight
  BY LinesHold
<1> QED BY <1>1, <1>2, <1>3, PTL DEF MCSpec
=============================================================================
