------------------------------- MODULE LineIO -------------------------------
(***************************************************************************)
(* readline() in its versions, and readn().  They differ in where the      *)
(* bytes that were read ahead are kept: in static variables (lib,          *)
(* test/readline2), per thread (threads/readline.c), per descriptor        *)
(* (server/readline_r.c, test/readline3) or nowhere (test/readline1,       *)
(* readn).  read() returns what has come, in pieces of any size.           *)
(***************************************************************************)
EXTENDS Integers, Sequences, SequencesExt

CONSTANTS
  MAXLINE,     \* maxlen of the callers, and size of the buffer
  NBYTE,       \* bytes that come on a descriptor, at most
  Versions     \* versions that run

VARIABLES
  ver, use,          \* the version; one descriptor, two, or a thread for each of two
  inp,               \* what is still to be read from each descriptor
  rbuf,              \* bytes read ahead, for each place they are kept in
  cur, lfd,          \* for each thread, the line so far and the descriptor
  results,           \* what was returned for each descriptor: bytes and count
  total              \* the number of bytes that come on each descriptor

lvars == <<ver, use, inp, rbuf, cur, lfd, results, total>>
\* What may come on a descriptor; TRUE is a newline.
Inputs == UNION {[1 .. n -> BOOLEAN] : n \in 0 .. NBYTE}
Fds == {1, 2}
Threads == {1, 2}

\* keep: where bytes read ahead are kept; fixed: a number of bytes is read, not a
\* line; eofcount: what is added to the count when the end cuts a line off.
Version(keep, fixed, eofcount) == [keep |-> keep, fixed |-> fixed, eofcount |-> eofcount]
readline == Version("static", FALSE, 0)
test_readline2 == readline
threads_readline == Version("thread", FALSE, 0)
readline_r == Version("fd", FALSE, 1)
test_readline3 == Version("fd", FALSE, 0)
test_readline1 == Version("none", FALSE, 0)
readn == Version("none", TRUE, 0)
All == {readline, threads_readline, readline_r, test_readline3, test_readline1, readn}

\* The byte of a descriptor at a place: a byte knows where it is from.
Bytes(f, s) == [i \in DOMAIN s |-> [from |-> f, at |-> i, nl |-> s[i]]]

Init ==
  /\ ver \in {v \in All : v.keep \in Versions} /\ use \in {"one", "two", "threads"}
  /\ ver.keep = "static" => use # "threads"      \* a data race, whose outcomes nothing bounds
  /\ \E s \in [Fds -> Inputs] : inp = [f \in Fds |-> Bytes(f, s[f])] /\ (use = "one" => s[2] = <<>>)
  /\ rbuf = [k \in 0 .. 4 |-> <<>>]
  /\ cur = [t \in Threads |-> <<>>] /\ lfd = [t \in Threads |-> t]
  /\ results = [f \in Fds |-> <<>>] /\ total = [f \in Fds |-> Len(inp[f])]

\* Mutant: all share one buffer.
SharedPlace(t) == 0

\* Where my_read() keeps what it has read ahead.
Place(t) ==
  CASE ver.keep = "static" -> 0 [] ver.keep = "thread" -> t
    [] ver.keep = "fd" -> 2 + lfd[t] [] ver.keep = "none" -> 0

Active(t) == use = "threads" \/ t = 1

\* read(): as much as has come, at most a buffer.  Without a buffer a byte is read.
Fill(t) ==
  /\ Active(t) /\ rbuf[Place(t)] = <<>> /\ inp[lfd[t]] # <<>> /\ ver.keep # "none"
  /\ \E n \in 1 .. (IF Len(inp[lfd[t]]) < MAXLINE THEN Len(inp[lfd[t]]) ELSE MAXLINE) :
       /\ rbuf' = [rbuf EXCEPT ![Place(t)] = SubSeq(inp[lfd[t]], 1, n)]
       /\ inp' = [inp EXCEPT ![lfd[t]] = SubSeq(@, n + 1, Len(@))]
  /\ UNCHANGED <<ver, use, cur, lfd, results, total>>

\* The call returns; the thread goes on with the same or another descriptor.
Return(t, bytes, count) ==
  /\ results' = [results EXCEPT ![lfd[t]] = Append(@, [bytes |-> bytes, n |-> count])]
  /\ cur' = [cur EXCEPT ![t] = <<>>]
  /\ lfd' \in {[lfd EXCEPT ![t] = f] : f \in IF use = "two" THEN Fds ELSE {t}}

\* A byte is stored.  The loop ends with a newline, or with n = maxlen: then one
\* byte less is stored than is returned.
Store(t, b) ==
  LET line == Append(cur[t], b)
      full == Len(line) = MAXLINE - 1
  IN  IF b.nl /\ ~ver.fixed THEN Return(t, line, Len(line))
      ELSE IF full THEN Return(t, line, IF ver.fixed THEN Len(line) ELSE MAXLINE)
      ELSE cur' = [cur EXCEPT ![t] = line] /\ UNCHANGED <<lfd, results>>

MyRead(t) ==
  /\ Active(t) /\ rbuf[Place(t)] # <<>>
  /\ rbuf' = [rbuf EXCEPT ![Place(t)] = Tail(@)]
  /\ Store(t, Head(rbuf[Place(t)]))
  /\ UNCHANGED <<ver, use, inp, total>>
ReadByte(t) ==
  /\ Active(t) /\ ver.keep = "none" /\ inp[lfd[t]] # <<>>
  /\ inp' = [inp EXCEPT ![lfd[t]] = Tail(@)]
  /\ Store(t, Head(inp[lfd[t]]))
  /\ UNCHANGED <<ver, use, rbuf, total>>

\* The end: what there is of a line is returned.
AtEof(t) ==
  /\ Active(t) /\ rbuf[Place(t)] = <<>> /\ inp[lfd[t]] = <<>> /\ cur[t] # <<>>
  /\ Return(t, cur[t], Len(cur[t]) + ver.eofcount)
  /\ UNCHANGED <<ver, use, inp, rbuf, total>>

\* The caller with nothing left on one descriptor turns to the other.
Turn(t) ==
  /\ Active(t) /\ use = "two" /\ cur[t] = <<>> /\ inp[lfd[t]] = <<>> /\ rbuf[Place(t)] = <<>>
  /\ inp[3 - lfd[t]] # <<>> /\ lfd' = [lfd EXCEPT ![t] = 3 - @]
  /\ UNCHANGED <<ver, use, inp, rbuf, cur, results, total>>

Next == \E t \in Threads : Fill(t) \/ MyRead(t) \/ ReadByte(t) \/ AtEof(t) \/ Turn(t)

-----------------------------------------------------------------------------
\* Which version suits which use: with a static buffer there is one descriptor,
\* with a buffer per thread one for each thread.
Suits == \/ ver.keep \in {"fd", "none"} \/ use = "one"
         \/ ver.keep = "thread" /\ use = "threads"

Returned(f) == FlattenSeq([i \in DOMAIN results[f] |-> results[f][i].bytes])

\* All bytes there are: returned, in a line, read ahead, still to be read.
Everywhere ==
  FlattenSeq([f \in Fds |-> Returned(f)]) \o FlattenSeq([t \in Threads |-> cur[t]])
  \o FlattenSeq([k \in 1 .. 5 |-> rbuf[k - 1]]) \o FlattenSeq([f \in Fds |-> inp[f]])

\* readline(), readn(): a descriptor's callers get its bytes, each once and in
\* order, cut after newlines, however reads and threads interleave, and the
\* count that is returned is that of the bytes, but for a line that fills the
\* caller's buffer and for a line that the end cuts off in readline_r().  Where
\* the static buffer is used for two descriptors, bytes are given to the wrong
\* one's caller, but none is lost or given twice.
LinesRight ==
  /\ LET all == Everywhere IN
       /\ Len(all) = total[1] + total[2]
       /\ \A f \in Fds : {b.at : b \in {x \in ToSet(all) : x.from = f}} = 1 .. total[f]
  /\ Suits => \A f \in Fds :
       /\ \A i \in DOMAIN Returned(f) : Returned(f)[i].from = f /\ Returned(f)[i].at = i
       /\ \A i \in DOMAIN results[f] : LET r == results[f][i] IN
            /\ \A j \in 1 .. Len(r.bytes) - 1 : r.bytes[j].nl => ver.fixed
            /\ Last(r.bytes).nl => r.n = Len(r.bytes)
=============================================================================
