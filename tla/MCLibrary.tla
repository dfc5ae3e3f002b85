----------------------------- MODULE MCLibrary ------------------------------
(***************************************************************************)
(* The library for TLC: the functions that read lines, the conversion of   *)
(* addresses, and getaddrinfo().  One of them runs, the others stay in     *)
(* their initial state.                                                    *)
(***************************************************************************)
EXTENDS LineIO, AddrText

CONSTANTS
  MaxText,     \* length of a text that is converted, at most
  MaxAddrs

\* The callers' buffer has room for a byte and the 0 after it; numbers of bytes
\* and of addresses.
ASSUME LibraryAssumption ==
  /\ MAXLINE \in Nat \ {0, 1} /\ NBYTE \in Nat /\ MaxAddrs \in Nat

VARIABLES
  which,
  text, words,
  host, serv, hints, names, gpc, sptr, nport, list, canon, rc

Gai == INSTANCE GetAddrInfo
\* The conversions with the real sizes.
Full == INSTANCE AddrText WITH HEX <- 16, DEC <- 10, OCTET <- 255, INADDRSZ <- 4, NWORD <- 8
\* Words to be written: none, one of two digits, and the largest.
Samples == {0, 26, 65535}

textVars == <<text, words>>
gaiVars == <<host, serv, hints, names, gpc, sptr, nport, list, canon, rc>>

\* A function that does not run has one initial state.
MCInit ==
  /\ which \in {"lines", "texts", "words", "getaddrinfo"}
  /\ Init /\ (which = "lines" \/ (ver = readn /\ use = "one" /\ inp[1] = <<>>))
  /\ text = <<>>
  /\ words \in IF which = "words" THEN [1 .. 8 -> Samples] ELSE {[i \in 1 .. 8 |-> 0]}
  /\ \/ which = "getaddrinfo" /\ Gai!Init
     \/ /\ which # "getaddrinfo" /\ host = "none" /\ serv = "none" /\ hints = {} /\ names = {}
        /\ gpc = "end" /\ sptr = 0 /\ nport = 0 /\ list = <<>> /\ canon = "none" /\ rc = "ok"

Lines == which = "lines" /\ UNCHANGED <<which, textVars, gaiVars>>
Gais == which = "getaddrinfo" /\ UNCHANGED <<which, lvars, textVars>>
Write ==
  /\ which = "texts" /\ Len(text) < MaxText
  /\ \E c \in Chars : text' = Append(text, c)
  /\ UNCHANGED <<which, words, lvars, gaiVars>>

MCNext == (Lines /\ Next) \/ Write \/ (Gais /\ Gai!Next)

MCvars == <<which, lvars, textVars, gaiVars>>
MCSpec == MCInit /\ [][MCNext]_MCvars

-----------------------------------------------------------------------------
\* Every text is converted to the address it means, or to none, and every
\* address that is written is read back (AddrText).
TextsRight ==
  /\ which = "texts" => TextRight(text)
  /\ which = "words" => Full!RoundTrip(words)

\* getaddrinfo() gives what was asked for (GetAddrInfo).
ListRight == which = "getaddrinfo" => Gai!ListRight

\* getaddrinfo() keeps nothing when it fails (GetAddrInfo).
NothingKept == which = "getaddrinfo" => Gai!NothingKept
=============================================================================
