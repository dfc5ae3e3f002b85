---------------------------- MODULE GetAddrInfo -----------------------------
(***************************************************************************)
(* getaddrinfo() of libgai: the list of addrinfo structures that is made   *)
(* for a host and a service, search by search and socket type by socket    *)
(* type, and what is freed when a step fails.  Any allocation may fail.    *)
(***************************************************************************)
EXTENDS Integers, Sequences, SequencesExt

CONSTANT MaxAddrs      \* bound: addresses of a name in a family

VARIABLES
  host,        \* "none", an address as text ("v4", "v6"), a "name", or "/local"
  serv,        \* "none", a port ("num"), a service of "tcp", "udp", "both" or
               \* neither ("unknown"), or a path, perhaps too long
  hints,       \* flags, family and socktype
  names,       \* what the resolver knows: the number of addresses in each family,
               \* and whether gethostbyname() can be asked for IPv6
  gpc,         \* "check", "search", "canon", "serv", "end"
  sptr, nport, \* searches done, calls of ga_port() done
  list, canon, \* aihead; the canonical name: "none", "held" or "attached"
  rc           \* "ok" or what is returned; "exit": the process is ended

gvars == <<host, serv, hints, names, gpc, sptr, nport, list, canon, rc>>
args == <<host, serv, hints, names>>

STREAM == 1
DGRAM == 2
RAW == 3
Families == {"inet", "inet6", "local"}
\* An addrinfo structure; ready: it has its socket address.
Struct(family, n, type, clone, ready) ==
  [family |-> family, n |-> n, type |-> type, port |-> "none", clone |-> clone, ready |-> ready]

Init ==
  /\ host \in {"none", "v4", "v6", "name", "/local"}
  /\ serv \in {"none", "num", "tcp", "udp", "both", "unknown", "path", "longpath"}
  /\ hints \in [flags : SUBSET {"passive", "canon"} \cup {{"other"}},
                family : {"unspec", "other"} \cup Families, type : 0 .. 4]
  /\ names \in [inet : 0 .. MaxAddrs, inet6 : 0 .. 1, new : BOOLEAN]
  /\ gpc = "check" /\ sptr = 0 /\ nport = 0 /\ list = <<>> /\ canon = "none" /\ rc = "ok"

\* Mutant: the list is forgotten, not freed.
BadKept(e) == gpc' = "end" /\ rc' = e /\ UNCHANGED <<list, canon>>

\* bad: freeaddrinfo().
Bad(e) ==
  /\ gpc' = "end" /\ rc' = e /\ list' = <<>>
  /\ canon' = IF canon = "attached" THEN "none" ELSE canon

-----------------------------------------------------------------------------
\* ga_echeck(): 0 or the error.
TypeUnknown ==
  \/ hints.family \in {"inet", "inet6"} /\ hints.type \notin {0, STREAM, DGRAM, RAW}
  \/ hints.family = "local" /\ hints.type \notin {0, STREAM, DGRAM}
ga_echeck ==
  IF "other" \in hints.flags THEN "badflags"
  ELSE IF host = "none" /\ serv = "none" THEN "noname"
  ELSE IF TypeUnknown THEN "socktype"
  ELSE IF hints.family = "other" THEN "family" ELSE "ok"

IsUnix == host = "/local" /\ serv \in {"path", "longpath"}

\* ga_nsearch(): the host and family of each search.
HostFor(family) ==
  CASE host # "none" -> host
    [] host = "none" /\ family = "inet6" -> "v6"
    [] host = "none" /\ family = "inet" -> IF "passive" \in hints.flags THEN "v4" ELSE "name"
ga_nsearch ==
  LET families == CASE hints.family = "unspec" -> <<"inet6", "inet">>
                    [] hints.family \in {"inet", "inet6"} -> <<hints.family>>
                    [] OTHER -> <<>>
  IN  [i \in DOMAIN families |-> [host |-> HostFor(families[i]), family |-> families[i]]]

Check ==
  /\ gpc = "check"
  /\ \/ /\ ga_echeck # "ok" /\ Bad(ga_echeck)
     \/ ga_echeck = "ok" /\ IsUnix /\ gpc' = "unix" /\ UNCHANGED <<list, canon, rc>>
     \/ /\ ga_echeck = "ok" /\ ~IsUnix /\ ga_nsearch = <<>>
        /\ gpc' = "end" /\ rc' = "exit" /\ UNCHANGED <<list, canon>>
     \/ /\ ga_echeck = "ok" /\ ~IsUnix /\ ga_nsearch # <<>>
        /\ gpc' = "search" /\ UNCHANGED <<list, canon, rc>>
  /\ UNCHANGED <<args, sptr, nport>>

\* ga_aistruct(), called for each address.
ga_aistruct(family, n) == Struct(family, n, hints.type, hints.type = 0, TRUE)
Made(family, n) == [i \in 1 .. n |-> ga_aistruct(family, i)]

\* ga_unix(): no error frees what has been made.
UnixTypes == IF hints.type = 0 THEN <<STREAM, DGRAM>> ELSE <<hints.type>>
ga_unix ==
  LET one(t, ready) == Struct("local", 1, t, FALSE, ready)
      all == [i \in DOMAIN UnixTypes |-> one(UnixTypes[i], TRUE)]
      failed == {Append(SubSeq(all, 1, k - 1), one(UnixTypes[k], FALSE)) : k \in DOMAIN UnixTypes}
                \cup {SubSeq(all, 1, k - 1) : k \in DOMAIN UnixTypes}
      named == IF "canon" \in hints.flags THEN "attached" ELSE "none"
  IN  /\ gpc = "unix" /\ gpc' = "end"
      /\ \/ hints.family \notin {"unspec", "local"} /\ rc' = "addrfamily" /\ UNCHANGED <<list, canon>>
         \/ /\ hints.family \in {"unspec", "local"} /\ serv = "longpath"
            /\ rc' = "service" /\ list' = <<one(UnixTypes[1], FALSE)>> /\ canon' = canon
         \/ /\ hints.family \in {"unspec", "local"} /\ serv = "path"
            /\ \/ rc' = "ok" /\ list' = all /\ canon' = named
               \/ rc' = "memory" /\ list' \in failed /\ canon' = canon
               \/ named = "attached" /\ rc' = "memory" /\ list' = all /\ canon' = canon
      /\ UNCHANGED <<args, sptr, nport>>

-----------------------------------------------------------------------------
\* The search that is next, and how a search ends.
Cur == ga_nsearch[sptr + 1]
Searching == gpc = "search" /\ sptr < Len(ga_nsearch)
Continue(structs, name) ==
  /\ list' = list \o structs /\ canon' = name /\ sptr' = sptr + 1 /\ UNCHANGED <<gpc, rc>>

\* The host is an address: it counts only in the search of its family.
TextFamily == IF Cur.host = "v4" THEN "inet" ELSE "inet6"
SearchText ==
  /\ Searching /\ Cur.host \in {"v4", "v6"}
  /\ \/ hints.family \notin {"unspec", TextFamily} /\ Bad("addrfamily") /\ sptr' = sptr
     \/ hints.family \in {"unspec", TextFamily} /\ Cur.family # TextFamily /\ Continue(<<>>, canon)
     \/ /\ hints.family \in {"unspec", TextFamily} /\ Cur.family = TextFamily
        /\ Continue(Made(TextFamily, 1), canon) \/ (Bad("memory") /\ sptr' = sptr)
  /\ UNCHANGED <<args, nport>>

\* gethostbyname2() for two searches, gethostbyname() for one.  A resolver that
\* cannot be asked for IPv6 answers with IPv4 addresses.
AnswerFamily == IF Len(ga_nsearch) = 2 \/ names.new THEN Cur.family ELSE "inet"
Answer == IF Cur.host = "/local" THEN 0 ELSE names[AnswerFamily]
WantsCanon == host # "none" /\ "canon" \in hints.flags
SearchName ==
  /\ Searching /\ Cur.host \in {"name", "/local"}
  /\ \/ Answer = 0 /\ Len(ga_nsearch) = 2 /\ Continue(<<>>, canon)
     \/ Answer = 0 /\ Len(ga_nsearch) = 1 /\ Bad("noname") /\ sptr' = sptr
     \/ /\ Answer > 0 /\ hints.family \notin {"unspec", AnswerFamily}
        /\ Bad("addrfamily") /\ sptr' = sptr
     \/ /\ Answer > 0 /\ hints.family \in {"unspec", AnswerFamily}
        /\ LET name == IF WantsCanon THEN "held" ELSE canon IN
           \/ Continue(Made(AnswerFamily, Answer), name)
           \/ WantsCanon /\ canon = "none" /\ Bad("memory") /\ sptr' = sptr
           \/ gpc' = "end" /\ rc' = "memory" /\ list' = <<>> /\ canon' = name /\ sptr' = sptr
  /\ UNCHANGED <<args, nport>>

SearchEnd ==
  /\ gpc = "search" /\ sptr = Len(ga_nsearch)
  /\ \/ list = <<>> /\ Bad("noname")
     \/ list # <<>> /\ gpc' = "canon" /\ UNCHANGED <<list, canon, rc>>
  /\ UNCHANGED <<args, sptr, nport>>

\* The canonical name is that of the first answer or, for an address, the text.
Canon ==
  /\ gpc = "canon"
  /\ \/ WantsCanon /\ canon = "none" /\ Bad("memory")
     \/ /\ gpc' = IF serv = "none" THEN "end" ELSE "serv"
        /\ canon' = IF WantsCanon THEN "attached" ELSE canon
        /\ UNCHANGED <<list, rc>>
  /\ UNCHANGED <<args, sptr, nport>>

-----------------------------------------------------------------------------
\* ga_serv(): the socket types that ga_port() is called for.
Known(type) == CASE serv = "num" -> TRUE [] serv = "both" -> TRUE
                 [] serv = "tcp" -> type = STREAM [] serv = "udp" -> type = DGRAM [] OTHER -> FALSE
\* TCP, then UDP: if the caller wants it and the service has it.
Offered(type) == IF hints.type \in {0, type} /\ Known(type) THEN <<type>> ELSE <<>>
Calls ==
  IF serv = "num" /\ hints.type # 0 THEN <<hints.type>> ELSE Offered(STREAM) \o Offered(DGRAM)

\* Mutant: a structure that has a type already is changed, not cloned.
Overwrite(ai, type) == <<[ai EXCEPT !.type = type, !.port = serv]>>

\* ga_clone(), if the structure is in use for another type.
ga_clone(ai, type) ==
  LET set(a) == [a EXCEPT !.type = type, !.port = serv] IN
  IF ai.type = 0 THEN <<set(ai)>> ELSE <<ai, [set(ai) EXCEPT !.clone = FALSE]>>
ga_port(type) ==
  FlattenSeq([i \in DOMAIN list |->
    IF list[i].clone THEN ga_clone(list[i], type)
    ELSE IF list[i].type = type THEN <<[list[i] EXCEPT !.port = serv]>> ELSE <<list[i]>>])

Port ==
  /\ gpc = "serv" /\ nport < Len(Calls)
  /\ \/ list' = ga_port(Calls[nport + 1]) /\ nport' = nport + 1 /\ UNCHANGED <<gpc, canon, rc>>
     \/ /\ \E i \in DOMAIN list : list[i].clone /\ list[i].type # 0
        /\ Bad("memory") /\ nport' = nport
  /\ UNCHANGED <<args, sptr>>

\* Nothing found: the service is not there, or not for this type.
Found == \E i \in DOMAIN list : list[i].port # "none"
ServEnd ==
  /\ gpc = "serv" /\ nport = Len(Calls)
  /\ \/ Found /\ gpc' = "end" /\ UNCHANGED <<list, canon, rc>>
     \/ ~Found /\ Bad(IF hints.type = 0 THEN "noname" ELSE "service")
  /\ UNCHANGED <<args, sptr, nport>>

Next == Check \/ ga_unix \/ SearchText \/ SearchName \/ SearchEnd \/ Canon \/ Port \/ ServEnd

-----------------------------------------------------------------------------
\* What was asked for: the addresses of the host in the families that are wanted,
\* IPv6 first, each with every socket type that the service has and the caller
\* wants, stream first.
Wanted(family) == hints.family \in {"unspec", family}
AddrsIn(family) ==
  CASE ~Wanted(family) -> 0
    [] Wanted(family) /\ host = "none" ->
         IF family = "inet6" \/ "passive" \in hints.flags THEN 1 ELSE names.inet
    [] Wanted(family) /\ host \in {"v4", "v6"} -> IF (host = "v4") = (family = "inet") THEN 1 ELSE 0
    [] Wanted(family) /\ host = "name" ->
         IF family = "inet6" /\ ~names.new /\ hints.family = "inet6" THEN 0 ELSE names[family]
    [] OTHER -> 0
TypesWanted ==
  CASE serv = "none" -> <<hints.type>>
    [] serv = "num" -> IF hints.type = 0 THEN <<STREAM, DGRAM>> ELSE <<hints.type>>
    [] OTHER -> Offered(STREAM) \o Offered(DGRAM)
Asked ==
  IF IsUnix /\ serv = "path" /\ Wanted("local")
  THEN [i \in DOMAIN UnixTypes |-> <<"local", 1, UnixTypes[i], "none">>]
  ELSE LET per(family) == FlattenSeq([n \in 1 .. AddrsIn(family) |->
                            [i \in DOMAIN TypesWanted |-> <<family, n, TypesWanted[i], serv>>]])
       IN  per("inet6") \o per("inet")
Given == [i \in DOMAIN list |-> <<list[i].family, list[i].n, list[i].type, list[i].port>>]

\* getaddrinfo(): the list has what was asked for, address by address and type by
\* type, in the order of the comment above ga_port(); an error means that there
\* is nothing, that the arguments are wrong or that there is no memory; and only
\* a search for AF_LOCAL without a path ends the process.
ListRight ==
  gpc = "end" =>
    CASE rc = "ok" -> Given = Asked /\ list # <<>> /\ \A i \in DOMAIN list : list[i].ready
      [] rc \in {"noname", "service", "addrfamily"} -> Asked = <<>> \/ rc = ga_echeck
      [] rc = "exit" -> hints.family = "local"
      [] OTHER -> rc = "memory" \/ rc = ga_echeck

\* getaddrinfo.c, "If we encounter an error we want to free() any dynamic memory
\* that we've allocated": whichever step fails, nothing is left, but for the
\* canonical name when memory runs out before it is attached, and for what
\* ga_unix() had made.
NothingKept ==
  gpc = "end" /\ rc # "ok" =>
    /\ list = <<>> \/ IsUnix
    /\ canon = "none" \/ (canon = "held" /\ rc = "memory")
=============================================================================
