----------------------------- MODULE WebClient ------------------------------
(***************************************************************************)
(* The clients that fetch a home page and then several files at once:      *)
(* web01, web02, web03 of src/threads/, with a thread for each file, and   *)
(* web of src/nonblock/, with nonblocking connects and select().           *)
(***************************************************************************)
EXTENDS Integers, FiniteSets

CONSTANTS NFILES, MAXNCONN, Webs

VARIABLES
  web,                            \* the program that runs
  mpc, i,                         \* the main thread, its loop over the files
  f_flags,                        \* of each file
  nconn, nlefttoconn, nlefttoread, ndone,
  tpc,                            \* the thread of each file
  mutex,                          \* who holds ndone_mutex: 0 main, a file, or nobody
  rs, rset, wset, chunks          \* select()'s sets, what is left of each reply

countVars == <<nconn, nlefttoconn, nlefttoread>>
selVars == <<rs, rset, wset, chunks>>
webvars == <<web, mpc, i, f_flags, countVars, ndone, tpc, mutex, selVars>>

Files == 1 .. NFILES
Nobody == -1

Init ==
  /\ web \in Webs
  /\ mpc = "home" /\ i = 1 /\ f_flags = [f \in Files |-> 0]
  /\ nconn = 0 /\ nlefttoconn = NFILES /\ nlefttoread = NFILES /\ ndone = 0
  /\ tpc = [f \in Files |-> "none"] /\ mutex = Nobody
  /\ rs = {} /\ rset = {} /\ wset = {} /\ chunks = [f \in Files |-> 1]

\* err_sys() or err_quit() anywhere, SIGPIPE: the process is gone.
Fail == mpc' = "error" /\ UNCHANGED <<web, i, f_flags, countVars, ndone, tpc, mutex, selVars>>
Running == mpc \notin {"end", "error"}

\* home_page(): one whole exchange before the loop.
HomePage ==
  /\ mpc = "home"
  /\ \/ mpc' = "loop" /\ UNCHANGED <<web, i, f_flags, countVars, ndone, tpc, mutex, selVars>>
     \/ Fail

-----------------------------------------------------------------------------
(* Starting as many transfers as may run at once.                          *)


MayStart == nconn < MAXNCONN /\ nlefttoconn > 0
Unstarted == {f \in Files : f_flags[f] = 0}
Find == CHOOSE f \in Unstarted : \A g \in Unstarted : f <= g
Counted == nconn' = nconn + 1 /\ nlefttoconn' = nlefttoconn - 1

\* web02: create the thread, mark the file afterwards.
CreateUnmarked ==
  /\ tpc' = [tpc EXCEPT ![Find] = "connect"]
  /\ i' = Find /\ mpc' = "mark"
  /\ UNCHANGED <<web, f_flags, countVars, ndone, mutex, selVars>>

\* web01, web03: mark the file, then create its thread.
CreateMarked ==
  /\ f_flags' = [f_flags EXCEPT ![Find] = 1]
  /\ tpc' = [tpc EXCEPT ![Find] = "connect"]
  /\ Counted /\ mpc' = "loop"
  /\ UNCHANGED <<web, i, nlefttoread, ndone, mutex, selVars>>

Mark ==
  /\ mpc = "mark"
  /\ f_flags' = [f_flags EXCEPT ![i] = 1]
  /\ Counted /\ mpc' = "loop"
  /\ UNCHANGED <<web, i, nlefttoread, ndone, tpc, mutex, selVars>>

\* nonblock/web: start_connect(); the connect may be done at once, and
\* write_get_cmd() follows, or be under way.
StartConnect ==
  /\ \E atOnce \in BOOLEAN :
       /\ f_flags' = [f_flags EXCEPT ![Find] = IF atOnce THEN 2 ELSE 1]
       /\ wset' = IF atOnce THEN wset ELSE wset \cup {Find}
  /\ rset' = rset \cup {Find}
  /\ Counted /\ mpc' = "loop"
  /\ UNCHANGED <<web, i, nlefttoread, ndone, tpc, mutex, rs, chunks>>

Start ==
  /\ mpc = "loop" /\ nlefttoread > 0 /\ MayStart
  /\ \/ web \in {"web01", "web03"} /\ CreateMarked
     \/ web = "web02" /\ CreateUnmarked
     \/ web = "nonblock" /\ (StartConnect \/ Fail)

Finish ==
  /\ mpc = "loop" /\ nlefttoread = 0 /\ mpc' = "end"
  /\ UNCHANGED <<web, i, f_flags, countVars, ndone, tpc, mutex, selVars>>

-----------------------------------------------------------------------------
(* do_get_read() in the thread of a file.                                  *)

threadFrame == <<web, i, countVars, selVars>>

ThreadConnect(f) ==
  /\ tpc[f] = "connect" /\ Running
  /\ \/ /\ tpc' = [tpc EXCEPT ![f] = "read"] /\ f_flags' = [f_flags EXCEPT ![f] = 2]
        /\ UNCHANGED <<threadFrame, mpc, ndone, mutex>>
     \/ Fail

\* The whole reply, and F_DONE; web01's thread is at its end then.
ThreadRead(f) ==
  /\ tpc[f] = "read" /\ Running
  /\ f_flags' = [f_flags EXCEPT ![f] = 4]
  /\ tpc' = [tpc EXCEPT ![f] = IF web = "web01" THEN "gone" ELSE "lock"]
  /\ UNCHANGED <<threadFrame, mpc, ndone, mutex>>

\* web02, web03: count under the mutex; web03 wakes the main thread.
ThreadLock(f) ==
  /\ tpc[f] = "lock" /\ mutex = Nobody /\ Running
  /\ mutex' = f /\ tpc' = [tpc EXCEPT ![f] = "unlock"]
  /\ ndone' = ndone + 1
  /\ mpc' = IF mpc = "wait" THEN "relock" ELSE mpc
  /\ UNCHANGED <<threadFrame, f_flags>>

ThreadUnlock(f) ==
  /\ tpc[f] = "unlock" /\ Running
  /\ mutex' = Nobody /\ tpc' = [tpc EXCEPT ![f] = "gone"]
  /\ UNCHANGED <<threadFrame, mpc, f_flags, ndone>>

-----------------------------------------------------------------------------
(* The main thread waits for threads.                                      *)

Idle == mpc = "loop" /\ nlefttoread > 0 /\ ~MayStart

\* Mutant: the connection that has ended is still counted.
JoinedUncounted(f) == nlefttoread' = nlefttoread - 1 /\ tpc' = [tpc EXCEPT ![f] = "joined"]
                      /\ UNCHANGED nconn

Joined(f) == nconn' = nconn - 1 /\ nlefttoread' = nlefttoread - 1
             /\ tpc' = [tpc EXCEPT ![f] = "joined"]

\* web01: thr_join() of whichever thread has ended.
JoinAny ==
  /\ Idle /\ web = "web01"
  /\ \E f \in Files : tpc[f] = "gone" /\ Joined(f)
  /\ UNCHANGED <<web, mpc, i, f_flags, nlefttoconn, ndone, mutex, selVars>>

\* web02, web03: take the mutex; web03 waits until ndone is not 0, web02 goes
\* round again when it is.
MainLock ==
  /\ (Idle /\ web \in {"web02", "web03"}) \/ mpc = "relock"
  /\ mutex = Nobody
  /\ \/ ndone > 0 /\ mpc' = "scan" /\ i' = 1 /\ mutex' = 0
     \/ ndone = 0 /\ web = "web03" /\ mpc' = "wait" /\ UNCHANGED <<i, mutex>>
     \/ ndone = 0 /\ web = "web02" /\ mpc' = "loop" /\ UNCHANGED <<i, mutex>>
  /\ UNCHANGED <<web, f_flags, countVars, ndone, tpc, selVars>>

\* The mutex is held all the time that pthread_join() waits.
Scan ==
  /\ mpc = "scan" /\ i <= NFILES /\ i' = i + 1
  /\ \/ f_flags[i] # 4 /\ UNCHANGED <<f_flags, countVars, ndone, tpc>>
     \/ /\ f_flags[i] = 4 /\ tpc[i] = "gone"
        /\ f_flags' = [f_flags EXCEPT ![i] = 8]
        /\ ndone' = ndone - 1 /\ Joined(i) /\ UNCHANGED nlefttoconn
  /\ UNCHANGED <<web, mpc, mutex, selVars>>

MainUnlock ==
  /\ mpc = "scan" /\ i > NFILES /\ mutex' = Nobody /\ mpc' = "loop"
  /\ UNCHANGED <<web, i, f_flags, countVars, ndone, tpc, selVars>>

-----------------------------------------------------------------------------
(* nonblock/web: select() and the loop over the files.                     *)

Select ==
  /\ Idle /\ web = "nonblock"
  /\ rs' \in SUBSET (rset \cup wset) \ {{}}
  /\ mpc' = "ready" /\ i' = 1
  /\ UNCHANGED <<web, f_flags, countVars, ndone, tpc, mutex, rset, wset, chunks>>

\* FD_CLR(fd, &rset) when the file is closed.
Cleared(f) == rset \ {f}

\* One file of the loop.  A connect that failed is reported and then written to
\* all the same, which ends the program.
Ready ==
  /\ mpc = "ready" /\ i <= NFILES
  /\ \/ /\ f_flags[i] = 1 /\ i \in rs
        /\ \/ /\ wset' = wset \ {i} /\ rset' = rset \cup {i}
              /\ f_flags' = [f_flags EXCEPT ![i] = 2] /\ i' = i + 1
              /\ UNCHANGED <<web, mpc, countVars, ndone, tpc, mutex, rs, chunks>>
           \/ Fail
     \/ /\ f_flags[i] = 2 /\ i \in rs /\ chunks[i] > 0
        /\ chunks' = [chunks EXCEPT ![i] = @ - 1] /\ i' = i + 1
        /\ UNCHANGED <<web, mpc, f_flags, countVars, ndone, tpc, mutex, rs, rset, wset>>
     \/ /\ f_flags[i] = 2 /\ i \in rs /\ chunks[i] = 0
        /\ f_flags' = [f_flags EXCEPT ![i] = 4] /\ rset' = Cleared(i) /\ i' = i + 1
        /\ nconn' = nconn - 1 /\ nlefttoread' = nlefttoread - 1
        /\ UNCHANGED <<web, mpc, nlefttoconn, ndone, tpc, mutex, rs, wset, chunks>>
     \/ /\ i \notin rs \/ f_flags[i] \notin {1, 2}
        /\ i' = i + 1
        /\ UNCHANGED <<web, mpc, f_flags, countVars, ndone, tpc, mutex, selVars>>

AllReady ==
  /\ mpc = "ready" /\ i > NFILES /\ mpc' = "loop"
  /\ UNCHANGED <<web, i, f_flags, countVars, ndone, tpc, mutex, selVars>>

-----------------------------------------------------------------------------
MainStep == HomePage \/ Start \/ Mark \/ Finish \/ JoinAny \/ MainLock \/ Scan \/ MainUnlock
            \/ Select \/ Ready \/ AllReady
ThreadStep(f) == ThreadConnect(f) \/ ThreadRead(f) \/ ThreadLock(f) \/ ThreadUnlock(f)
Next == MainStep \/ \E f \in Files : ThreadStep(f)

\* Threads are scheduled, the mutex is not kept from one for ever, and the
\* server answers everybody in the end.
Fairness == /\ WF_webvars(MainStep) /\ SF_webvars(MainLock)
            /\ \A f \in Files : /\ WF_webvars(ThreadStep(f)) /\ SF_webvars(ThreadLock(f))
                                /\ SF_webvars(Ready /\ i = f /\ f \in rs)
Spec == Init /\ [][Next]_webvars /\ Fairness

-----------------------------------------------------------------------------
Open == {f \in Files : f_flags[f] \in {1, 2}}

\* The counters tell the truth whenever the loop tests them: nconn transfers are
\* under way, never more than were asked for, none is forgotten and none is counted
\* twice; so there is a file to be found whenever one is left to start, and the
\* err_quit("nothing found") is never reached (threads/web03.c:56-85,
\* nonblock/web.c:33-74).
CountsRight ==
  mpc \in {"loop", "wait", "end"} /\ web # "web02" =>
    /\ nconn <= MAXNCONN /\ nconn = nlefttoread - nlefttoconn
    /\ nlefttoconn = Cardinality(Unstarted)
    /\ nlefttoread = Cardinality({f \in Files : IF web = "nonblock" THEN f_flags[f] # 4
                                                ELSE tpc[f] # "joined"})

\* select() is never given a descriptor that is closed, and a file that is open
\* is always waited for (nonblock/web.c:64-72).
SetsOpen == web = "nonblock" => rset = Open /\ wset \subseteq {f \in Files : f_flags[f] = 1}

\* web01 and nonblock/web fetch everything, unless a call fails.
FetchesAll == web \in {"web01", "nonblock"} => <>(mpc \in {"end", "error"})

\* "Wait for thread to terminate" (threads/web03.c:71), which ends when it has.
AllJoined == <>(mpc \in {"end", "error"})
=============================================================================
