SPECIFICATION MCSpec
CONSTANTS NCHILD = 2 MsgLen = 2 MAXNCLI = 3 NTHREAD = 2 NWORKER = 3 NCONN = 4 NFEW = 3 NCLIENT = 2 NLINE = 2
INVARIANTS TableRight RingKeepsAll LockRight ZombiesSeen SlotsRight
PROPERTIES ServesOnce ServedInTheEnd
CHECK_DEADLOCK FALSE
