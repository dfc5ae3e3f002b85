SPECIFICATION MCSpec
CONSTANTS
  Sizes <- SmallSizes CAP = 2
  Progs = {"str_cli", "select01", "select02", "advio02", "devpoll", "kqueue", "nonb", "fork", "thread", "thread2"}
  NFILES = 3 MAXNCONN = 2 Webs = {"web01", "web02", "web03", "nonblock"}
  Options = {"s", "u", "i", "o", "h", "D", "L", "N", "f", "H", "J", "K", "F", "I", "W", "g", "E", "x"}
  MaxOptions = 3 NBUF = 2 NKIDS = 2
  MAXNPROBES = 2 NHLINE = 1
  Receivers = {"sigurg", "select", "mark"} NWIN = 2
  NSTRM = 2 NROUND = 2
  NADDR = 2 NWAIT = 2
INVARIANTS DataComesThrough CountsRight SocketReady
PROPERTIES ClientEnds NothingMissed
CHECK_DEADLOCK FALSE
