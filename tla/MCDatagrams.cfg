SPECIFICATION MCSpec
CONSTANTS
  QSIZE = 3 MaxDg = 5
  NREQ = 2 NREPLY = 2 NQUEUE = 2
  Waits = {"recv", "select", "alarm", "mask", "pselect", "jump", "pipe", "rtt"} RoundTrips = {0, 90000}
  ClientIds = {1, 2} NSLOT = 2 Ports = {1} NERR = 2
  Protos = {"v4", "v6"} MAXTTL = 2 NPROBES = 2 HOPS = 2 NRAW = 1
  Counts = {0, 2} PreLoads = {0, 2} SEQMOD = 2 NSEND = 4
INVARIANTS RingIndices EchoFIFO OwnAnswer RtoRight OwnErrors
PROPERTIES EveryDatagramEchoed RoundEnds
CHECK_DEADLOCK FALSE
