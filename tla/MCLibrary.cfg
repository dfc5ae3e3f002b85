SPECIFICATION MCSpec
CONSTANTS
  MAXLINE = 3 NBYTE = 3 Versions = {"static", "thread", "fd", "none"}
  HEX = 2 DEC = 2 OCTET = 1 INADDRSZ = 2 NWORD = 3 MaxText = 8
  MaxAddrs = 2
INVARIANTS LinesRight TextsRight ListRight NothingKept
CHECK_DEADLOCK FALSE
