CONSTANTS
  MAXPLAYER = 2
  NROOM = 1
  NSEAT = 4
  ROOMCAP = 3
  MaxNodes = 2
  MaxRaces = 1
  MaxMisreads = 0
  Requests = {"create", "join", "random", "leave", "start", "eof"}
SPECIFICATION Spec
INVARIANTS
  TypeOK
  SeatCount
  OneReader
  BooksRight
PROPERTY GameRosterFixed
VIEW LiveView
