CONSTANTS
  MAXPLAYER = 3
  NROOM = 1
  NSEAT = 4
  ROOMCAP = 3
  MaxNodes = 3
  MaxRaces = 0
  MaxMisreads = 0
  Requests = {"create", "join", "start"}
SPECIFICATION Spec
INVARIANT NobodyLeftInDissolvedRoom
VIEW LiveView
