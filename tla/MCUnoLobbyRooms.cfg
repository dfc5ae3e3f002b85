CONSTANTS
  MAXPLAYER = 2
  NROOM = 1
  NSEAT = 3
  ROOMCAP = 2
  MaxNodes = 2
  MaxRaces = 0
  MaxMisreads = 0
  Requests = {"random", "leave"}
SPECIFICATION LiveSpec
PROPERTIES
  EventuallyAdmitted
  RandomRequestEnds
