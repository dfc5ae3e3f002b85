SPECIFICATION LiveSpec
CONSTANTS
  MAXPLAYER = 2 NSEAT = 3 ROOMCAP = 2
  Names = {"ann", "bob"}
  MaxStarts = 3 MaxAsked = 3
INVARIANTS NamesDiffer RoomsAgree
PROPERTIES InStep BackInTheEnd
CHECK_DEADLOCK FALSE
