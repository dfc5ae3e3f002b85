SPECIFICATION MCSpec
CONSTANTS
  NSEAT = 3 ROOMCAP = 3 Rosters <- Mixed HAND = 1
  SKIP = 0 REVERSE = 1 DRAW2 = 2 WILD = 3 DRAW4 = 4 NCARD = 5
  LONG_MAX = 2 MaxReshuffle = 0
  Played = {"game"}
  Kinds = {"reverse", "draw2"} TableHand = 2 TableCards = 30 TableLongMax = 2 MaxTyped = 3
PROPERTY CaughtIsNamed
CHECK_DEADLOCK FALSE
