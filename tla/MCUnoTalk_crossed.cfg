SPECIFICATION Spec
CONSTANTS
  MAXPLAYER = 2 NSEAT = 3 ROOMCAP = 2
  Names = {"ann", "bob"}
  MaxStarts = 2 MaxAsked = 2
INVARIANT AnswerComesFirst
CHECK_DEADLOCK FALSE
