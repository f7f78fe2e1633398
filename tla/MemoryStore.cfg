SPECIFICATION MemorySpec
CONSTANTS
  t1 = t1
  UserTurn <- MCTurn
  NoTurn = NoTurn
  MaxMsg = 3
  MaxCli = 2
  MaxFault = 1
INVARIANTS
  SearchMatches
  IndexesAgree
  ConversationIsChat
CHECK_DEADLOCK FALSE
