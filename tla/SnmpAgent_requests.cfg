SPECIFICATION Spec
CONSTANTS
  CHANNEL_MAX_NUM = 2
  PROGRAM_MAX_NUM = 2
  SDT_SECTION_NUM = 1
  EIT_SECTION_NUM = 2
  NODE_NUM = 2
  NODE_MAX_SIZE = 4
  NODE_SIZE = 46
  SUBID_MAX = 16383
  Tables <- MCTables
  Asked <- MCAsked
  MaxBinds = 2
  MaxRequests = 2
INVARIANTS ReachesOwn  ReplyMatches
CHECK_DEADLOCK FALSE
