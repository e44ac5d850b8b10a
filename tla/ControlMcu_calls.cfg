SPECIFICATION McuSpec
CONSTANTS
  Products = {1, 4}
  ParamCmds = {"tunner1_param"}
  StatusCmds = {"tunner1_status"}
  Params = {"p", "q"}
  MaxCalls = 2
INVARIANTS AnswerIsRight
PROPERTIES CallsEnd ChipRecovers
CHECK_DEADLOCK FALSE
