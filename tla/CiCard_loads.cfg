SPECIFICATION Spec
CONSTANTS
  Pmt <- MCPmt
  MaxCnts = {0, 3}
  CardIds <- MCCardIds
  CardMsgs = {"open_ca", "ca_info", "open_time"}
  CardKinds = {"absent", "hangs", "mute", "works"}
  Selections <- MCSelections
  MaxEvents = 2
INVARIANTS CardIsServed
PROPERTIES ListReachesCard CardGetsReady
CHECK_DEADLOCK FALSE
