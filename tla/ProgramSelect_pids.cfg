SPECIFICATION SelectSpec
CONSTANTS
  Stream <- SharedStream
  MaxPid = 13
  UserPids = {0, 1, 4}
  ChanPids = 3
  DataMax = 1
  ProgramMax = 3
  RuleChan = 6
  RuleProg = 3
VIEW Seen
INVARIANTS PidsSound MapIsComplete OfferIsAccepted
