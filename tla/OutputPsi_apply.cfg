CONSTANTS
  OUTPUT_PSI_PACKET_MAX_NUM = 10
  PROGRAM_MAX_NUM = 3
  Requests <- MCRequests
  Selections <- MCSelections
  FpLens = {40}
  HeapBufs = 10
  MaxApplies = 2
SPECIFICATION Spec
INVARIANTS ContainerSound LoadedInGroups NumbersIdentify
PROPERTY RestartKeepsOutput
CHECK_DEADLOCK FALSE
