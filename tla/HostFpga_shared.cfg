SPECIFICATION Spec
CONSTANTS
  Channels = {0, 1}
  Pids = {0, 17}
  Area40ms = 2
  Downloads <- MCDownloads
  Maps <- MCMaps
  Rates <- MCRates
  READAHEAD = 2
  MaxReads = 4
  MaxOps = 3
INVARIANTS SiIsLast SettingsApplied ReadIsRight
PROPERTIES SendsAgain
CHECK_DEADLOCK FALSE
