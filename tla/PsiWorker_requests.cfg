\* The two threads that ask for a parse.
CONSTANTS
    FpThread = fp_thread
    Agent = agent
    MaxQueue = 3
SPECIFICATION WorkerFairSpec
INVARIANTS WorkerTypeOK BusyHasCause RequestsServed
PROPERTIES BusyEnds
