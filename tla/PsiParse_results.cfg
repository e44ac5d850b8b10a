CONSTANTS
    N = 2
    P = 2
    S = 1
    MaxParses = 2
SPECIFICATION FairSpec
INVARIANTS ReportedIsExact ListedIsComplete
PROPERTIES ReportedIsFinal EveryChannelReported
