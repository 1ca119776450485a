SPECIFICATION FairSpec
CONSTANTS
    NumSacks = 2
    Confs <- AllConfs
CHECK_DEADLOCK FALSE
INVARIANTS StreamWhole ReportsTruthful 
PROPERTIES NothingLost Progress
