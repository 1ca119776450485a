SPECIFICATION FairSpec
CONSTANTS
    SeqMod = 64
    Jump = 8
    Rfc1337 = FALSE
    Iss <- TwoIss
    Wnd = 2
    Confs <- AllConfs
CHECK_DEADLOCK FALSE
INVARIANTS AckedIsReceived ClosesTruthful ResetHasCause  AssumptionsHold
PROPERTIES BothEnd
