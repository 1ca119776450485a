SPECIFICATION Spec
CONSTANTS
    SeqMod = 16
    Jump = 4
    Rfc1337 = TRUE
    PeerIsns <- Wrap
    OurIsns <- JumpTo0
    Fresh <- TwoFresh
    Data = 1
    Wnd = 2
    Confs <- AllConfs
CHECK_DEADLOCK FALSE
INVARIANTS OldSegmentsHarmless Graceful 
