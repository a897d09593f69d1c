SPECIFICATION FairSpec
CONSTANTS
    Frames <- MCFrames
    Begin <- MCBegin
    Wire <- MCWire
    HeadLength <- MCHeadLength
    Cuts <- MCCuts
    SendLengths = {0, 124, 126, 65536}
    SendBound = 2
INVARIANTS
    WrittenFramesAreSound
    SettledSoundly
PROPERTIES
    ImplementsChannel
    ConnectSettles
    BreakingIsReported
CHECK_DEADLOCK FALSE
