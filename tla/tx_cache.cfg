SPECIFICATION FairSpec
CONSTANTS
    engine = engine
    tun = tun
    console = console
    mux = mux
    Sender <- CacheSender
    Source <- CacheSource
    Ctrl = mux
    Dlci = {1, 2}
    DlciOf <- CacheDlciOf
    PacketLens <- CachePacketLens
    CtrlLen = 2
    FrameSize = 4
    CacheFrames = 3
    DeviceMayFail = TRUE
    KeepaliveOn = TRUE
    MaxPackets = 1
    MaxMsc = 1
    MaxPauses = 0
    MaxRecoveries = 0
INVARIANTS
    
    OnlyFullFramesWait
PROPERTIES
    
    CacheDrains
    SendReturns
CHECK_DEADLOCK FALSE
