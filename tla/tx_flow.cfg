SPECIFICATION FairSpec
CONSTANTS
    engine = engine
    tun = tun
    console = console
    mux = mux
    Sender <- FlowSender
    Source <- FlowSource
    Ctrl = mux
    Dlci = {2}
    DlciOf <- FlowDlciOf
    PacketLens <- FlowPacketLens
    CtrlLen = 2
    FrameSize = 4
    CacheFrames = 2
    DeviceMayFail = FALSE
    KeepaliveOn = TRUE
    MaxPackets = 1
    MaxMsc = 2
    MaxPauses = 1
    MaxRecoveries = 1
INVARIANTS
    TypeOK
    NoStrandedWaiter
    
    
CHECK_DEADLOCK FALSE
