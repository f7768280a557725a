\* All threads but the accelerometer's, which uses nothing of what the others do.
CONSTANTS
    Workers = {"encoder", "btn", "udp", "joy", "stick", "stickBtn", "display", "player", "beat"}
SPECIFICATION FairSpec
INVARIANTS
    NothingUsedClosed
    WorkersStayWhileRunning
    AbortsOnlyAtShutdown
PROPERTY StopReachesThreads
