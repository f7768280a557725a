\* Does the cleanup of main end?
CONSTANTS
    Workers = {"encoder", "btn", "udp", "display", "beat"}
SPECIFICATION FairSpec
PROPERTY CleanupCompletes
