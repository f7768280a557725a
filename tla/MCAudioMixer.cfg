\* Two clients, two slots, and blocks shorter than the longer sound.
CONSTANTS
    kick = kick
    crash = crash
    Sounds <- MCSounds
    Length <- MCLength
    MAX_SOUND_BITES = 2
    playbackBufferSize = 2
    Clients = {beat, udp}
    Player = player
    NULL = NULL
SPECIFICATION FairSpec
INVARIANTS
    SlotsInBounds
    DroppedOnlyWhenFull
    BufferOutlivesPlayer
PROPERTIES
    ImplementsVoicePool
    EverySoundEnds
    EveryCallReturns
    CleanupReturns
