SPECIFICATION PartsSpec
CONSTANTS
    Keys = {0, 1, 2}
    Velocities = {1, 2}
    MaxVoices = 2
    MaxPanics = 1
    MaxStamp = 1
    AttackStep = 1
    ReleaseStep = 1
    Top = 2
    None = None
INVARIANTS
    SilencedByPanic
    VoiceAvailable
    NotesAreStrongest
    MemoryIsExact
PROPERTIES
    SoundsAsDesired
CHECK_DEADLOCK FALSE
