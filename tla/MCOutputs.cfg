SPECIFICATION PartsSpec
CONSTANTS
    k1 = k1
    k2 = k2
    p1 = p1
    p2 = p2
    c1 = c1
    c2 = c2
    None = None
    Nil = Nil
    NoteKeys <- MCKeys
    Channels = {0, 1}
    ChannelOf <- MCChannelOf
    Ports = {p1, p2}
    Names = {"synth"}
    NameOf <- MCNameOf
    Frames <- MCFrames
    DeviceSets <- MCDeviceSets
    MaxGen = 2
    MaxMidiPanics = 1
    MaxFaults = 1
    Keys = {0}
    Velocities = {1}
    MaxVoices = 1
    MaxPanics = 12
    MaxStamp = 3
    Configurations = {c1, c2}
    MaxCalls = 3
INVARIANTS
    SoundingNotesAreOwned
    IdleMatchesLatest
    PanicCoversAccepted
    DeviceFollowsState
PROPERTIES
    PanicIsServed
CHECK_DEADLOCK FALSE
