SPECIFICATION PartsSpec
CONSTANTS
    c1 = c1
    c2 = c2
    f1 = f1
    f2 = f2
    r1 = r1
    r2 = r2
    Nil = Nil
    Cells <- MCCells
    ReadAttempts = 3
    MaxSequence = 3
    TrackSteps = 3
    Durations = {3, 6}
    Grain = 2
    MaxTime = 8
    MaxEdits = 2
INVARIANTS
    ImageIsWhole
    PreviewsAreCurrent
    SurfacesConverge
PROPERTIES
    HandshakeEnds
    EditorsSurvive
    RegionStaysSound
    DragKeepsArrangement
CHECK_DEADLOCK FALSE
