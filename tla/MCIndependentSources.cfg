SPECIFICATION PartsSpec
CONSTANTS
    Nodes = {1, 2}
    Cameras = {2}
    Plans <- MCSourcePlans
    MaxEvents = 5
    s1 = s1
    s2 = s2
    Sources = {s1, s2}
    None = None
    MaxStamp = 3
    Activations <- MCPlans
PROPERTIES
    SourcesAreIndependent
CHECK_DEADLOCK FALSE
