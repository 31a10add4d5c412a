SPECIFICATION PartsSpec
CONSTANTS
    Registry <- MCRegistry
    Issues <- MCIssues
    Types = {"difference", "channel_display"}
    Documents <- MCGraphs
    Replacements <- MCReplacements
    Fragments <- MCFragments
    Literals <- MCLiterals
    Files = {1}
    MaxNodes = 4
    MaxCommands = 2
    MaxSelected = 1
    MaxSaves = 3
    MaxFaults = 2
    Docs = {1, 2, 3, 4}
    Paths = {"a"}
    RecentLimit = 1
    MaxEdits = 2
    MaxLoads = 1
    MaxClicks = 3
    MaxCrashes = 1
    MaxFailures = 1
    Nil = Nil
INVARIANTS
    CleanMeansSaved
    EditingStaysSound
    NothingLostNothingLeft
    SaveIsAtomic
    FilesKeepTheirMeaning
PROPERTIES
    UndoIsExact
    DirtyIsAutosaved
CHECK_DEADLOCK FALSE
