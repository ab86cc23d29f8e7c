SPECIFICATION AnySpec
CONSTANTS
    Templates <- FileTemplates
    Below <- FileRest
    MaxEdits = 2
    Nearby = 1
    MaxRuns = 3
    MaxMishaps = 1
    MaxGenEvents = 4
    MaxLspEvents = 4
    MaxInbox = 2
INVARIANTS
    TreeSettled
    EditorFresh
PROPERTIES
    FileKept
    UserKept
