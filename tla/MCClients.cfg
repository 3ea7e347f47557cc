SPECIFICATION Spec
CONSTANTS
    None = None
    Torn = Torn
    Command = {j1, j2, j3}
    Project = {x, y}
    Profile = {"a", "b"}
    OnStart = {"b"}
    Manifest <- MCManifest
    MaxRuns = 2
    MaxHands = 2
    j1 = j1
    j2 = j2
    j3 = j3
    x = x
    y = y
    First = First
    Nil = Nil
    Void = Void
    Job = {j1, j2, j3}
    Row = {1, 2}
    Label = {x, y}
    MaxVersion = 1
    MaxPreviews = 2
    MaxOthers = 1
SYMMETRY Symmetry
CONSTRAINTS ScreensApart Refreshed
VIEW View
INVARIANTS ProjectsInv HostInv ScreensInv
PROPERTIES PublishedOnce LeavesNoTrace
CHECK_DEADLOCK FALSE
