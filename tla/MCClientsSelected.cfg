SPECIFICATION Spec
CONSTANTS
    None = None
    Torn = Torn
    Command = {j1, j2, j3}
    Project = {x, y}
    Profile = {"a", "b"}
    OnStart = {"b"}
    Manifest <- MCManifest
    MaxRuns = 0
    MaxHands = 0
    j1 = j1
    j2 = j2
    j3 = j3
    x = x
    y = y
    First = First
    Nil = Nil
    Void = Void
    Job = {j1, j2, j3}
    Row = {1, 2}
    Label = {x, y}
    MaxVersion = 1
    MaxPreviews = 2
    MaxOthers = 2
SYMMETRY Symmetry
CONSTRAINT ScreensApart
INVARIANT ActsOnSelected
CHECK_DEADLOCK FALSE
