SPECIFICATION QSpec
CONSTANTS
    Link = 20
    Unload = 1
    Levels = {3, 18, 20}
    Loads = {0, 2, 17}
    Period = 2
    Trips = {1}
    Scale = 5
    PingLimits = {0, 3}
    PingLimitMin = 6
    PingLimitMax = 14
    InitStart = 2
    InitEnd = 2
    Width = 5
    MaxLate = 1
    Structures = {"A", "B"}
    MaxRebuilds = 1
    Refusals = FALSE
PROPERTY MeasuresUnloaded
CHECK_DEADLOCK FALSE
