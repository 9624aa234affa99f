CONSTANTS
    Dids = {"plug", "button"}
    Configured = {"plug", "button"}
    Momentary = {"button"}
    BufferMaxlen = 1
    BufferMaxDids = 1
    MaxValue = 3
    MaxCalls = 2
    MaxSets = 2
    MaxPresses = 2
    MaxOrders = 2
    Traits = {"OnOff", "CurrentLevel"}
    Codecs = {"period", "brightness", "schedule", "region"}
    Minutes = {0, 1439}
    Levels = {0, 100}
    MaxSettings = 2
    Kinds = {"switch", "select", "number", "text", "light", "sensor"}
    Scale = 10
    MaxWrites = 2
    MaxReports = 1
    UserLevels = {1, 128}
    Percents = {2}
    Mireds = {153, 370}
    Coord = 255
    Unit = 1000
    Hues = {20000}
    Colours <- Picked
    Scenes = {"scene"}
    Names = {n1}
    Positions = {q1, q2}
    Recalls = {a1, a2}
    Settings <- OneSetting
    Menu <- ModelMenu
    n1 = n1
    q1 = q1
    q2 = q2
    a1 = a1
    a2 = a2
SPECIFICATION PartSpec
INVARIANT TrueMeansAccepted
CHECK_DEADLOCK FALSE
