CONSTANTS
    Flows = {f, g}
    Hosts = {h1, h2}
    Safe = {h1, h2}
    Creds = {c1}
    Entries = {e1, e2}
    Paths = {p, d}
    Catalogue = {}
    Dropped = {d}
    Pushed = {p, q, d}
    Known = {}
    Pruned = {d}
    MaxOld = 2
    Calls = {k}
    Asked = {"login", "ptz_positions"}
    Lights = 2
    Static <- StaticScenes
    Dynamic <- DynamicScenes
    Hubs = {hub}
    Services = {"v4", "v6"}
    Did <- OneHub
    Walkers = {w1, w2}
    ModelNames = {"m1", "m2"}
    Length = 2
    MaxCalls = 2
    Targets <- TwoTargets
    SelfDevice = "hub"
    Dids = {"d1"}
    Threshold = 2
    TTL = 1
    MaxUps = 2
    MaxLoads = 2
    MaxFails = 1
    h1 = h1
    hub = hub
    kid = kid
    fp = fp
    virt = virt
    r = r
SPECIFICATION PartSpec
INVARIANTS OneEntryPerHub FixTakesEffect RepairIsCurrent AlternateOnlyIfSigned HubsAreFound LoneWalkIsRight BegunPassArms RepairIsEarned
PROPERTIES MovedHubIsKept RemovedIsUnloaded NewPathsAreWritten TunnelCallsSettle
CHECK_DEADLOCK FALSE
