SPECIFICATION Spec
CONSTANTS
    Me = "edge"
    Peers = {"relay"}
    Ghosts = {}
    Handlers = {"h1", "h2"}
    Proxies = {"x1", "x2"}
    MaxTasks = 2
    Modes = {TRUE, FALSE}
    Configs <- TwoConfigs
    Capacity = 1
    MaxRounds = 1
    MaxBreaks = 0
INVARIANTS
    NamesMatchIds
    ConfiguredAddrsKept
    ServiceFollowsConfig
CHECK_DEADLOCK FALSE
