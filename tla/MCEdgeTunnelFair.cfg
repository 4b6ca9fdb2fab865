SPECIFICATION FairSpec
CONSTANTS
    Me = "edge"
    Peers = {"relay"}
    Ghosts = {}
    Handlers = {}
    Proxies = {}
    MaxTasks = 0
    Modes = {TRUE}
    Configs <- ThreeConfigs
    Capacity = 1
    MaxRounds = 2
    MaxBreaks = 1
PROPERTIES
    ConfigTakesEffect
    StopEnds
    RelaysReconnect
CHECK_DEADLOCK FALSE
