SPECIFICATION FairSpec
CONSTANTS
    n1 = n1
    ip1 = ip1
    r1 = r1
    r2 = r2
    None = None
    Nodes = {n1}
    Ha = TRUE
    Ips = {ip1}
    Requests = {r1, r2}
    Thresholds = {1}
    Always = 2
    BlockFor <- OneSecond
    BlockUntil = {1}
    Faults = {"restarted", "disconnected"}
    MaxFails = 2
    MaxPending = 1
    StopTime = 1
    MaxTime = 3
INVARIANT ThresholdsAnnounced
PROPERTY ThresholdBlocks
PROPERTY CheckedEntriesGo
CHECK_DEADLOCK FALSE
