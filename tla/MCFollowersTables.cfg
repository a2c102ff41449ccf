SPECIFICATION Spec
CONSTANTS
    Slot = {s1}
    CidrV4 = {all}
    CidrV6 = {host}
    DefaultRoute = {all}
    Connected = net
    TableNumber <- MCTableNumber
    Wanted <- TwoNames
    RouteTableOffset = 300
    RulePrioOffset = 3
    MaxMainRules = 1
    MaxBacklog = 0
    MaxOps = 3
    MaxFaults = 1
INVARIANT FollowersAgree
CHECK_DEADLOCK FALSE
