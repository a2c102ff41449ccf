SPECIFICATION Spec
CONSTANTS
    Slot = {s1}
    CidrV4 = {all}
    CidrV6 = {host}
    DefaultRoute = {all}
    Connected = net
    TableNumber <- MCTableNumber
    Wanted <- MCWanted
    RouteTableOffset = 300
    RulePrioOffset = 3
    MaxMainRules = 2
    MaxBacklog = 0
    MaxOps = 4
    MaxFaults = 0
INVARIANT LinuxRuleStays
CHECK_DEADLOCK FALSE
