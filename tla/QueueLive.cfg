CONSTANTS
    Sources = {s1, s2}
    Top = 1
    MaxBuffer = 2
    MinBuffer = 1
    DrainCalls = {}
    MaxMessages = 2
    MaxSwitches = 2
SPECIFICATION FairSpec
PROPERTIES EverythingLeaves OnlineDelivers TasksEnd
CHECK_DEADLOCK FALSE
