CONSTANTS
    Sources = {s1, s2}
    Top = 1
    MaxBuffer = 2
    MinBuffer = 1
    DrainCalls = {TRUE, FALSE}
    MaxMessages = 3
    MaxSwitches = 0
SPECIFICATION Spec
SYMMETRY SourceSymmetry
INVARIANTS TypeOK SleepsOnlyWhenEmpty OvertakenOnce SourceOrder SizeIsQueued DrainNotForgotten DrainedIsEmpty
CHECK_DEADLOCK FALSE
