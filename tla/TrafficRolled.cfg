SPECIFICATION TrafficSpec
CONSTANTS
    MaxLines = 3
    MaxRolls = 1
    Keep = 1
    Chunk = 2
    Passes = 2
    Budget = 2
    Windows = {2}
    MaxCrashes = 0
INVARIANT NothingTwice
