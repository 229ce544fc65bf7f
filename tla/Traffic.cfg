SPECIFICATION TrafficSpec
CONSTANTS
    MaxLines = 3
    MaxRolls = 2
    Keep = 1
    Chunk = 1
    Passes = 2
    Budget = 2
    Windows = {2}
    MaxCrashes = 1
INVARIANTS OncePerName CompleteIsAll
PROPERTIES CopiesCounted
