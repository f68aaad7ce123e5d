CONSTANTS
    Goroutines = {g1, g2}
    Rates = {1, 2}
    TTL = 2
    MaxTime = 4
SPECIFICATION FairSpec
PROPERTIES
    CallsReturn
