CONSTANTS
    GridSize = 3
    Places <- FourPlaces
    Viewers <- SomeViewers
    Radii = {9, 13, 17}
    MaxPoints = 2
    MaxTime = 3
    Second = 2
    MaxClock = 5
    MaxSent = 2
SPECIFICATION Spec
INVARIANTS
    TypeOK
    TrailComplete
    TrailTrimmed
    RoomsReachRadius
    NearPlayersHeard
CHECK_DEADLOCK FALSE
