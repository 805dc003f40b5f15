SPECIFICATION PlayerSpec
CONSTANTS
    Rates = {normal, fast}
    Default = normal
    Zero = zero
    Invalid = invalid
    TrackLists <- MCTrackLists
    Positions <- MCPositions
    PerMs = 2
    Half = 4
    MaxSinks = 2
INVARIANTS
    HeardAsChosen
    CallsLiveObjects
    SinkHasRate
    PicksWhatIsShown
    TimesSurvive
CHECK_DEADLOCK FALSE
