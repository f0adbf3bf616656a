CONSTANTS
    Models = {m1, m2}
    NoModel = NoModel
    Drivers = {d1, d2}
    Base = Base
    NoDriver = NoDriver
    Versions <- SomeVersions
    Garbled = Garbled
    NoVersion = NoVersion
    Any = Any
    Ranges <- SomeRanges
    MaxRanges = 2
SPECIFICATION Spec
CHECK_DEADLOCK FALSE
INVARIANTS
    SameVersionsResolveAlike
    RangesHaveNoGaps
    OthersDoNotMatter
PROPERTIES
    DecidedStays
