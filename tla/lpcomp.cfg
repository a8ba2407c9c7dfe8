\* Everything is bounded by the code itself.
SPECIFICATION Spec
INVARIANTS
    TypeOK
    WatchesForState
PROPERTIES
    WakesUp
