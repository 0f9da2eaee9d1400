\* Two persons seen together, one of them held.
SPECIFICATION MCSpec
CONSTANTS
    annDirects = annDirects
    annActs = annActs
    bobActs = bobActs
    ann = ann
    bob = bob
    first = first
    second = second
    Credits = {annActs, bobActs}
    FilmOf <- MCFilmOf
    PersonOf <- MCPersonOf
    TypeOf <- MCTypeOf
    Impossible = {bob}
    Quarantine = 1
    Dwell = 1
    Lookback = 3
    Window = 2
    Burst = 2
    MaxTime = 3
    MaxRows = 2
    MaxStories = 0
    MaxFaults = 0
    About = {"returns"}
INVARIANT ReleasedHoldPublishes
CHECK_DEADLOCK FALSE
