\* One person on two films, and two persons on one, over four days.
SPECIFICATION MCSpec
CONSTANTS
    annDirects = annDirects
    annActs = annActs
    bobActs = bobActs
    ann = ann
    bob = bob
    first = first
    second = second
    Credits = {annDirects, annActs, bobActs}
    FilmOf <- MCFilmOf
    PersonOf <- MCPersonOf
    TypeOf <- MCTypeOf
    Impossible = {bob}
    Quarantine = 2
    Dwell = 1
    Lookback = 4
    Window = 2
    Burst = 2
    MaxTime = 4
    MaxRows = 3
    MaxStories = 1
    MaxFaults = 1
    About = {"burst", "returns"}
INVARIANTS  CorrectionsMatch LatestCardIsCurrent
PROPERTIES NamesAreEarned
CHECK_DEADLOCK FALSE
