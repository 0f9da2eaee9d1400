\* Slots one after the other or overlapping: two readers, a story's
\* card, three runs one at a time or all alive at once.
SPECIFICATION MCSpec
CONSTANTS
    Users = {u1, u2}
    Events = {s}
    Stories = {s}
    Scope <- MCScope
    MaxRuns = 3
    MaxLive = 3
    Loner = u1
    Threshold = 2
 
PROPERTIES ImplementsOutbox
CHECK_DEADLOCK FALSE
