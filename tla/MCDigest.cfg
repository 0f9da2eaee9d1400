\* One reader with the daily and the weekly slot at work at the same time, and two
\* readers on the weekly slot; one card, one fault.
SPECIFICATION MCSpec
CONSTANTS
    Users = {1, 2}
    Events = {e}
    daily = daily
    weekly = weekly
    Slots = {daily, weekly}
    CadenceOf <- MCCadenceOf
    Threshold = 1
    MaxFaults = 1
    MaxChanges = 2
    About = {"overlap", "settles"}
INVARIANTS MailsAreAccounted LinksResolve
PROPERTIES ImplementsOutbox QueuedIsSettled
CHECK_DEADLOCK FALSE
