\* One film's calendar over four days, and pages of one day or card over three cards.
SPECIFICATION MCSpec
CONSTANTS
    Days = {1, 2, 3, 4}
    Listings <- MCListings
    Lookback = 2
    MaxMissed = 1
    SlateWindow = 2
    MarkerDays = 1
    PastWindow = 1
    MaxEdits = 3
    Offers <- MCOffers
    Listed <- MCListed
    LastKey = 3
    Seconds = {1, 2}
    u1 = u1
    f1 = f1
    s1 = s1
    s2 = s2
    p1 = p1
    c1 = c1
    k1 = k1
    Users = {u1}
    Films = {f1}
    Stories = {s1, s2}
    People = {p1}
    Companies = {c1}
    Collections = {k1}
    Token <- MCToken
    Linked = {f1}
    Limit = 1
    MaxCards = 3
    MaxDay = 2
    About = {"dates", "offers", "videos",
             "person", "company", "franchise", "timeline", "feed", "entity", "grouped"}
SYMMETRY Symmetry
INVARIANTS  CalendarsAgree PollsTellOnce   
PROPERTIES StoredDatesAreNotNews
CHECK_DEADLOCK FALSE
