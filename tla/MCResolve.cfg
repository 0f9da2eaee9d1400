SPECIFICATION MCSpec
CONSTANTS
    Namesake = Namesake
    Homonym = Homonym
    Director = Director
    Studio = Studio
    Sibling = Sibling
    m1 = m1
    m2 = m2
    m3 = m3
    s1 = s1
    s2 = s2
    s3 = s3
    Trade = Trade
    NoOutlet = NoOutlet
    People = {Namesake, Homonym, Director}
    Orgs = {Studio, Sibling}
    Articles = {s1, s2, s3}
    Mentions <- MCMentions
    Wrote <- MCWrote
    StoryOf <- MCStoryOf
    Outlet <- MCOutlet
    Link <- MCLink
    Facts <- MCFacts
    SearchOrder <- MCSearchOrder
    Cap = 3
    Limit = 1
    MaxChanges = 1
    About = {"stage", "pair", "cap"}
INVARIANTS
    RecordsAreSound
    ScoringIsFair
PROPERTIES
    BacklogDrains
CHECK_DEADLOCK FALSE
