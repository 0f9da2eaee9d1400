\* Two accounts with two addresses, and two readers who import with two requests at once.
SPECIFICATION MCSpec
CONSTANTS
    Users = {u1, u2}
    Emails = {a, b}
    Codes = {k}
    Links = {l1, l2}
    Sessions = {s1}
    Requests = {r1, r2}
    SignupOpen = TRUE
    Threshold = 1
    MaxWrites = 2
    Importers = {v1, v2}
    Jobs = {l1, l2}
    Films = {f1}
    Tokens = {t1}
    ImportRequests = {r1, r2}
    NoOne = NoOne
    NoToken = NoToken
    MaxRows = 2
    MaxRestarts = 1
SYMMETRY Symmetry
INVARIANTS  VerifiedIsProved LinksActOnce ListsAgree 
CHECK_DEADLOCK FALSE
