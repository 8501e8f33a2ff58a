\* Limits that four requests, two at a time, can exceed; a session in which a
\* token can run out; pages that can send three charges and three top-ups.
CONSTANTS
    Requests = {r1, r2}
    Addresses = {ip}
    Cards = {uid}
    Short = 1
    Long = 3
    GlobalLimit = 3
    ErrorLimit = 2
    TapLimit = 1
    LoginLimit = 2
    MaxTime = 2
    MaxSent = 4
    MaxFaults = 1
    Tills = {till}
    Calls = {c1, c2}
    SessionAge = 2
    CsrfAge = 2
    MaxClock = 4
    Prices = {1, 2}
    MaxPosts = 3
    MaxSends = 3
SPECIFICATION OneMovesSpec
SYMMETRY Symmetry
CHECK_DEADLOCK FALSE
INVARIANTS
    FrontDoorTypeOK
    NoEarlyRefusal
    LimitHeld
    TillKeepsPosting
    SecondChargeIsPressed
    ApprovedIsCharged
    RepeatIsReported
PROPERTIES
    ServedMeansLoggedIn
    OverlayListens
