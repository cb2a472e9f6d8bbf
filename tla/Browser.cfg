\* Two logins at once, two requests of the page under way, one click either way.
CONSTANTS
    ip = ip
    Addresses = {ip}
    MaxLogins = 2
    maxLoginAttempts = 1
    loginAttemptWindow = 1
    sessionDuration = 1
    FirstMonths <- MCFirstMonths
    MaxShift = 1
    MaxEntries = 2
    Stored = {1}
    MaxRequests = 2
SPECIFICATION BrowserSpec
INVARIANTS
    BrowserTypeOK
    FailuresBounded
    RefusedForCause
    LabelFollowsClicks
    FiguresOfLabel
PROPERTIES
    EntryKeptUntilSettled
    LockoutEnds
