\* A page that asks for two months at once.
CONSTANTS
    ip = ip
    Addresses = {ip}
    MaxLogins = 1
    maxLoginAttempts = 1
    loginAttemptWindow = 1
    sessionDuration = 1
    FirstMonths <- MCFirstMonths
    MaxShift = 1
    MaxEntries = 0
    Stored = {}
    MaxRequests = 2
SPECIFICATION BrowserSpec
INVARIANT FiguresMatchLabel
