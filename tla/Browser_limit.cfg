\* The limit of the program, logins one after another, no page.
CONSTANTS
    ip = ip
    Addresses = {ip}
    MaxLogins = 1
    maxLoginAttempts = 5
    loginAttemptWindow = 1
    sessionDuration = 1
    FirstMonths <- MCFirstMonths
    MaxShift = 0
    MaxEntries = 0
    Stored = {}
    MaxRequests = 0
SPECIFICATION BrowserSpec
INVARIANT LoginRateLimited
