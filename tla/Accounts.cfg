SPECIFICATION MCSpec
CONSTANTS
    Accounts <- ThreeAccounts
    MaxSession = 3
    MaxStarts = 2
    MaxAttempts = 2
    Logins = {root, ann}
    BootstrapLogin = root
    Addresses = {here}
    Requests = {r1, r2}
    MaxRequests = 5
    Scenarios <- Every
INVARIANTS StaleSessionsEnd SerialAdminRemains
PROPERTY BansAndSessionsEnd
CHECK_DEADLOCK FALSE
