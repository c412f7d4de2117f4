SPECIFICATION PresenceFairSpec
CONSTANTS
    tab1 = tab1
    tab2 = tab2
    anna = anna
    Clients = {tab1, tab2}
    Logins = {anna}
    LoginOf <- MCPresence_LoginOf
    StaleAfter = 2
    MaxLate = 2
INVARIANTS PresenceSound ConnectedNeverStale
PROPERTIES CandleGoesOut
