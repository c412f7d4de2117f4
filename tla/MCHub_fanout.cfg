SPECIFICATION HubFairSpec
CONSTANTS
    tab1 = tab1
    tab2 = tab2
    anna = anna
    bess = bess
    Clients = {tab1, tab2}
    Logins = {anna, bess}
    LoginOf <- MCHub_LoginOf
    RegBuffer = 1
    SendBuffer = 2
    BroadcastBuffer = 1
INVARIANTS HubSound
PROPERTIES HubIsSockets ClosedClientsEnd
CHECK_DEADLOCK FALSE
