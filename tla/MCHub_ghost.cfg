SPECIFICATION HubSpec
CONSTANTS
    tab1 = tab1
    tab2 = tab2
    anna = anna
    bess = bess
    Clients = {tab1, tab2}
    Logins = {anna, bess}
    LoginOf <- MCHub_LoginOf
    RegBuffer = 2
    SendBuffer = 2
    BroadcastBuffer = 1
INVARIANT ListedAlive
CHECK_DEADLOCK FALSE
