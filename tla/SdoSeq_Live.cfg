SPECIFICATION FairSpec
CONSTANTS
    client = client
    server = server
    Peers = {client, server}
    Clients = {client, server}
    Servers = {server}
    HistorySize = 2
    NumMod = 4
    Threshold = 2
    RetryCount = 1
    InactiveThld = 1
    TxRoom = 1
    MaxData <- MCMaxData
    ClientData = 1
    ServerData = 1
    MaxLoss = 1
    MaxOpen = 2
CHECK_DEADLOCK FALSE
INVARIANTS NeverWithoutTimer
PROPERTIES HistoryDrains AttemptEnds
