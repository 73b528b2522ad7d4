SPECIFICATION Spec
CONSTANTS
    client = client
    server = server
    Peers = {client, server}
    Clients = {client}
    Servers = {server}
    HistorySize = 2
    NumMod = 4
    Threshold = 2
    RetryCount = 1
    InactiveThld = 1
    TxRoom = 2
    MaxData <- MCMaxData
    ClientData = 4
    ServerData = 0
    MaxLoss = 2
    MaxOpen = 2
CHECK_DEADLOCK FALSE
INVARIANTS TypeOK HistoryConsecutive ConnectedHasRoom InOrder AckedWasTaken
