SPECIFICATION Spec
CONSTANTS
    client = client
    server = server
    Peers = {client, server}
    Clients = {client}
    Servers = {server}
    HistorySize = 3
    NumMod = 6
    Threshold = 3
    RetryCount = 1
    InactiveThld = 1
    TxRoom = 2
    MaxData <- MCMaxData
    ClientData = 2
    ServerData = 0
    MaxLoss = 1
    MaxOpen = 1
CHECK_DEADLOCK FALSE
INVARIANTS OnlyDataDelivered
