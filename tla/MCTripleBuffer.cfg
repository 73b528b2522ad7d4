SPECIFICATION Spec
CONSTANTS
    RxPdos = {}
    TxPdos = {tx}
    SocTimes = {soc}
    MaxProduced = 4
INVARIANTS TypeOK NoTornPayload
PROPERTIES StableWhileUsed BackByOneAtMost
