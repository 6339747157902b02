SPECIFICATION FairSpec
CONSTANTS
    d1 = d1
    d2 = d2
    Device <- MCDevice
    PeerTimeout = 1
PROPERTY GoneForgotten
PROPERTY LiveFound
