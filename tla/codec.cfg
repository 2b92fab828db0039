SPECIFICATION FairSpec
CONSTANTS
    Byte = {0, 1, 2, 3}
    kPrependSize = 1
    kInitialSize = 3
    kExtraSize = 2
    kMagicNumber = 2
    kMaxBodySize = 2
    BodyByte = {1, 2}
    MaxBody = 3
    MaxSent = 2
    MaxRaw = 6
    SocketRoom = 4
INVARIANTS CodecInv StreamDecoded
PROPERTIES BytesInOrder SentDelivered
CHECK_DEADLOCK FALSE
