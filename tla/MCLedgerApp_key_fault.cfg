CONSTANTS
    h = h
    u = u
    Zero = Zero
    NoData = NoData
    BUILD = "device"
    Components <- MCComponents
    Hardened <- MCHardened
    PathWires <- MCPathWires
    TxSamples <- MCTxSamples
    BYTE_BITS = 1
    U64_WIDTH = 2
    ADDRESS_LEN = 1
    MAX_TX_SIZE = 8192
    MAX_CHUNK = 3
SPECIFICATION Spec



PROPERTY KeyAnswersGenuine
