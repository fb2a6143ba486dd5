CONSTANTS
    BYTE_BITS = 1
    U64_WIDTH = 2
    ADDRESS_LEN = 2
    MAX_TX_SIZE = 8192
    MAX_CHUNK = 3
SPECIFICATION Spec
INVARIANT TypeOK
INVARIANT StreamMatchesOneShot
