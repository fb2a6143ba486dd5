\* fee: all 65,536 operand pairs of an 8-bit word.
\* decimal: words of 6 bits (q_factor 6, r_factor 4, as 2^6 = 6 * 10 + 4),
\* buffers of 0..4 bytes, the fee buffer of 40 bytes of tx_display_t.
\* base58: bytes of 3 bits and radix 5 keep the ratio of the code's 8 bits
\* to radix 58 (a digit holds less than a byte); three bytes need at most 4
\* digits, so MAX_B58_LEN = 4 puts the scratch guard at its edge.
CONSTANTS
    FEE_HALF_BITS = 4
    WORD_BITS = 6
    U64_BUF_LEN = 24
    FEE_BUF_LEN = 48
    MAX_OUT_LEN = 4
    FEE_MAX_LEN = 40
    BYTE_BASE = 8
    RADIX = 5
    MAX_INPUT_LEN = 3
    MAX_B58_LEN = 4
    MAX_ADDR_OUT_LEN = 7
SPECIFICATION Spec
INVARIANT FeeIsExactProduct
INVARIANT U64DecimalExact
INVARIANT FeeTextExact
INVARIANT Base58Exact
