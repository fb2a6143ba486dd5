------------------------------ MODULE MCFormat ------------------------------
(***************************************************************************)
(* Checks the arithmetic and text conversions that tx_display_format       *)
(* composes, each against a positional reference, in one state space:     *)
(*   "fee"     tx_parser_compute_fee (FeeMul) on every operand pair of a   *)
(*             word of 2 * FEE_HALF_BITS bits;                             *)
(*   "decimal" format_u64_decimal and format_fee (Decimal), the latter     *)
(*             fed by tx_parser_compute_fee, on every pair of words of     *)
(*             WORD_BITS bits and every buffer size up to MAX_OUT_LEN;     *)
(*   "base58"  base58_encode (Base58) on every input of up to              *)
(*             MAX_INPUT_LEN + 1 small bytes and every output size up to   *)
(*             MAX_ADDR_OUT_LEN.                                           *)
(* unit says which conversion a state checks; the operands are the state   *)
(* and the only step is a stutter, so TLC visits every case once.          *)
(***************************************************************************)
EXTENDS Integers, Sequences

CONSTANTS
    FEE_HALF_BITS,                          \* half-word width for "fee"
    WORD_BITS, U64_BUF_LEN, FEE_BUF_LEN,    \* Decimal's parameters
    MAX_OUT_LEN,     \* largest decimal buffer size tried
    FEE_MAX_LEN,     \* TX_DISPLAY_FEE_MAX_LEN, the fee buffer of tx_display_t
    BYTE_BASE, RADIX, MAX_INPUT_LEN, MAX_B58_LEN,   \* Base58's parameters
    MAX_ADDR_OUT_LEN \* largest Base58 output size tried

Mul == INSTANCE FeeMul WITH HALF_BITS <- FEE_HALF_BITS
Fee == INSTANCE FeeMul WITH HALF_BITS <- WORD_BITS \div 2
Dec == INSTANCE Decimal
B58 == INSTANCE Base58

VARIABLES unit, x, y, out_len, in

vars == <<unit, x, y, out_len, in>>

Init ==
    \/ /\ unit = "fee"
       /\ x \in 0..Mul!WORD-1 /\ y \in 0..Mul!WORD-1
       /\ out_len = 0 /\ in = <<>>
    \/ /\ unit = "decimal"
       /\ x \in 0..Dec!WORD-1 /\ y \in 0..Dec!WORD-1
       /\ out_len \in 0..MAX_OUT_LEN /\ in = <<>>
    \/ /\ unit = "base58"
       /\ x = 0 /\ y = 0
       /\ in \in UNION {[1..n -> 0..BYTE_BASE - 1] : n \in 0..MAX_INPUT_LEN + 1}
       /\ out_len \in 0..MAX_ADDR_OUT_LEN

Next == UNCHANGED vars

Spec == Init /\ [][Next]_vars

\* tx_parser_compute_fee yields the full double-word product of gas_price
\* x and gas_limit y (fee_high * 2^64 + fee_low), and flags fee_overflow
\* exactly when the product does not fit in one word (spec section 8,
\* property 3).
FeeIsExactProduct ==
    unit = "fee" =>
        LET r == Mul!ComputeFee(x, y)
        IN  /\ r.fee_low \in 0..Mul!WORD-1
            /\ r.fee_high \in 0..Mul!WORD-1
            /\ r.fee_high * Mul!WORD + r.fee_low = x * y
            /\ r.fee_overflow <=> x * y >= Mul!WORD

\* format_u64_decimal writes the decimal numeral of its value and returns
\* its length when the buffer holds it and its terminator, and returns 0
\* with an empty string otherwise (tx_display.c lines 9-47).
U64DecimalExact ==
    unit = "decimal" => Dec!FormatU64Decimal(x, out_len) = Dec!Rendered(x, out_len)

\* What tx_display_format shows as the fee of gas_price x and gas_limit y:
\* the text "Overflow" when the product does not fit one word, otherwise the
\* decimal numeral of the product.  This composes tx_parser_compute_fee
\* with format_fee as handle_sign_tx does.
FeeTextExact ==
    unit = "decimal" =>
        LET r == Fee!ComputeFee(x, y)
        IN  Dec!FormatFee(r.fee_low, r.fee_high, r.fee_overflow, FEE_MAX_LEN)
              = IF x * y >= Dec!WORD
                THEN [len |-> Dec!OVERFLOW_LEN, text |-> Dec!OverflowWord]
                ELSE Dec!Rendered(x * y, FEE_MAX_LEN)

\* The comment of format_fee (tx_display.c line 77) promises the decimal of
\* any 128-bit value fee_high * 2^64 + fee_low with fee_high # 0.
WideFeeExact ==
    unit = "decimal" /\ y # 0 =>
        Dec!FormatFee(x, y, FALSE, FEE_MAX_LEN) = Dec!Rendered(y * Dec!WORD + x, FEE_MAX_LEN)

\* base58_encode returns the leading-zero '1's followed by the positional
\* base-58 numeral of the input, or length 0 and an empty string when the
\* input is empty or longer than MAX_INPUT_LEN or when the text and its
\* terminator do not fit out_len; in particular the division loop never
\* runs out of its b58_rev scratch for an accepted input, and the in-place
\* division with the zero skip after every pass loses no digit.
Base58Exact ==
    unit = "base58" => B58!Base58Encode(in, out_len) = B58!Expected(in, out_len)
============================================================================
