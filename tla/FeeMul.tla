------------------------------ MODULE FeeMul ------------------------------
(***************************************************************************)
(* The fee computation of the transaction parser, tx_parser_compute_fee    *)
(* in src/src/tx_parser.c: the 128-bit product of two unsigned 64-bit      *)
(* words, built from four products of 32-bit halves with explicit carry    *)
(* propagation.  Every intermediate is an unsigned word and wraps as it    *)
(* does in C, so the word width is a parameter: the code has               *)
(* HALF_BITS = 32; a model uses a few bits so that every pair of operands  *)
(* can be enumerated.                                                      *)
(***************************************************************************)
EXTENDS Integers

CONSTANT HALF_BITS   \* bits of a half word (32 in the code)

ASSUME HALF_BITS \in Nat \ {0}

HALF == 2^HALF_BITS          \* 2^32
WORD == 2^(2 * HALF_BITS)    \* 2^64: every uint64_t value is below WORD

\* A uint64_t addition or shift result: arithmetic modulo WORD.
U64(x) == x % WORD

\* Variant that drops the carry out of the middle sum, kept for mutation
\* analysis of FeeIsExactProduct.
ComputeFeeNoMidCarry(a, b) ==
    LET a_lo == a % HALF
        a_hi == a \div HALF
        b_lo == b % HALF
        b_hi == b \div HALF
        lo_lo == a_lo * b_lo
        lo_hi == a_lo * b_hi
        hi_lo == a_hi * b_lo
        hi_hi == a_hi * b_hi
        mid == U64(lo_hi + hi_lo)
        result_lo == U64(lo_lo + U64(mid * HALF))
        carry_to_hi == IF result_lo < lo_lo THEN 1 ELSE 0
        result_hi == U64(hi_hi + mid \div HALF + carry_to_hi)
    IN  [fee_low |-> result_lo, fee_high |-> result_hi,
         fee_overflow |-> result_hi # 0]

(***************************************************************************)
(* tx_parser_compute_fee: the partial products of 32-bit halves fit in a   *)
(* word; the middle sum may wrap, and the wrap is detected by comparing    *)
(* with one addend; the low word may wrap, detected the same way.          *)
(***************************************************************************)
ComputeFee(a, b) ==
    LET a_lo == a % HALF
        a_hi == a \div HALF
        b_lo == b % HALF
        b_hi == b \div HALF
        lo_lo == a_lo * b_lo
        lo_hi == a_lo * b_hi
        hi_lo == a_hi * b_lo
        hi_hi == a_hi * b_hi
        mid == U64(lo_hi + hi_lo)
        carry_from_mid == IF mid < lo_hi THEN 1 ELSE 0
        result_lo == U64(lo_lo + U64(mid * HALF))
        carry_to_hi == IF result_lo < lo_lo THEN 1 ELSE 0
        result_hi == U64(hi_hi + mid \div HALF + carry_from_mid * HALF
                         + carry_to_hi)
    IN  [fee_low |-> result_lo, fee_high |-> result_hi,
         fee_overflow |-> result_hi # 0]
============================================================================
