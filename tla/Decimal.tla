------------------------------ MODULE Decimal ------------------------------
(***************************************************************************)
(* The decimal renderings of src/src/tx_display.c: format_u64_decimal and  *)
(* format_fee.  Values are words of WORD_BITS bits (64 in the code) and    *)
(* every intermediate is reduced modulo 2^WORD_BITS, as uint64_t is.  A    *)
(* rendered text is a record: [digits |-> s] for a decimal string whose    *)
(* characters are the digits of s (most significant first), [word |->      *)
(* "Overflow"] for the fee's overflow text, and Untouched when the buffer  *)
(* is not written at all.                                                  *)
(***************************************************************************)
EXTENDS Integers, Sequences, SequencesExt

CONSTANTS
    WORD_BITS,     \* width of uint64_t
    U64_BUF_LEN,   \* char buf[24] of format_u64_decimal
    FEE_BUF_LEN    \* char buf[48] of format_fee

WORD == 2^WORD_BITS
U64(x) == x % WORD

Untouched == [untouched |-> TRUE]
Empty == [digits |-> <<>>]             \* out[0] = '\0'
OverflowWord == [word |-> "Overflow"]
OVERFLOW_LEN == 8                      \* strlen("Overflow")

\* The digits produced least significant first by `buf[pos++] = '0' +
\* value % 10; value /= 10`, while value > 0 and pos < cap.
RECURSIVE DigitsReversed(_, _)
DigitsReversed(value, cap) ==
    IF value > 0 /\ cap > 0
    THEN <<value % 10>> \o DigitsReversed(value \div 10, cap - 1)
    ELSE <<>>

\* Variant whose size check forgets the terminator, for mutation analysis.
EmitWithoutTerminator(rev, out_len) ==
    IF Len(rev) > out_len THEN [len |-> 0, text |-> Empty]
    ELSE [len |-> Len(rev), text |-> [digits |-> Reverse(rev)]]

\* Copying buf into out back to front, with the size check before it.
Emit(rev, out_len) ==
    IF Len(rev) + 1 > out_len THEN [len |-> 0, text |-> Empty]
    ELSE [len |-> Len(rev), text |-> [digits |-> Reverse(rev)]]

\* format_u64_decimal(value, out, out_len).
FormatU64Decimal(value, out_len) ==
    CASE out_len = 0 -> [len |-> 0, text |-> Untouched]
      [] value = 0 /\ out_len < 2 -> [len |-> 0, text |-> Empty]
      [] value = 0 -> [len |-> 1, text |-> [digits |-> <<0>>]]
      [] OTHER -> Emit(DigitsReversed(value, U64_BUF_LEN), out_len)

(***************************************************************************)
(* One pass of format_fee's 128-bit loop: divide hi:lo by 10 using         *)
(* 2^64 = q_factor * 10 + r_factor, every product and sum in 64 bits.      *)
(***************************************************************************)
Q_FACTOR == WORD \div 10
R_FACTOR == WORD % 10

DivideBy10(lo, hi) ==
    LET hi_rem == hi % 10
        lo_contrib == U64(hi_rem * R_FACTOR + lo)
    IN  [lo |-> U64(hi_rem * Q_FACTOR + lo_contrib \div 10),
         hi |-> hi \div 10,
         rem |-> lo_contrib % 10]

RECURSIVE WideDigitsReversed(_, _, _)
WideDigitsReversed(lo, hi, cap) ==
    IF (lo # 0 \/ hi # 0) /\ cap > 0
    THEN LET d == DivideBy10(lo, hi)
         IN  <<d.rem>> \o WideDigitsReversed(d.lo, d.hi, cap - 1)
    ELSE <<>>

\* Variant that ignores the overflow flag, for mutation analysis.
FormatFeeIgnoringFlag(fee_low, fee_high, overflow, out_len) ==
    CASE out_len = 0 -> [len |-> 0, text |-> Untouched]
      [] fee_high = 0 -> FormatU64Decimal(fee_low, out_len)
      [] OTHER -> Emit(WideDigitsReversed(fee_low, fee_high, FEE_BUF_LEN), out_len)

\* format_fee(fee_low, fee_high, overflow, out, out_len).
FormatFee(fee_low, fee_high, overflow, out_len) ==
    CASE out_len = 0 -> [len |-> 0, text |-> Untouched]
      [] overflow /\ OVERFLOW_LEN + 1 > out_len -> [len |-> 0, text |-> Empty]
      [] overflow -> [len |-> OVERFLOW_LEN, text |-> OverflowWord]
      [] fee_high = 0 -> FormatU64Decimal(fee_low, out_len)
      [] OTHER -> Emit(WideDigitsReversed(fee_low, fee_high, FEE_BUF_LEN), out_len)

----------------------------------------------------------------------------
(* Reference: the decimal numeral of n, most significant digit first.      *)

RECURSIVE Numeral(_)
Numeral(n) == IF n < 10 THEN <<n>> ELSE Numeral(n \div 10) \o <<n % 10>>

\* What a decimal formatter with a buffer of out_len bytes should produce.
Rendered(n, out_len) ==
    CASE out_len = 0 -> [len |-> 0, text |-> Untouched]
      [] Len(Numeral(n)) + 1 > out_len -> [len |-> 0, text |-> Empty]
      [] OTHER -> [len |-> Len(Numeral(n)), text |-> [digits |-> Numeral(n)]]
============================================================================
