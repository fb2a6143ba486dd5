------------------------------ MODULE Base58 -------------------------------
(***************************************************************************)
(* base58_encode and sumchain_address_to_base58 of src/src/address.c.     *)
(* The input is a sequence of bytes in 0..BYTE_BASE-1 (256 in the code),  *)
(* the radix is RADIX (58).  An output character is represented by its    *)
(* index in BASE58_ALPHABET, so '1' is 0; a written text is [b58 |-> s],  *)
(* and Untouched stands for a buffer the function does not write.         *)
(***************************************************************************)
EXTENDS Integers, Sequences, SequencesExt

CONSTANTS
    BYTE_BASE,      \* values of a uint8_t
    RADIX,          \* 58
    MAX_INPUT_LEN,  \* #define MAX_INPUT_LEN 32
    MAX_B58_LEN     \* #define MAX_B58_LEN 45, the size of b58_rev

Untouched == [untouched |-> TRUE]
Empty == [b58 |-> <<>>]                 \* out[0] = '\0'
Rejected == [len |-> 0, text |-> Empty]

\* `while (leading_zeros < in_len && buf[leading_zeros] == 0)
\* leading_zeros++`, with 0-based positions as in the code.
RECURSIVE SkipZeros(_, _)
SkipZeros(buf, start) ==
    IF start < Len(buf) /\ buf[start + 1] = 0
    THEN SkipZeros(buf, start + 1) ELSE start

\* The inner for loop: divide buf[i..] by RADIX in place, carrying the
\* remainder; returns the quotient buffer and the final carry.
RECURSIVE DivideFrom(_, _, _)
DivideFrom(buf, i, carry) ==
    IF i >= Len(buf) THEN [buf |-> buf, carry |-> carry]
    ELSE LET c == carry * BYTE_BASE + buf[i + 1]
         IN  DivideFrom([buf EXCEPT ![i + 1] = c \div RADIX], i + 1, c % RADIX)

RECURSIVE Convert(_, _, _)

\* Variant whose scratch guard is one digit too eager, for mutation analysis.
ConvertGuardOffByOne(buf, start, rev) ==
    IF start >= Len(buf) THEN [ok |-> TRUE, rev |-> rev]
    ELSE LET d == DivideFrom(buf, start, 0)
         IN  IF Len(rev) + 1 >= MAX_B58_LEN THEN [ok |-> FALSE, rev |-> rev]
             ELSE Convert(d.buf, SkipZeros(d.buf, start), Append(rev, d.carry))

\* The while (start < in_len) loop: one division pass, the scratch guard
\* `b58_len >= MAX_B58_LEN`, the digit stored in b58_rev, and the skip of
\* the quotient's new leading zeros.  ok is FALSE on the scratch overflow.
Convert(buf, start, rev) ==
    IF start >= Len(buf) THEN [ok |-> TRUE, rev |-> rev]
    ELSE LET d == DivideFrom(buf, start, 0)
         IN  IF Len(rev) >= MAX_B58_LEN THEN [ok |-> FALSE, rev |-> rev]
             ELSE Convert(d.buf, SkipZeros(d.buf, start), Append(rev, d.carry))

\* base58_encode(in, in_len, out, out_len).
Base58Encode(in, out_len) ==
    CASE out_len = 0 -> [len |-> 0, text |-> Untouched]
      [] Len(in) = 0 \/ Len(in) > MAX_INPUT_LEN -> Rejected
      [] OTHER ->
           LET z == SkipZeros(in, 0)
               c == Convert(in, z, <<>>)
           IN  IF ~c.ok \/ z + Len(c.rev) + 1 > out_len THEN Rejected
               ELSE [len |-> z + Len(c.rev),
                     text |-> [b58 |-> [i \in 1..z |-> 0] \o Reverse(c.rev)]]


----------------------------------------------------------------------------
(* Reference (spec 4.2): z copies of '1' for the z leading zero bytes,     *)
(* then the positional base-RADIX numeral of the input's big-endian value. *)

ValueOf(in) == FoldLeft(LAMBDA acc, b : acc * BYTE_BASE + b, 0, in)

RECURSIVE RadixNumeral(_)
RadixNumeral(n) ==
    IF n = 0 THEN <<>> ELSE RadixNumeral(n \div RADIX) \o <<n % RADIX>>

LeadingZeroCount(in) ==
    Max({k \in 0..Len(in) : \A i \in 1..k : in[i] = 0})

Expected(in, out_len) ==
    LET s == [i \in 1..LeadingZeroCount(in) |-> 0] \o RadixNumeral(ValueOf(in))
    IN  CASE out_len = 0 -> [len |-> 0, text |-> Untouched]
          [] Len(in) = 0 \/ Len(in) > MAX_INPUT_LEN -> Rejected
          [] Len(s) + 1 > out_len -> Rejected
          [] OTHER -> [len |-> Len(s), text |-> [b58 |-> s]]
============================================================================
