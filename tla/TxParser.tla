----------------------------- MODULE TxParser -----------------------------
(***************************************************************************)
(* The streaming transaction parser of src/src/tx_parser.c.  A context     *)
(* holds the parse state, the offset within the field being assembled,     *)
(* the scratch bytes of that field, the record parsed so far and the       *)
(* running byte count.  tx_parser_consume absorbs a chunk, field by field, *)
(* and stops early on error or when the transaction is complete.           *)
(*                                                                         *)
(* Data abstraction: a wire byte has BYTE_BITS bits and the multi-byte     *)
(* fields have U64_WIDTH and ADDRESS_LEN bytes (8, 8 and 20 in the code);  *)
(* a model makes them small so that every byte string of a whole           *)
(* transaction can be enumerated.  The scratch buffer is represented by    *)
(* its first field_offset bytes, the only ones the code reads.             *)
(*                                                                         *)
(* The standalone specification feeds arbitrary chunks to one context, as  *)
(* the signing session does, and records in fed the bytes it absorbed.     *)
(***************************************************************************)
EXTENDS Integers, Sequences, SequencesExt

CONSTANTS
    BYTE_BITS,    \* bits of a wire byte (8)
    U64_WIDTH,    \* FIELD_SIZE_CHAIN_ID = _NONCE = _GAS_* = _AMOUNT (8)
    ADDRESS_LEN,  \* FIELD_SIZE_SENDER = FIELD_SIZE_RECIPIENT (20)
    MAX_TX_SIZE,  \* MAX_TX_SIZE of globals.h (8192)
    MAX_CHUNK     \* longest chunk offered to tx_parser_consume

ASSUME /\ BYTE_BITS \in Nat \ {0}
       /\ U64_WIDTH \in Nat \ {0} /\ (U64_WIDTH * BYTE_BITS) % 2 = 0
       /\ ADDRESS_LEN \in 1..32
       /\ MAX_TX_SIZE \in Nat /\ MAX_CHUNK \in Nat \ {0}

VARIABLES
    ctx,   \* the tx_parser_ctx_t
    fed    \* every byte tx_parser_consume has absorbed, in order

vars == <<ctx, fed>>

SCRATCH_LEN == 32                  \* sizeof(ctx->scratch)
TX_TYPE_TRANSFER == 0
BYTE_BASE == 2^BYTE_BITS
Byte == 0..BYTE_BASE-1
WORD == 2^(U64_WIDTH * BYTE_BITS)  \* 2^64

Fee == INSTANCE FeeMul WITH HALF_BITS <- (U64_WIDTH * BYTE_BITS) \div 2

\* The fields of a Transfer in wire order (tx_parse_state_t VERSION..AMOUNT).
FieldStates == <<"VERSION", "CHAIN_ID", "SENDER", "NONCE", "GAS_PRICE",
                 "GAS_LIMIT", "TX_TYPE", "RECIPIENT", "AMOUNT">>
NFIELDS == Len(FieldStates)
ParseStates == {"INIT", "DONE", "ERROR"} \cup Range(FieldStates)

Address == [1..ADDRESS_LEN -> Byte]
ZeroAddress == [i \in 1..ADDRESS_LEN |-> 0]

\* tx_parsed_t after memset(0).
ZeroParsed ==
    [version |-> 0, chain_id |-> 0, sender |-> ZeroAddress, nonce |-> 0,
     gas_price |-> 0, gas_limit |-> 0, tx_type |-> 0,
     recipient |-> ZeroAddress, amount |-> 0,
     fee_overflow |-> FALSE, fee_low |-> 0, fee_high |-> 0]

\* tx_parser_ctx_t after memset(0), i.e. SECURE_ZEROIZE of a session.
ZeroCtx == [state |-> "INIT", field_offset |-> 0, scratch |-> <<>>,
            parsed |-> ZeroParsed, total_consumed |-> 0]

\* get_field_size
FieldSize(st) ==
    CASE st \in {"VERSION", "TX_TYPE"} -> 1
      [] st \in {"CHAIN_ID", "NONCE", "GAS_PRICE", "GAS_LIMIT", "AMOUNT"}
            -> U64_WIDTH
      [] st \in {"SENDER", "RECIPIENT"} -> ADDRESS_LEN
      [] OTHER -> 0

\* read_u64_le: byte i has weight 2^(8*i).
ReadU64LE(s) == FoldRight(LAMBDA b, acc : b + BYTE_BASE * acc, s, 0)

\* Variant that forgets to reset field_offset, for mutation analysis.
AdvanceKeepingOffset(c, st, q) == [c EXCEPT !.state = st, !.parsed = q]

\* A field is stored: next state, and field_offset back to 0.
Advance(c, st, q) == [c EXCEPT !.state = st, !.parsed = q,
                               !.field_offset = 0, !.scratch = <<>>]

(***************************************************************************)
(* process_complete_field: decode the field in the scratch, move to the    *)
(* next state and reset field_offset.  A wrong version or tx_type stores   *)
(* the byte, returns false and leaves field_offset as it is; the caller    *)
(* then sets the ERROR state.  On AMOUNT the fee is computed.              *)
(***************************************************************************)
ProcessCompleteField(c) ==
    LET p == c.parsed
        s == c.scratch
        Fail(q) == [c EXCEPT !.state = "ERROR", !.parsed = q]
    IN CASE c.state = "VERSION" ->
              IF s[1] # 1 THEN Fail([p EXCEPT !.version = s[1]])
              ELSE Advance(c, "CHAIN_ID", [p EXCEPT !.version = s[1]])
         [] c.state = "CHAIN_ID" ->
              Advance(c, "SENDER", [p EXCEPT !.chain_id = ReadU64LE(s)])
         [] c.state = "SENDER" ->
              Advance(c, "NONCE", [p EXCEPT !.sender = s])
         [] c.state = "NONCE" ->
              Advance(c, "GAS_PRICE", [p EXCEPT !.nonce = ReadU64LE(s)])
         [] c.state = "GAS_PRICE" ->
              Advance(c, "GAS_LIMIT", [p EXCEPT !.gas_price = ReadU64LE(s)])
         [] c.state = "GAS_LIMIT" ->
              Advance(c, "TX_TYPE", [p EXCEPT !.gas_limit = ReadU64LE(s)])
         [] c.state = "TX_TYPE" ->
              IF s[1] # TX_TYPE_TRANSFER THEN Fail([p EXCEPT !.tx_type = s[1]])
              ELSE Advance(c, "RECIPIENT", [p EXCEPT !.tx_type = s[1]])
         [] c.state = "RECIPIENT" ->
              Advance(c, "AMOUNT", [p EXCEPT !.recipient = s])
         [] c.state = "AMOUNT" ->
              LET q == [p EXCEPT !.amount = ReadU64LE(s)]
                  f == Fee!ComputeFee(q.gas_price, q.gas_limit)
              IN  Advance(c, "DONE", [q EXCEPT !.fee_low = f.fee_low,
                                            !.fee_high = f.fee_high,
                                            !.fee_overflow = f.fee_overflow])
         [] OTHER -> Fail(p)

\* tx_parser_init: the zeroed context in the VERSION state.
ParserInit == [ZeroCtx EXCEPT !.state = "VERSION"]

\* Variant that copies from the start of the chunk instead of from
\* &data[consumed], for mutation analysis.
TakeBytesFromChunkStart(c, data, consumed, take) ==
    [c EXCEPT !.scratch = @ \o SubSeq(data, 1, take),
              !.field_offset = @ + take,
              !.total_consumed = @ + take]

\* memcpy of `take` bytes from &data[consumed] into the scratch at
\* field_offset, and the three counters advanced.
TakeBytes(c, data, consumed, take) ==
    [c EXCEPT !.scratch = @ \o SubSeq(data, consumed + 1, consumed + take),
              !.field_offset = @ + take,
              !.total_consumed = @ + take]

(***************************************************************************)
(* The while loop of tx_parser_consume, from `consumed` bytes on.  Each    *)
(* round takes the bytes still needed by the current field, or what is     *)
(* left of the chunk, and processes the field once it is complete.         *)
(***************************************************************************)
RECURSIVE ConsumeLoop(_, _, _)
ConsumeLoop(c, data, consumed) ==
    IF consumed >= Len(data) \/ c.state \in {"DONE", "ERROR"}
    THEN [ctx |-> c, consumed |-> consumed]
    ELSE LET fs == FieldSize(c.state)
             needed == fs - c.field_offset
             available == Len(data) - consumed
             take == IF available < needed THEN available ELSE needed
             c1 == TakeBytes(c, data, consumed, take)
             Stop == [ctx |-> [c EXCEPT !.state = "ERROR"], consumed |-> consumed]
         IN  CASE c.total_consumed >= MAX_TX_SIZE -> Stop
               [] fs = 0 -> Stop
               [] c.field_offset + take > SCRATCH_LEN -> Stop
               [] c1.field_offset >= fs ->
                    ConsumeLoop(ProcessCompleteField(c1), data, consumed + take)
               [] OTHER -> ConsumeLoop(c1, data, consumed + take)

\* tx_parser_consume: returns the new context and the bytes absorbed.  Its
\* early return on DONE or ERROR is the loop's own exit condition.
Consume(c, data) == ConsumeLoop(c, data, 0)

IsDone(c) == c.state = "DONE"      \* tx_parser_is_done
HasError(c) == c.state = "ERROR"   \* tx_parser_has_error

----------------------------------------------------------------------------
(***************************************************************************)
(* Reference: what a context must hold after absorbing the byte string b   *)
(* in one piece, computed from the positions of the fields in the wire     *)
(* layout rather than by a loop.  Consumption stops at the first invalid   *)
(* field, so b never extends past it.                                      *)
(***************************************************************************)
FieldName == [VERSION |-> "version", CHAIN_ID |-> "chain_id",
              SENDER |-> "sender", NONCE |-> "nonce",
              GAS_PRICE |-> "gas_price", GAS_LIMIT |-> "gas_limit",
              TX_TYPE |-> "tx_type", RECIPIENT |-> "recipient",
              AMOUNT |-> "amount"]

\* Offset just past field k of the layout.
FieldEnd(k) ==
    LET e[i \in 0..k] == IF i = 0 THEN 0 ELSE e[i-1] + FieldSize(FieldStates[i])
    IN  e[k]

TX_LEN == FieldEnd(NFIELDS)    \* 82 bytes in the code

Slice(b, i) == SubSeq(b, FieldEnd(i-1) + 1, FieldEnd(i))

\* Unsigned little-endian value of a byte string, as a positional sum.
LEValue(s) ==
    LET v[j \in 0..Len(s)] == IF j = 0 THEN 0
                              ELSE v[j-1] + s[j] * BYTE_BASE^(j-1)
    IN  v[Len(s)]

FieldValue(b, i) ==
    CASE FieldStates[i] \in {"SENDER", "RECIPIENT"} -> Slice(b, i)
      [] FieldStates[i] \in {"VERSION", "TX_TYPE"}  -> Slice(b, i)[1]
      [] OTHER                                     -> LEValue(Slice(b, i))

InvalidField(b, i) ==
    \/ FieldStates[i] = "VERSION" /\ FieldValue(b, i) # 1
    \/ FieldStates[i] = "TX_TYPE" /\ FieldValue(b, i) # TX_TYPE_TRANSFER

\* The record with fields 1..k decoded from b, the others zero.
DecodedUpTo(b, k) ==
    LET set(r, i) == [r EXCEPT ![FieldName[FieldStates[i]]] = FieldValue(b, i)]
        d[i \in 0..k] == IF i = 0 THEN ZeroParsed ELSE set(d[i-1], i)
    IN  d[k]

WithExactFee(r) ==
    LET prod == r.gas_price * r.gas_limit
    IN  [r EXCEPT !.fee_low = prod % WORD, !.fee_high = prod \div WORD,
                  !.fee_overflow = prod >= WORD]

OneShot(b) ==
    LET n == Len(b)
        k == CHOOSE j \in 0..NFIELDS :
                FieldEnd(j) <= n /\ (j = NFIELDS \/ n < FieldEnd(j+1))
    IN  CASE \E i \in 1..k : InvalidField(b, i) ->
               [state |-> "ERROR", field_offset |-> FieldEnd(k) - FieldEnd(k-1),
                scratch |-> Slice(b, k), parsed |-> DecodedUpTo(b, k),
                total_consumed |-> n]
          [] k = NFIELDS ->
               [state |-> "DONE", field_offset |-> 0, scratch |-> <<>>,
                parsed |-> WithExactFee(DecodedUpTo(b, k)), total_consumed |-> n]
          [] OTHER ->
               [state |-> FieldStates[k+1], field_offset |-> n - FieldEnd(k),
                scratch |-> SubSeq(b, FieldEnd(k) + 1, n),
                parsed |-> DecodedUpTo(b, k), total_consumed |-> n]

----------------------------------------------------------------------------
(* Standalone specification: one context fed arbitrary non-empty chunks.   *)

Chunks == SeqOf(Byte, MAX_CHUNK) \ {<<>>}

Init == ctx = ParserInit /\ fed = <<>>

\* tx_parser_consume on one chunk.
ConsumeChunk(data) ==
    LET r == Consume(ctx, data)
    IN  /\ ctx' = r.ctx
        /\ fed' = fed \o SubSeq(data, 1, r.consumed)

Next == \E data \in Chunks : ConsumeChunk(data)

Spec == Init /\ [][Next]_vars

ParsedType ==
    [version : Byte, chain_id : 0..WORD-1, sender : Address,
     nonce : 0..WORD-1, gas_price : 0..WORD-1, gas_limit : 0..WORD-1,
     tx_type : Byte, recipient : Address, amount : 0..WORD-1,
     fee_overflow : BOOLEAN, fee_low : 0..WORD-1, fee_high : 0..WORD-1]

\* The context keeps the shape of tx_parser_ctx_t: the scratch holds exactly
\* field_offset bytes, never more than the field being assembled.
TypeOK ==
    /\ ctx.state \in ParseStates
    /\ ctx.parsed \in ParsedType
    /\ ctx.scratch \in Seq(Byte)
    /\ ctx.field_offset = Len(ctx.scratch)
    /\ ctx.state \notin {"DONE", "ERROR", "INIT"} =>
          ctx.field_offset < FieldSize(ctx.state)
    /\ ctx.total_consumed \in 0..MAX_TX_SIZE
    /\ fed \in Seq(Byte)

\* However the bytes are split into chunks, and wherever a chunk boundary
\* falls inside or between fields, the streaming context equals the one a
\* single positional decode of the same bytes gives (spec section 8,
\* property 2): same state, offset, scratch, parsed record and fee, and no
\* byte absorbed past the end of a Transfer or past an invalid field.
StreamMatchesOneShot == ctx = OneShot(fed)
============================================================================
