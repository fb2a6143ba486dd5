---------------------------- MODULE LedgerApp ----------------------------
(***************************************************************************)
(* The command loop of the SUM Chain signing application: app_main         *)
(* (src/src/main.c) frames one APDU at a time and apdu_dispatch            *)
(* (src/src/apdu_handlers.c) runs one handler to completion.  The sign     *)
(* handler keeps a session across chunks: the derivation path, a BLAKE3    *)
(* context and a streaming parser context (TxParser) that are both fed     *)
(* every transaction byte.  On the last chunk the parsed record is         *)
(* formatted, shown to the display collaborator, and only an approval      *)
(* leads to finalizing the hash and signing it.                            *)
(*                                                                         *)
(* Each handler is one atomic step, as the code is single threaded and a   *)
(* handler runs to completion.  The two builds differ in the display       *)
(* collaborator and the key primitive: BUILD = "host" uses the stubs that  *)
(* approve every transaction and never fail; BUILD = "device" uses the     *)
(* UX flow, whose buttons are separate steps, and a key derivation that    *)
(* may throw.  Only the device has the I/O reset of main().                *)
(*                                                                         *)
(* Data abstraction: the hash is ideal, so a digest is the byte string it  *)
(* covers; keys, addresses and signatures are records naming the path and  *)
(* the digest they are made from; Zero is an all-zero buffer.              *)
(***************************************************************************)
EXTENDS Integers, Sequences, SequencesExt

CONSTANTS
    BUILD,        \* "host" or "device" (HAVE_BOLOS_SDK)
    Components,   \* derivation path components the host may send
    Hardened,     \* the components with bit 0x80000000 set
    PathWires,    \* path wire forms the host may send: [n, comps]
    Zero,         \* an all-zero buffer (model value)
    NoData,       \* an empty response payload (model value)
    TxSamples,    \* transactions the host streams, as byte strings
    BYTE_BITS, U64_WIDTH, ADDRESS_LEN, MAX_TX_SIZE, MAX_CHUNK

MAX_BIP32_PATH_LEN == 10

ASSUME /\ BUILD \in {"host", "device"}
       /\ Hardened \subseteq Components
       \* A wire carries at most the components its count announces, and a
       \* chunk is shorter than one 4-byte component, so transaction bytes
       \* never complete a truncated path.
       /\ \A w \in PathWires : w.n \in Nat /\ w.comps \in Seq(Components)
                                /\ Len(w.comps) <= w.n
       /\ MAX_CHUNK < 4
       /\ TxSamples \subseteq Seq(0..(2^BYTE_BITS - 1))

VARIABLES
    session,     \* G_state.sign_session
    digest,      \* G_state.hash
    signature,   \* G_state.signature
    pubkey,      \* G_state.pubkey
    exitPath,    \* the local bip32_path_t of the last handler, at its return
    uiResult,    \* G_state.ui_result
    ux,          \* the UX flow on screen: "idle" or "review" (device)
    approval,    \* the call of tx_display_show_approval made by the last
                 \* step (display and result), or NoData
    reviewed,    \* what *g_display_ptr holds, as the review pages read it
    cmd,         \* header of the last APDU handled: cla, ins, p1, p2
    resp         \* the response of the last APDU: status word, payload

vars == <<session, digest, signature, pubkey, exitPath,
          uiResult, ux, approval, reviewed, cmd, resp>>

P == INSTANCE TxParser WITH ctx <- session.parser, fed <- session.hash.fed

Byte == P!Byte

CLA_SUMCHAIN == \hE0
INS_GET_VERSION == 0
INS_GET_APP_NAME == 1
INS_GET_PUBLIC_KEY == 2
INS_GET_ADDRESS == 3
INS_SIGN_TX == 4
P1_FIRST_CHUNK == 0
P1_MORE_CHUNK == \h80
P2_LAST_CHUNK == 0
P2_MORE_CHUNKS == \h80

SW_OK == \h9000
SW_USER_REJECTED == \h6985
SW_INVALID_PATH == \h6A81
SW_INVALID_P1P2 == \h6B00
SW_INS_NOT_SUPPORTED == \h6D00
SW_CLA_NOT_SUPPORTED == \h6E00
SW_WRONG_LENGTH == \h6700
SW_INTERNAL_ERROR == \h6F00
SW_TX_PARSE_ERROR == \h6F01
SW_TX_OVERFLOW == \h6F02
SW_SESSION_ERROR == \h6F03
SW_TX_TOO_LARGE == \h6F04

\* Ideal primitives: each result names what it was computed from.  The host
\* stubs return constant bytes; there the result stands for the arguments
\* the handler passed to the primitive.
Digest(bytes) == [blake3 |-> bytes]
PublicKey(path) == [pubkeyOf |-> path]
AddressString(path) == [base58Of |-> path]
Signature(path, d) == [signer |-> path, over |-> d]
IsSignature(x) == x \in [signer : Seq(Components), over : [blake3 : Seq(Byte)]]

\* The key primitive: the host stubs always succeed ("ok").  On the device
\* os_perso_derive_node_bip32_seed_key may throw, which is caught and
\* returned as false ("throw"); and cx_ecfp_init_private_key_no_throw,
\* cx_ecfp_generate_pair_no_throw or cx_eddsa_sign_no_throw may return an
\* error code that crypto_derive_pubkey and crypto_sign_hash ignore, so
\* they return true over an output buffer the primitive never filled
\* ("silent").  Garbage stands for those undefined bytes.
KeyOutcomes == IF BUILD = "host" THEN {"ok"} ELSE {"ok", "throw", "silent"}
Garbage == [undefined |-> TRUE]
KeyResult(key, value) == IF key = "silent" THEN Garbage ELSE value

----------------------------------------------------------------------------
(* Paths: crypto_parse_path and crypto_validate_path.                      *)

NoWire == [n |-> 0, comps |-> <<>>, absent |-> TRUE]  \* no data at all
WireLen(w) == IF w = NoWire THEN 0 ELSE 1 + 4 * Len(w.comps)

\* crypto_parse_path: the bytes taken by the path (0 on failure) and the
\* path; data_len counts the wire and any transaction bytes after it.
ParsePath(w, data_len) ==
    IF \/ data_len < 1
       \/ w.n = 0 \/ w.n > MAX_BIP32_PATH_LEN
       \/ data_len < 1 + 4 * w.n
    THEN [bytes |-> 0, path |-> <<>>]
    ELSE [bytes |-> 1 + 4 * w.n, path |-> w.comps]

\* crypto_validate_path: 1..10 components, all hardened.
ValidatePath(path) ==
    /\ Len(path) \in 1..MAX_BIP32_PATH_LEN
    /\ \A i \in 1..Len(path) : path[i] \in Hardened

----------------------------------------------------------------------------
(* The streaming hash wrapper of src/src/crypto/sum_blake3.c.              *)

ZeroHashCtx == [initialized |-> FALSE, fed |-> <<>>]
\* Variant of sum_blake3_init that forgets `ctx->initialized = 1`, for
\* mutation analysis.
HashInitUnflagged == [initialized |-> FALSE, fed |-> <<>>]

HashInit == [initialized |-> TRUE, fed |-> <<>>]          \* sum_blake3_init
HashUpdate(h, data) ==                                     \* sum_blake3_update
    IF h.initialized THEN [h EXCEPT !.fed = @ \o data] ELSE h

\* sum_blake3_finalize32(ctx, out32): on an initialized context, writes the
\* digest and clears the flag; otherwise returns leaving out32 as it was.
HashFinalize32(h, out) ==
    IF h.initialized
    THEN [out |-> Digest(h.fed), ctx |-> [h EXCEPT !.initialized = FALSE]]
    ELSE [out |-> out, ctx |-> h]

----------------------------------------------------------------------------
(* The signing session.                                                    *)

ZeroSession == [initialized |-> FALSE, path |-> <<>>, hash |-> ZeroHashCtx,
                parser |-> P!ZeroCtx, total_received |-> 0,
                last_chunk_received |-> FALSE]

\* Variant of reset_sign_session that only clears the flag, for mutation
\* analysis.
ResetFlagOnly(s) == [s EXCEPT !.initialized = FALSE]

\* reset_sign_session: SECURE_ZEROIZE of the whole session.
ResetSignSession(s) == ZeroSession

(***************************************************************************)
(* The transaction bytes of a chunk, fed to the hash and then the parser,  *)
(* once the size check has passed; rejected is the verdict on the parser's *)
(* result r.  sw = 0 means the handler goes on; otherwise the session was  *)
(* reset and sw is returned.  The hash absorbs the bytes before the parser *)
(* judges them; an error discards both.                                    *)
(***************************************************************************)
Feed(s, data, r, rejected) ==
    CASE Len(data) = 0 -> [sw |-> 0, s |-> s]
      [] s.total_received + Len(data) > MAX_TX_SIZE ->
           [sw |-> SW_TX_TOO_LARGE, s |-> ResetSignSession(s)]
      [] rejected -> [sw |-> SW_TX_PARSE_ERROR, s |-> ResetSignSession(s)]
      [] OTHER ->
           [sw |-> 0, s |-> [s EXCEPT !.hash = HashUpdate(s.hash, data),
                                       !.parser = r.ctx,
                                       !.total_received = @ + Len(data)]]

\* Variant that ignores a parser error reported on the chunk's last byte,
\* for mutation analysis.
AbsorbIgnoringError(s, data) ==
    LET r == P!Consume(s.parser, data)
    IN  Feed(s, data, r, r.consumed # Len(data))

\* Variant that accepts bytes the parser left unconsumed, for mutation
\* analysis.
AbsorbIgnoringTrailing(s, data) ==
    LET r == P!Consume(s.parser, data)
    IN  Feed(s, data, r, P!HasError(r.ctx))

\* The chunk is rejected when the parser did not take every byte or is in
\* error after it.
Absorb(s, data) ==
    LET r == P!Consume(s.parser, data)
    IN  Feed(s, data, r, r.consumed # Len(data) \/ P!HasError(r.ctx))

(***************************************************************************)
(* tx_display_format: the strings shown for approval.  The decimal and     *)
(* Base58 renderings are injective, so a field is represented by the value *)
(* it renders; the fee is the text "Overflow" when the flag is set.  The   *)
(* buffers fit every value, so formatting does not fail.                   *)
(***************************************************************************)
OverflowText == [text |-> "Overflow"]

TxDisplayFormat(parsed) ==
    [amount |-> parsed.amount, recipient |-> parsed.recipient,
     fee |-> IF parsed.fee_overflow THEN OverflowText
                                   ELSE [decimal |-> parsed.fee_low],
     chain_id |-> parsed.chain_id, sender |-> parsed.sender,
     nonce |-> parsed.nonce]

(***************************************************************************)
(* tx_display_show_approval.  Host stub: approves.  Device: stores         *)
(* UI_RESULT_NONE, auto-rejects an "Overflow" fee, starts the review flow  *)
(* and returns G_state.ui_result, which the buttons set only later.        *)
(***************************************************************************)
ShowApproval(display) ==
    IF BUILD = "host"
    THEN [result |-> "APPROVED", uiResult |-> uiResult, ux |-> ux]
    ELSE IF display.fee = OverflowText
         THEN [result |-> "REJECTED", uiResult |-> "NONE", ux |-> ux]
         ELSE [result |-> "NONE", uiResult |-> "NONE", ux |-> "review"]

\* The effect of a handler on the variables it may write.
Outcome(sw, s) ==
    [sw |-> sw, data |-> NoData, session |-> s, digest |-> digest,
     signature |-> signature, uiResult |-> uiResult, ux |-> ux,
     approval |-> NoData]

(***************************************************************************)
(* The record is formatted and shown to the display collaborator; on      *)
(* approval the hash is finalized into G_state.hash and signed into       *)
(* G_state.signature, both zeroized after the signature is copied out.    *)
(* Every exit resets the session.  A failing key derivation throws before *)
(* the signature buffer is written.                                       *)
(***************************************************************************)
ApproveAndSign(s, key) ==
    LET display == TxDisplayFormat(s.parser.parsed)
        ui == ShowApproval(display)
        hashed == HashFinalize32(s.hash, digest)
        shown == [Outcome(0, ResetSignSession(s)) EXCEPT
                    !.uiResult = ui.uiResult, !.ux = ui.ux,
                    !.approval = [display |-> display, result |-> ui.result]]
    IN  CASE ui.result # "APPROVED" -> [shown EXCEPT !.sw = SW_USER_REJECTED]
          [] key = "throw" -> [shown EXCEPT !.sw = SW_INTERNAL_ERROR]
          [] OTHER ->
               [shown EXCEPT !.sw = SW_OK,
                  !.data = KeyResult(key, Signature(s.path, hashed.out))]

\* Variant that signs an overflowing fee, for mutation analysis.
FinalizeWithoutOverflowCheck(s, key) ==
    CASE ~P!IsDone(s.parser) -> Outcome(SW_TX_PARSE_ERROR, ResetSignSession(s))
      [] OTHER -> ApproveAndSign(s, key)

\* The last chunk (handle_sign_tx after `if (!is_more)`): the parser must be
\* done, and a transaction whose fee overflowed is refused before display.
Finalize(s, key) ==
    CASE ~P!IsDone(s.parser) -> Outcome(SW_TX_PARSE_ERROR, ResetSignSession(s))
      [] s.parser.parsed.fee_overflow ->
           Outcome(SW_TX_OVERFLOW, ResetSignSession(s))
      [] OTHER -> ApproveAndSign(s, key)

\* The chunk carried P2_MORE_CHUNKS: OK with no data, or the last chunk.
AfterAbsorb(a, p2, key) ==
    CASE a.sw # 0 -> Outcome(a.sw, a.s)
      [] p2 = P2_MORE_CHUNKS -> Outcome(SW_OK, a.s)
      [] OTHER -> Finalize(a.s, key)

\* handle_sign_tx, first chunk (P1_FIRST_CHUNK): reset any session, parse
\* and validate the path, initialize hash and parser, feed the rest.
SignFirstChunk(p2, w, tx, key) ==
    LET s0 == ResetSignSession(session)
        lc == WireLen(w) + Len(tx)
        pp == ParsePath(w, lc)
        s1 == [s0 EXCEPT !.path = pp.path, !.hash = HashInit,
                         !.parser = P!ParserInit, !.initialized = TRUE,
                         !.total_received = 0,
                         !.last_chunk_received = (p2 # P2_MORE_CHUNKS)]
    IN  CASE lc < 1 -> Outcome(SW_WRONG_LENGTH, s0)
          [] pp.bytes = 0 -> Outcome(SW_INVALID_PATH, ResetSignSession(s0))
          [] ~ValidatePath(pp.path) ->
               Outcome(SW_INVALID_PATH, ResetSignSession(s0))
          [] OTHER -> AfterAbsorb(Absorb(s1, tx), p2, key)

\* handle_sign_tx, continuation chunk (P1_MORE_CHUNK).
SignContinuation(p2, tx, key) ==
    CASE ~session.initialized -> Outcome(SW_SESSION_ERROR, session)
      [] session.last_chunk_received ->
           Outcome(SW_SESSION_ERROR, ResetSignSession(session))
      [] OTHER ->
           LET s1 == [session EXCEPT
                        !.last_chunk_received = (p2 # P2_MORE_CHUNKS)]
           IN  AfterAbsorb(Absorb(s1, tx), p2, key)

----------------------------------------------------------------------------
(* Steps.                                                                  *)

\* The transaction bytes of a chunk when n bytes were sent before: the next
\* 0..MAX_CHUNK bytes of one of the samples.  Successive chunks may follow
\* different samples, so the host can splice transactions.
ChunksAt(n) ==
    { SubSeq(t, n + 1, IF n + k > Len(t) THEN Len(t) ELSE n + k) :
        t \in TxSamples, k \in 0..MAX_CHUNK }

FirstChunkData ==
    {[w |-> NoWire, tx |-> <<>>]} \cup [w : PathWires, tx : ChunksAt(0)]

Header(cla, ins, p1, p2) == [cla |-> cla, ins |-> ins, p1 |-> p1, p2 |-> p2]
NoHeader == Header(-1, -1, -1, -1)

Reply(sw, data) == resp' = [sw |-> sw, data |-> data]

(***************************************************************************)
(* g_display_ptr points at handle_sign_tx's local tx_display_t, whose      *)
(* frame ends when the handler returns.  The next APDU's handlers run in   *)
(* the same stack region; whether they overwrite the dead display is up to *)
(* the compiler's frame layout, so after each of them it holds either the  *)
(* old strings or Garbage.  Formatted stands for the strings             *)
(* tx_display_format wrote for the transaction under review; NoData: no    *)
(* review flow is on screen.                                               *)
(***************************************************************************)
Formatted == [formatted |-> TRUE]

StackReuse == IF ux = "review" THEN {reviewed, Garbage} ELSE {NoData}

\* After a handler: the display it pointed g_display_ptr at, when it
\* started the review flow (tx_display.c:269), else the reused stack.
ReviewedAfter(o) ==
    IF o.ux = "review" /\ o.approval # NoData
    THEN {Formatted} ELSE StackReuse

Apply(o) ==
    /\ reviewed' \in ReviewedAfter(o)
    /\ session' = o.session
    /\ digest' = o.digest
    /\ signature' = o.signature
    /\ uiResult' = o.uiResult
    /\ ux' = o.ux
    /\ approval' = o.approval
    /\ Reply(o.sw, o.data)
    /\ UNCHANGED pubkey

\* A handler that changes no session state; path is its local
\* bip32_path_t as it is at the return.
Respond(sw, data, path) ==
    /\ Reply(sw, data)
    /\ exitPath' = path
    /\ approval' = NoData
    /\ reviewed' \in StackReuse
    /\ UNCHANGED <<session, digest, signature, uiResult, ux>>

\* A handler that changes nothing but the response.
Answer(sw, data, path) == Respond(sw, data, path) /\ UNCHANGED pubkey

\* app_main: fewer than 4 bytes, or fewer data bytes than Lc announces.
BadFrame ==
    /\ cmd' = NoHeader
    /\ Answer(SW_WRONG_LENGTH, NoData, <<>>)

\* apdu_dispatch: a class other than 0xE0, or an unknown instruction.
Unsupported(cla, ins) ==
    /\ cmd' = Header(cla, ins, 0, 0)
    /\ IF cla # CLA_SUMCHAIN THEN Answer(SW_CLA_NOT_SUPPORTED, NoData, <<>>)
                             ELSE Answer(SW_INS_NOT_SUPPORTED, NoData, <<>>)

\* handle_get_version and handle_get_app_name.
GetInfo(ins) ==
    /\ cmd' = Header(CLA_SUMCHAIN, ins, 0, 0)
    /\ Answer(SW_OK, IF ins = INS_GET_VERSION THEN "version" ELSE "name", <<>>)

\* handle_get_public_key.  crypto_derive_pubkey writes G_state.pubkey as
\* its last act, so a caught throw leaves it as it was; the handler copies
\* it out and does not clear it.  A path that fails validation is returned
\* on without being zeroized; every other exit after parsing zeroizes it.
GetPublicKey(w, key) ==
    LET pp == ParsePath(w, WireLen(w))
        key32 == KeyResult(key, PublicKey(pp.path))
    IN  /\ cmd' = Header(CLA_SUMCHAIN, INS_GET_PUBLIC_KEY, 0, 0)
        /\ CASE WireLen(w) < 1 -> Answer(SW_WRONG_LENGTH, NoData, <<>>)
             [] pp.bytes = 0 -> Answer(SW_INVALID_PATH, NoData, <<>>)
             [] ~ValidatePath(pp.path) -> Answer(SW_INVALID_PATH, NoData, pp.path)
             [] key = "throw" -> Answer(SW_INTERNAL_ERROR, NoData, <<>>)
             [] OTHER -> Respond(SW_OK, key32, <<>>) /\ pubkey' = key32

\* handle_get_address with sumchain_get_address_for_path (src/src/address.c):
\* derive the key, hash it, Base58 the 20-byte slice; G_state.address_str
\* is not represented.  P1 (display) is ignored by the code.
GetAddress(w, key) ==
    LET pp == ParsePath(w, WireLen(w))
    IN  /\ cmd' = Header(CLA_SUMCHAIN, INS_GET_ADDRESS, 0, 0)
        /\ CASE WireLen(w) < 1 -> Answer(SW_WRONG_LENGTH, NoData, <<>>)
             [] pp.bytes = 0 -> Answer(SW_INVALID_PATH, NoData, <<>>)
             [] ~ValidatePath(pp.path) -> Answer(SW_INVALID_PATH, NoData, <<>>)
             [] key = "throw" -> Answer(SW_INTERNAL_ERROR, NoData, <<>>)
             [] OTHER -> Answer(SW_OK, KeyResult(key, AddressString(pp.path)), <<>>)

\* handle_sign_tx with P1 or P2 outside {0x00, 0x80}: reset, INVALID_P1P2.
SignBadP1P2(p1, p2) ==
    /\ \/ p1 \notin {P1_FIRST_CHUNK, P1_MORE_CHUNK}
       \/ p2 \notin {P2_LAST_CHUNK, P2_MORE_CHUNKS}
    /\ cmd' = Header(CLA_SUMCHAIN, INS_SIGN_TX, p1, p2)
    /\ Apply(Outcome(SW_INVALID_P1P2, ResetSignSession(session)))
    /\ exitPath' = <<>>

\* handle_sign_tx, P1 = first chunk; d is the path wire and the tx bytes.
SignTxFirst(p2, d, key) ==
    /\ cmd' = Header(CLA_SUMCHAIN, INS_SIGN_TX, P1_FIRST_CHUNK, p2)
    /\ Apply(SignFirstChunk(p2, d.w, d.tx, key))
    /\ exitPath' = <<>>

\* handle_sign_tx, P1 = continuation.
SignTxMore(p2, tx, key) ==
    /\ cmd' = Header(CLA_SUMCHAIN, INS_SIGN_TX, P1_MORE_CHUNK, p2)
    /\ Apply(SignContinuation(p2, tx, key))
    /\ exitPath' = <<>>

\* The review flow's Approve and Reject steps (device): set
\* G_state.ui_result and end the flow; no handler is waiting for it.
UxDecide(result) ==
    /\ BUILD = "device" /\ ux = "review"
    /\ uiResult' = result
    /\ ux' = "idle"
    /\ approval' = NoData
    /\ reviewed' = NoData
    /\ UNCHANGED <<session, digest, signature, pubkey, exitPath, cmd, resp>>

\* EXCEPTION_IO_RESET (USB unpowered) unwinds app_main; main() restarts
\* the UX and app_main, whose first act is reset_sign_session.
IoReset ==
    /\ BUILD = "device"
    /\ session' = ResetSignSession(session)
    /\ ux' = "idle"
    /\ cmd' = NoHeader
    /\ resp' = [sw |-> 0, data |-> NoData]
    /\ approval' = NoData
    /\ reviewed' = NoData
    /\ UNCHANGED <<digest, signature, pubkey, exitPath, uiResult>>

\* P1 and P2 values the host may send: the two valid ones and one other.
P12 == {P1_FIRST_CHUNK, P1_MORE_CHUNK, 1}

\* G_app_state is zero at load; app_main resets the session; idle flow.
Init ==
    /\ session = ZeroSession
    /\ digest = Zero /\ signature = Zero /\ pubkey = Zero
    /\ exitPath = <<>>
    /\ uiResult = "NONE"
    /\ ux = "idle"
    /\ approval = NoData
    /\ reviewed = NoData
    /\ cmd = NoHeader
    /\ resp = [sw |-> 0, data |-> NoData]

Next ==
    \/ BadFrame
    \/ Unsupported(0, INS_GET_VERSION) \/ Unsupported(CLA_SUMCHAIN, INS_SIGN_TX + 1)
    \/ \E ins \in {INS_GET_VERSION, INS_GET_APP_NAME} : GetInfo(ins)
    \/ \E w \in PathWires \cup {NoWire}, key \in KeyOutcomes :
          GetPublicKey(w, key) \/ GetAddress(w, key)
    \/ \E p1, p2 \in P12 : SignBadP1P2(p1, p2)
    \/ \E p2 \in {P2_LAST_CHUNK, P2_MORE_CHUNKS}, key \in KeyOutcomes :
          \/ \E d \in FirstChunkData : SignTxFirst(p2, d, key)
          \/ \E tx \in ChunksAt(session.total_received) :
                 SignTxMore(p2, tx, key)
    \/ \E result \in {"APPROVED", "REJECTED"} : UxDecide(result)
    \/ IoReset

Spec == Init /\ [][Next]_vars

----------------------------------------------------------------------------
(* Properties.                                                             *)

TypeOK ==
    /\ session.initialized \in BOOLEAN
    /\ session.path \in Seq(Components)
    /\ session.hash \in [initialized : BOOLEAN, fed : Seq(Byte)]
    /\ session.total_received \in 0..MAX_TX_SIZE
    /\ session.last_chunk_received \in BOOLEAN
    /\ P!TypeOK
    /\ digest = Zero \/ digest \in [blake3 : Seq(Byte)]
    /\ signature = Zero \/ IsSignature(signature)
    /\ pubkey \in {Zero, Garbage} \/ pubkey \in [pubkeyOf : Seq(Components)]
    /\ exitPath \in Seq(Components)
    /\ uiResult \in {"NONE", "APPROVED", "REJECTED"}
    /\ ux \in {"idle", "review"}
    /\ resp.sw \in {0, SW_OK, SW_USER_REJECTED, SW_INVALID_PATH,
                    SW_INVALID_P1P2, SW_INS_NOT_SUPPORTED,
                    SW_CLA_NOT_SUPPORTED, SW_WRONG_LENGTH, SW_INTERNAL_ERROR,
                    SW_TX_PARSE_ERROR, SW_TX_OVERFLOW, SW_SESSION_ERROR,
                    SW_TX_TOO_LARGE}

\* Between commands, a live session is exactly what chunked signing has
\* built so far: handle_sign_tx fed the hash and the parser the same bytes,
\* the parser context equals a one-shot parse of those bytes and is not in
\* error, the byte count matches, the path passed validation, and the
\* last-chunk flag is never left set (the last chunk always ends the
\* session).  A chunk whose final byte drives the parser into error, or a
\* chunk the parser leaves partly unconsumed, must not leave a session.
SessionCoherent ==
    session.initialized =>
        /\ session.hash.initialized
        /\ session.parser = P!OneShot(session.hash.fed)
        /\ session.parser.state # "ERROR"
        /\ session.total_received = Len(session.hash.fed)
        /\ session.total_received <= P!TX_LEN
        /\ ValidatePath(session.path)
        /\ ~session.last_chunk_received

\* Between commands no secret survives: an ended session is zeroized in
\* full (reset_sign_session on every exit of handle_sign_tx and at the
\* start of app_main), and the digest and signature buffers of G_state are
\* zero (SECURE_ZEROIZE after the signature is copied out, and of the
\* digest when signing fails).
NoSecretsAtRest ==
    /\ ~session.initialized => session = ZeroSession
    /\ digest = Zero
    /\ signature = Zero

\* A signature leaves the device only over bytes that form exactly one
\* complete, valid Transfer without fee overflow, whose decoded fields are
\* the ones formatted and shown to tx_display_show_approval in that same
\* command, with the answer APPROVED, and only under a validated path.
\* This ties the hash input (sum_blake3_update) to the parser input
\* (tx_parser_consume) across chunk boundaries, and the order
\* parse -> overflow check -> display -> sign of handle_sign_tx.
SignsOnlyApprovedTransfer ==
    [][ (cmd'.ins = INS_SIGN_TX /\ resp'.sw = SW_OK /\ resp'.data # NoData)
        => LET sig == resp'.data
               b == sig.over.blake3
               tx == P!OneShot(b)
           IN  /\ Len(b) = P!TX_LEN
               /\ tx.state = "DONE"
               /\ ~tx.parsed.fee_overflow
               /\ approval' = [display |-> TxDisplayFormat(tx.parsed),
                               result |-> "APPROVED"]
               /\ ValidatePath(sig.signer)
      ]_vars

\* Spec section 4.5: in the streaming state "a first-chunk received here ->
\* session zeroized -> session error".  handle_sign_tx instead resets the
\* session and starts a new one from the first chunk.
FirstChunkWhileStreaming ==
    [][ (/\ session.initialized
         /\ cmd'.ins = INS_SIGN_TX
         /\ cmd'.p1 = P1_FIRST_CHUNK
         /\ cmd'.p2 \in {P2_LAST_CHUNK, P2_MORE_CHUNKS})
        => /\ resp'.sw = SW_SESSION_ERROR
           /\ session' = ZeroSession
      ]_vars

\* Spec sections 4.5 and 5: the display collaborator is invoked
\* synchronously and returns exactly one of approve or reject.  The device
\* tx_display_show_approval starts the review flow and returns
\* G_state.ui_result, which it has just set to UI_RESULT_NONE.
DisplayReturnsDecision ==
    approval # NoData => approval.result \in {"APPROVED", "REJECTED"}

\* Spec sections 5 and 6: a provided primitive either succeeds with its
\* value or fails with a kind mapped onto a status word.  So an OK answer
\* to get-public-key or get-address carries the key or address of a
\* path that passed validation.  crypto_derive_pubkey ignores the return
\* codes of the cx_*_no_throw calls and reports success regardless.
KeyAnswersGenuine ==
    [][ (resp'.sw = SW_OK /\ cmd'.ins \in {INS_GET_PUBLIC_KEY, INS_GET_ADDRESS})
        => \E p \in {ParsePath(w, WireLen(w)).path : w \in PathWires} :
              /\ ValidatePath(p)
              /\ resp'.data \in {PublicKey(p), AddressString(p)}
      ]_vars

\* Spec sections 1 and 5: the user approves after inspecting the decoded
\* contents on a trusted display.  While the device review flow is on
\* screen, the strings its pages read through g_display_ptr are the ones
\* tx_display_format produced for the transaction under review, even when
\* the host sends further APDUs before the user presses a button.
ReviewShowsFormattedDisplay ==
    ux = "review" => reviewed = Formatted

\* Spec sections 3, 5 and 6: sensitive scratch (path, digest, signature,
\* public key) is zeroized at the function boundary, on every exit and
\* even on the success path.  Checked between commands on the local
\* bip32_path_t of the read-only handlers at their return and on the
\* G_state buffers that handle_get_public_key and handle_sign_tx fill.
ScratchZeroized ==
    /\ exitPath = <<>>
    /\ pubkey = Zero
    /\ digest = Zero
    /\ signature = Zero

----------------------------------------------------------------------------
(* Refinement of the abstract session (SignSession).  A live session is   *)
(* streaming; its stream is what sum_blake3_update absorbed; its answer is *)
(* the signature handle_sign_tx copied into the response.                 *)

\* A live session survives a chunk only if the parser neither failed nor
\* left bytes over (apdu_handlers.c 210-214 and 249-253).
Acceptable ==
    {b \in Seq(Byte) : Len(b) <= P!TX_LEN /\ P!OneShot(b).state # "ERROR"}

\* The parser is done on the last chunk and the fee did not overflow.
Signable ==
    {b \in Seq(Byte) : /\ Len(b) = P!TX_LEN
                       /\ P!OneShot(b).state = "DONE"
                       /\ ~P!OneShot(b).parsed.fee_overflow}

\* Transaction bytes that fit one APDU after a path.
OneCommand == {b \in Seq(Byte) : Len(b) <= MAX_CHUNK}

ValidPaths ==
    {p \in {ParsePath(w, WireLen(w)).path : w \in PathWires} : ValidatePath(p)}

\* The signature copied into the response by the last sign command.
SignAnswer ==
    IF cmd.ins = INS_SIGN_TX /\ resp.sw = SW_OK /\ resp.data # NoData
    THEN resp.data ELSE NoData

Abstract == INSTANCE SignSession WITH
    phase <- IF session.initialized THEN "streaming" ELSE "idle",
    path <- session.path,
    stream <- session.hash.fed,
    answer <- SignAnswer,
    Signed <- LAMBDA p, b : Signature(p, Digest(b)),
    Over <- LAMBDA x : IF IsSignature(x) THEN x.over.blake3 ELSE <<>>,
    None <- NoData

\* handle_sign_tx implements the abstract session: between commands a
\* session is idle or streams under one valid path; the bytes hashed for
\* it only grow, and only while they can still be one transaction; an
\* error, rejection, reset or I/O reset ends it with nothing left; and a
\* signature leaves the device only for the path and exactly the bytes
\* the session streamed, completed by the last chunk, and ends it.
RefinesSignSession == Abstract!Spec
============================================================================
