# TLA+ models of the SUM Chain Ledger application

This directory holds TLA+ models of the transaction-signing core in `src/src/`,
the TLC configurations that check them, and `PROJECT.json`. That file indexes
the components, runs, mutants, the map from definitions to source lines,
findings and hazards.

## 1. The system

The app is a single-threaded command loop. `app_main` (`main.c`) receives one
APDU at a time, checks its framing and calls `apdu_dispatch`
(`apdu_handlers.c`). The dispatcher runs one handler to completion:

| INS | handler | state it touches |
|---|---|---|
| 0, 1 | `handle_get_version`, `handle_get_app_name` | none |
| 2 | `handle_get_public_key` | local path; `G_state.pubkey` |
| 3 | `handle_get_address` → `sumchain_get_address_for_path` (`address.c`) | local path; `G_state.address_str` |
| 4 | `handle_sign_tx` | `G_state.sign_session`, `G_state.hash`, `G_state.signature`, `G_state.ui_result` |

**Signing spans several APDUs.** The session (`sign_session_t`, `globals.h`)
holds the following:
- the derivation path;
- a BLAKE3 context (`crypto/sum_blake3.c`);
- a streaming parser context (`tx_parser.c`);
- a byte count;
- a last-chunk flag.

**Flow of a signing session.**
1. The first chunk (P1=0x00) parses and validates the path.
2. Every chunk's transaction bytes go to the hash and then to the parser.
3. On the last chunk (P2=0x00), the handler checks four things in order:
   - the parser must be done;
   - the record is formatted (`tx_display.c`);
   - an overflowing fee is refused;
   - `tx_display_show_approval` is asked for approval.
4. Only an approval leads to finalising the hash and signing it
   (`crypto.c`).
5. Every exit calls `reset_sign_session`.

**The parser** is a byte-FSM over nine fixed-width fields. On the last field
it computes the 128-bit fee with `tx_parser_compute_fee`.

**Two builds.** They differ in the collaborators:

| | device (`HAVE_BOLOS_SDK`) | host |
|---|---|---|
| approval | starts the `ux_tx_flow` review screens, whose Approve/Reject steps set `G_state.ui_result` | stub approves everything |
| key derivation | BOLOS key derivation, which can throw (the code catches it) | stub never fails |
| I/O reset | a USB disconnect throws `EXCEPTION_IO_RESET` out of `io_exchange`, and `main` restarts `app_main` | none |

Hard behaviours:
- Chunk boundaries can fall anywhere inside a field.
- The parser can fail on the last byte of a chunk.
- Bytes can trail a complete transaction.
- Chunk commands can arrive in any order.
- A key failure after approval is handled (`apdu_handlers.c:299`), but no
  build reaches it: the host key stubs never fail, and the device approval
  call never returns a decision. No run exercises it.
- An I/O reset can happen mid-session.
- The device approval call is asynchronous.

## 2. Modules

| module | models | state | actions |
|---|---|---|---|
| `FeeMul` | `tx_parser_compute_fee` (tx_parser.c 216-251) | none (operator `ComputeFee`) | none |
| `TxParser` | `tx_parser_init`, `tx_parser_consume`, `process_complete_field`, `get_field_size`, `read_u64_le`, `is_done`, `has_error` | `ctx` (the `tx_parser_ctx_t`), `fed` (the bytes fed so far, auxiliary) | `ConsumeChunk(data)`: one `tx_parser_consume` call, which is a RECURSIVE loop `ConsumeLoop` |
| `LedgerApp` | `app_main` framing, `apdu_dispatch`, the handlers, `reset_sign_session`, `sum_blake3_init`/`update`/`finalize32` with their flag, `crypto_parse_path`/`crypto_validate_path`, `tx_display_format`, `tx_display_show_approval` (both builds), the review flow's buttons, the I/O reset | `session`, `digest`, `signature`, `uiResult`, `ux`, `exitPath`, `reviewed` (what `*g_display_ptr` holds), and the auxiliaries `approval`, `cmd`, `resp` | one action per handler, plus `BadFrame`, `Unsupported`, `UxDecide`, `IoReset` |
| `MCLedgerApp` | model values and sample transactions for `LedgerApp` | none | none |
| `SignSession` | the abstract session of spec §4.5: idle or streaming under one valid path, a stream that only grows while it can still be one transaction, and one signature by that path over exactly that stream | `phase`, `path`, `stream`, `answer` | `Begin`, `Extend`, `End`, `SignStream`, `SignFresh`, `Quiet` |
| `Decimal` | `format_u64_decimal` and `format_fee` (tx_display.c 9-129), every intermediate reduced modulo `2^WORD_BITS` as `uint64_t` is | none (operators; the digit loops are RECURSIVE `DigitsReversed`, `WideDigitsReversed` over `DivideBy10`) | none |
| `Base58` | `base58_encode` (address.c 18-102): argument checks, `SkipZeros`, the in-place `DivideFrom` pass, the `Convert` loop with the `b58_rev` guard, the output-size check and the reversed copy | none (operators) | none |
| `MCFormat` | checks `FeeMul`'s `ComputeFee` against the exact product, `Decimal` against the positional numeral `Rendered` (composing `format_fee` with `ComputeFee` as `tx_display_format` receives it), and `Base58Encode` against `Expected`, leading `1`s plus the positional base-RADIX numeral | `unit` (which conversion), words `x`, `y`, an input byte string `in`, a buffer size | none (every case is an initial state) |
| `DeviceUx` | the device screens: `ux_idle_flow` (main.c, with `FLOW_LOOP`) and `ux_tx_flow` (tx_display.c, without), `ui_idle`, the button events of `io_event`, `tx_display_show_approval`, the Approve/Reject callbacks, Quit and the I/O reset back to the idle menu | `flow`, `step` (the step on screen), `ptr` (`g_display_ptr`), `uiResult` (`G_state.ui_result`), `shown` (history: the field pages on screen since the review started) | `ShowApproval`, `Press`, `Decide`, `Quit`, `IoReset` |

### How the modules compose

`LedgerApp` instantiates `TxParser` with its context and fed-bytes variables
mapped to the session's parser context and the session hash's byte string:

    P == INSTANCE TxParser WITH ctx <- session.parser, fed <- session.hash.fed

As a result, the parser contract checked in `TxParser` (`OneShot`) also
describes the parser inside the session.

`LedgerApp` also instantiates the abstract `SignSession` under a refinement
mapping:
- `phase` is streaming while `session.initialized` holds;
- `path` is the session's path;
- `stream` is the bytes `sum_blake3_update` absorbed;
- `answer` is the signature a sign command put in its response.

`RefinesSignSession` (`Abstract!Spec`) is checked as a temporal property. A
first chunk while streaming is an abstract `Begin`, because the code
restarts (finding 1). `TxParser` in turn instantiates
`FeeMul`. Each handler is a single atomic step, because the code is
single-threaded and runs each handler to completion. Sub-steps of a handler
are operators that return an outcome record, for example `Absorb`, `Finalize`
and `ApproveAndSign`. `Apply` turns an outcome into the primed variables, so
that each action models the whole handler.

### Data abstraction

The model keeps every branch of the code. Its data is reduced as follows:

- **Sizes.**

  | constant | in the code | in the models |
  |---|---|---|
  | `BYTE_BITS` | 8 | 1 |
  | `U64_WIDTH` | 8 | 2 bytes |
  | `ADDRESS_LEN` | 20 | 1–2 |

  At these sizes a transfer is 14 bytes (82 in the code). `FeeMul` uses the
  same partial-product algorithm at half-word width
  `HALF_BITS = U64_WIDTH*BYTE_BITS/2`, so carries still cross every boundary.
- **The parser scratch** is represented by its first `field_offset` bytes. The
  bytes beyond that are never read.
- **The hash** is ideal: a digest is the byte string it covers. Keys,
  addresses and signatures are records naming what they were computed from.
  The host stubs return constant bytes; in the host build the model's record
  stands for the arguments that were passed to the stub.
- **Rendering.** Inside `LedgerApp`, decimal and Base58 renderings are
  injective, so a displayed field is represented by its value. The fee is the
  text `Overflow` when the overflow flag is set. `Decimal` and `Base58` check
  that the renderers really are those functions. In both, a character is
  represented by its digit value (its index in the alphabet).
- **Key primitive faults.** On the device, a key call ends in one of three
  ways, chosen nondeterministically:
  - `"ok"`: the call succeeds;
  - `"throw"`: a throw is caught, and the call returns false;
  - `"silent"`: a `cx_*_no_throw` error code is ignored, and the call returns
    true. The output buffer was never filled; its content is the value
    `Garbage`.
- **Buffers.** `G_state.pubkey` is the variable `pubkey`: `Zero`, a key
  record or `Garbage`. `G_state.address_str` is left out: it holds the address
  the handler returns, which the response already carries.
- **`exitPath`** is the local `bip32_path_t` of the last read-only handler, as
  it is when that handler returns.
- **Screens.** In `LedgerApp` the review flow on screen is the single value
  `ux = "review"`; `DeviceUx` expands it into the steps the buttons walk. A
  `bnnn_paging` step is one step there: the sub-pages of a long text only
  change what part of the same field is drawn.

## 3. Properties and runs

| run | module / cfg | expect | checks |
|---|---|---|---|
| `parser_stream` | TxParser / TxParser.cfg | pass | `TypeOK`; `StreamMatchesOneShot`: after any sequence of chunks of any 1-bit bytes, the streaming context equals `OneShot(fed)`. `OneShot` is a positional reference decoding of the bytes, written independently of the FSM; it covers the error state, the partial field and DONE with the exact fee. |
| `app_host` | MCLedgerApp / MCLedgerApp_host.cfg | pass | `TypeOK`; `SessionCoherent`; `NoSecretsAtRest`; `SignsOnlyApprovedTransfer`; `RefinesSignSession` (all defined below this table) |
| `app_device` | MCLedgerApp / MCLedgerApp_device.cfg | pass | `SessionCoherent` and `NoSecretsAtRest` in the device build, with key failures, the review flow and I/O resets. The type invariant is checked once, on the host run: the device build adds no value of a new type to the session. |
| `formatters_exact` | MCFormat / MCFormat.cfg | pass | `FeeIsExactProduct`, `U64DecimalExact`, `FeeTextExact`, `Base58Exact` (below) |
| `device_ux` | DeviceUx / DeviceUx.cfg | pass | `TypeOK`; `ApprovalAfterFieldPages` (below) |
| `wide_fee_wrap` | MCFormat_wide.cfg | violation | `WideFeeExact`: the 128-bit branch of `format_fee` renders `hi*2^w+lo` in decimal (comment at tx_display.c:76) |
| `key_fault` | MCLedgerApp_key_fault.cfg | violation | `KeyAnswersGenuine` (spec §5, §6): an OK get-public-key/get-address answer carries the key or address of a validated path |
| `stale_display` | MCLedgerApp_stale_display.cfg | violation | `ReviewShowsFormattedDisplay` (spec §1, §5): while the review flow is on screen, `*g_display_ptr` holds the strings formatted for the transaction |
| `first_chunk_restart` | MCLedgerApp_first_chunk.cfg | violation | `FirstChunkWhileStreaming` (spec §4.5) |
| `device_approval` | MCLedgerApp_approval.cfg | violation | `DisplayReturnsDecision` (spec §4.5, §5) |
| `scratch_residue` | MCLedgerApp_scratch.cfg | violation | `ScratchZeroized` (spec §3, §5, §6): between commands the local path, `G_state.pubkey`, the digest and the signature are zero |
| `display_contract` | DeviceUx_contract.cfg | violation | `ApprovalAfterContractFields` (spec §4.6): Approve follows the display of chain_id, sender, recipient, amount, fee and nonce |

The `app_host` and `app_device` properties:

- **`SessionCoherent`.** A live session between commands satisfies all of
  the following:
  - hash and parser were fed the same bytes;
  - the parser equals the one-shot parse of those bytes and is not in error;
  - the byte count matches;
  - the path is valid;
  - the last-chunk flag is clear.
- **`NoSecretsAtRest`.** An ended session is entirely zero, and the digest
  and signature buffers are zero.
- **`SignsOnlyApprovedTransfer`.** This is an action property. A signature
  leaves the device only over bytes that meet all of the following:
  - they are exactly one complete, valid transfer;
  - its fee did not overflow;
  - its decoded fields are the ones formatted and shown to the approval call
    in that same command;
  - the approval call answered APPROVED;
  - the path passed validation.
- **`SessionCoherent`** also bounds a live session to one transaction's
  bytes. This is why the `MAX_TX_SIZE` checks (8192) can never fire.

- **`RefinesSignSession`.** The sign handler implements `SignSession`:
  - between commands, the bytes hashed for a session only grow;
  - those bytes always remain a prefix the parser accepts, within one
    transaction;
  - every failure ends the session with nothing left;
  - a signature is only by the session's path, over exactly the streamed
    bytes completed by the last chunk.

  The signing step finalizes the hash with `sum_blake3_finalize32`'s guard
  (`HashFinalize32`): on an uninitialized context it leaves `G_state.hash`
  as it was. Only a live hash context up to the last chunk keeps a signature
  over stale bytes away.

The renderer properties:

- **`FeeIsExactProduct`.** `fee_high*2^w + fee_low` equals
  `gas_price*gas_limit`, and `fee_overflow` holds exactly when the product
  needs two words. All 65,536 operand pairs of an 8-bit word are checked.
- **`U64DecimalExact`.** For every word and every buffer size 0-4,
  `format_u64_decimal` returns one of the following:
  - the decimal numeral and its length;
  - an empty string and 0 when the numeral and its terminator do not fit;
  - nothing written at all when the size is 0.
- **`FeeTextExact`.** `format_fee` applied to `tx_parser_compute_fee`'s
  result, with the display's 40-byte buffer, gives the numeral of the exact
  product. When the product needs two words, it gives the text `Overflow`.
  Together with `FeeIsExactProduct`, this is the fee shown to the user.
- **`Base58Exact`.** For every input of up to `MAX_INPUT_LEN + 1` bytes and
  every buffer size, `base58_encode` returns the spec §4.2 text: one `1` per
  leading zero byte, then the base-58 numeral of the value. It returns
  length 0 and an empty string for an empty or over-long input, or when the
  buffer is too small. The scratch guard never rejects an accepted input,
  and the zero skip loses no digit.

The review-flow property:

- **`ApprovalAfterFieldPages`.** This is an action property. The Approve
  callback runs only after every field page (Chain ID, To, Amount, Max Fee)
  of the display `g_display_ptr` points at has been on screen since the
  review flow last started. It holds because `ux_tx_flow` has no
  `FLOW_LOOP` (left from the banner stays on the banner), a new approval
  request restarts the walk at the banner, and an I/O reset puts the idle
  menu on screen, from which no press reaches Approve. It is checked over
  three transactions reviewed in any interleaving with presses and resets.

### Mutants

Every property of a passing run is broken by a plausible bug in the mapped
code (see `PROJECT.json` "mutants"):

| mutant | what it breaks |
|---|---|
| dropping the carry out of the middle partial-product sum | `FeeIsExactProduct` |
| not resetting `field_offset` after a field | `TypeOK` |
| copying chunk bytes from the chunk start instead of from `consumed` | `StreamMatchesOneShot` |
| dropping `tx_parser_has_error` from the chunk check | `SessionCoherent`: a chunk that ends on the byte that fails keeps the session alive in error |
| dropping `consumed != len` from the chunk check | `SessionCoherent` (device run): trailing bytes are accepted |
| resetting only the `initialized` flag | `NoSecretsAtRest` |
| removing the fee-overflow refusal | `SignsOnlyApprovedTransfer` |
| `sum_blake3_init` forgetting `ctx->initialized = 1` | `RefinesSignSession`: updates are dropped and the last chunk signs a stale `G_state.hash` |
| a size check in `format_u64_decimal` that forgets the terminator | `U64DecimalExact` |
| `format_fee` ignoring the overflow flag | `FeeTextExact` |
| the `b58_rev` guard one digit too eager (`b58_len + 1 >= MAX_B58_LEN`) | `Base58Exact` |
| a flow engine that walks off the end of a flow without `FLOW_LOOP` | `TypeOK` (device_ux) |
| `ux_tx_flow` declared with `FLOW_LOOP` | `ApprovalAfterFieldPages`: left from the banner wraps to Reject, then Approve, with no field seen |

### Findings

1. **Spec/code divergence: a first chunk while streaming**
   (`apdu_handlers.c:165`). The code restarts the session. The spec says the
   session is zeroized and the answer is a session error.
2. **Code bug: the device approval call returns before the user decides**
   (`tx_display.c:283`). On the device, `tx_display_show_approval` returns
   `UI_RESULT_NONE` immediately. `handle_sign_tx` answers 0x6985, so the
   device never signs anything.
3. **Spec/code divergence: sensitive scratch survives get-public-key**
   (`apdu_handlers.c:77`, `:67`). `handle_get_public_key` copies the key out
   of `G_state.pubkey` and never clears it, and it returns on a failed
   validation without zeroizing its local path. Spec §6 lists the path and
   the public key among the scratch zeroized at the function boundary, even
   on success. The sign handler's digest and signature are cleared
   (`NoSecretsAtRest` holds).
4. **Latent code bug: `format_fee` wraps in 64 bits** (`tx_display.c:104`).
   `lo_contrib = hi_rem * 6 + lo` overflows when `lo` is near `2^64`.
   TLC's trace at 6-bit words renders 29·64 wrongly. The branch is dead from
   `tx_display_format`, because a non-zero high word always comes with the
   overflow flag (`FeeTextExact` passes). It is wrong the day the overflow
   policy changes.
5. **Spec/code divergence: ignored primitive error codes**
   (`crypto.c:88`). `crypto_derive_pubkey` and `crypto_sign_hash` ignore
   the `cx_err_t` of the `cx_*_no_throw` calls. A failing primitive
   therefore gives 0x9000 with an unfilled key, address or signature buffer.
   The spec maps primitive failures onto an error status word.
6. **Code bug: the review reads a dead stack frame** (`tx_display.c:269`).
   `g_display_ptr` points at `handle_sign_tx`'s local `tx_display_t`, and
   the handler returns while the review flow is still on screen. Any later
   APDU runs its handlers over that stack region. The model keeps the dead
   display either intact or overwritten, as the frame layout allows. TLC
   finds a malformed APDU during the review after which the pages read
   garbage. This has the same root cause as finding 2.
7. **Spec/code divergence: the sender and nonce are never shown**
   (`tx_display.c:254`). `ux_tx_flow` has pages for the chain id, the
   recipient, the amount and the fee only. `tx_display_format` renders the
   sender and the nonce, but no step displays them. Spec §4.6 requires the
   UI to present chain_id, sender, recipient, amount, fee and nonce in that
   order, and §1 says the nonce is surfaced to the user. TLC walks from the
   banner to Approve in six steps.

A latent hazard rather than a finding: the `Overflow` auto-reject of
`tx_display_show_approval` (`tx_display.c:272`) repoints `g_display_ptr`
and clears `ui_result` without restarting the flow. A review already on
screen then goes on showing the new display from the page it was on, and
`DeviceUx` with that check enabled finds an Approve after pages of two
transactions. `handle_sign_tx` never passes an overflowed fee (it refuses
it first, which `SignsOnlyApprovedTransfer` checks), so `device_ux` runs
with the check always false.

### Bounds and why they are enough

**MCLedgerApp** uses:
- one hardened and one unhardened path component;
- four path wires: a valid one, an unhardened one, a truncated one (the count
  announces more components than are present) and a zero-length one, plus
  "no data";
- `MAX_CHUNK = 3`.

The host streams slices of six sample transactions: a valid one, a second
valid one with other fields, one with a fee overflow, one with a bad version,
one with a bad transaction type, and a valid one followed by a trailing byte.
Each chunk is the next 0–3 bytes of any sample, so chunks can split every
field and splice different transactions together. The byte-level behaviour
of the parser under arbitrary bytes is checked separately by
`parser_stream`.

These bounds produce every error status, approval, rejection, key failure,
I/O reset, ignored primitive error and a signature. The runs finish with
5,485 distinct states (host) and 50,647 (device, with the three key
outcomes and the reused stack), in about 35 s and 95 s.

**MCFormat** (decimal) uses words of 6 bits: q_factor = 6 and r_factor = 4, as
1844674407370955161 and 6 are for 64 bits. It checks all 64×64 operand
pairs and buffer sizes 0–4. The digit scratch buffers and the fee buffer
keep their real sizes of 24, 48 and 40.

**MCFormat** (base58) uses bytes of 3 bits and radix 5. A digit carries less than a
byte, as in the code. Every input of 0–4 bytes (37,448 states with the
buffer sizes) is checked. Three bytes need at most four digits, so
`MAX_B58_LEN = 4` puts the scratch guard exactly at its edge. In the code,
32 bytes need 44 digits (58^43 < 2^256 < 58^44), so 45 leaves one digit
to spare. The model is therefore tighter than the code at the guard: the
off-by-one mutant of the guard breaks `Base58Exact` here but would be
harmless at the real sizes. What carries over to the code is the check of
the leading-zero skip after each division pass (`address.c:75`).

**MCFormat** (fee) checks all 65,536 operand pairs of an 8-bit word, so
both carries of `tx_parser_compute_fee` occur.

**DeviceUx** reviews three transactions (`d1`..`d3`): enough for a new
request to arrive during a review, after an approval and after a reset,
with a third display to tell apart from both. The flows keep their real
steps. Quit (`os_sched_exit`) ends the application, so this one run has
`CHECK_DEADLOCK FALSE`.

`MAX_TX_SIZE` keeps its real value of 8192. This leaves the
`SW_TX_TOO_LARGE` branches unreachable, as they are in the code.

### Fairness and liveness

No liveness property is checked. Every step is driven by the host (APDUs) or
by the user (buttons). The code has no internal timer or retry, so no
fairness assumption is justified by the code. All the properties are
therefore safety properties. Deadlock checking is on for `LedgerApp` and
`TxParser`: in every state some APDU can be sent, and TLC confirms this.
`DeviceUx` stops only after Quit, where the application exits.

## 4. Not modelled, and the plan

- **`sum_blake3_reset`, `sum_blake3_zeroize`, `sum_blake3_hash`.** The
  application never calls them on the session context. The one-shot hash
  appears only inside address derivation, which is modelled by the ideal
  `AddressString`.
- **The review flow inside `LedgerApp`.** `LedgerApp` keeps the review on
  screen as one value; walking its steps is `DeviceUx`. Composing both in
  one state space multiplies the device run by the reachable (step, pages
  seen) pairs and takes it past five minutes, and no `LedgerApp` property
  depends on the step on screen: `ReviewShowsFormattedDisplay` holds for
  every page drawn while the review is up.
- **Refinement in the device build.** The device never signs (finding 2),
  and checking the temporal property there takes about four minutes, so the
  refinement is checked in the host build.
- **Left out on purpose:**
  - the BOLOS boot, USB/BLE power, `io_seproxyhal_display`, and the
    ticker and display-processed events (platform I/O the application
    never reads back);
  - the Ed25519 and BLAKE3 primitives (ideal here);
  - what a dangling `g_display_ptr` read returns (any content: `Garbage`);
  - `G_state.address_str`, whose content is the response;
  - the framing's exception mapping in `app_main` (`CATCH_OTHER`): every
    handler returns a 0x6xxx or 0x9000 word, so the mapping is the
    identity on every status the handlers produce;
  - the header declarations (`*.h`) beyond the constants, types and
    inline `reset_sign_session` the modules use: prototypes carry no
    behaviour.
