---------------------------- MODULE MCLedgerApp ----------------------------
(***************************************************************************)
(* Model-checking instance of LedgerApp.  One hardened component h and one *)
(* unhardened component u; the host may send a valid path, an unhardened  *)
(* one, a wire that announces more components than it carries, and a      *)
(* zero-length path.                                                       *)
(***************************************************************************)
EXTENDS LedgerApp

CONSTANTS h, u

MCComponents == {h, u}
MCHardened == {h}
MCPathWires ==
    { [n |-> 1, comps |-> <<h>>],
      [n |-> 1, comps |-> <<u>>],
      [n |-> 2, comps |-> <<h>>],
      [n |-> 0, comps |-> <<>>] }

\* Sample transactions for BYTE_BITS = 1, U64_WIDTH = 2, ADDRESS_LEN = 1:
\* version | chain_id | sender | nonce | gas_price | gas_limit | tx_type |
\* recipient | amount, integers little-endian.
Good     == <<1, 1,0, 1, 0,1, 1,0, 1,0, 0, 0, 1,1>>  \* fee 1 * 1
Good2    == <<1, 1,0, 1, 0,1, 1,0, 1,0, 0, 1, 0,1>>  \* other recipient, amount
Overflow == <<1, 1,0, 1, 0,1, 0,1, 0,1, 0, 0, 1,1>>  \* fee 2 * 2 = 2^4
BadVer   == <<0, 1,0, 1, 0,1, 1,0, 1,0, 0, 0, 1,1>>
BadType  == <<1, 1,0, 1, 0,1, 1,0, 1,0, 1, 0, 1,1>>
Trailing == Good \o <<0>>

MCTxSamples == {Good, Good2, Overflow, BadVer, BadType, Trailing}
============================================================================
