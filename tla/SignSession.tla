---------------------------- MODULE SignSession ----------------------------
(***************************************************************************)
(* What the signing session promises, with no chunks, parser or hash       *)
(* context (spec section 4.5): a session is idle or streaming under one    *)
(* validated path; while streaming, its byte stream only grows, and only   *)
(* while it stays a possible transaction; it ends either with nothing, or  *)
(* with one signature by its path over exactly the bytes it streamed, and  *)
(* then returns to idle with nothing left behind.  answer is the           *)
(* signature the last step returned, if any.                               *)
(*                                                                         *)
(* A session may begin while another streams: handle_sign_tx restarts on  *)
(* a first chunk (the FirstChunkWhileStreaming finding).                   *)
(***************************************************************************)
EXTENDS Sequences, SequencesExt

CONSTANTS
    ValidPaths,     \* paths that pass crypto_validate_path
    Acceptable,     \* the byte strings a live session may hold
    Signable,       \* the byte strings that may be signed
    OneCommand,     \* the byte strings a single command can carry
    Signed(_, _),   \* the signature by a path over a byte string
    Over(_),        \* the byte string a signature covers
    None            \* no signature returned

VARIABLES phase, path, stream, answer

vars == <<phase, path, stream, answer>>

Idle ==
    /\ phase' = "idle" /\ path' = <<>> /\ stream' = <<>>

Init == phase = "idle" /\ path = <<>> /\ stream = <<>> /\ answer = None

\* A new session under a valid path, holding an acceptable byte string.
Begin ==
    /\ phase' = "streaming"
    /\ path' \in ValidPaths
    /\ stream' \in Acceptable
    /\ answer' = None

\* More bytes for the streaming session: its stream only grows.
Extend ==
    /\ phase = "streaming"
    /\ stream' \in Acceptable
    /\ IsPrefix(stream, stream')
    /\ answer' = None
    /\ UNCHANGED <<phase, path>>

\* The session ends without a signature (error, rejection, reset).
End ==
    /\ Idle /\ answer' = None

\* The last bytes arrive and the session's stream, grown by them, is
\* signed under its path.
SignStream ==
    /\ phase = "streaming"
    /\ answer' # None
    /\ Over(answer') \in Signable
    /\ IsPrefix(stream, Over(answer'))
    /\ answer' = Signed(path, Over(answer'))
    /\ Idle

\* A first chunk that is also the last: a session begins and its bytes
\* are signed in the same step.
SignFresh ==
    /\ answer' # None
    /\ Over(answer') \in Signable \cap OneCommand
    /\ \E p \in ValidPaths : answer' = Signed(p, Over(answer'))
    /\ Idle

\* A command that leaves the session alone returns no signature.
Quiet ==
    /\ answer' = None
    /\ UNCHANGED <<phase, path, stream>>

Next == Begin \/ Extend \/ End \/ SignStream \/ SignFresh \/ Quiet

Spec == Init /\ [][Next]_vars
============================================================================
