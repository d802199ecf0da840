---------------------------- MODULE PluginConfig -----------------------------
(***************************************************************************)
(* The plugin configuration: crates/proxy-wasm-evidence/src/config.rs and  *)
(* the way on_configure in filter.rs obtains one.  key_id is only a name   *)
(* and is left out.  A signing key is what hex::decode can tell of the     *)
(* string: whether all its characters are hex digits, and its length.      *)
(***************************************************************************)
EXTENDS RecordingPolicy, RustTypes

LOCAL INSTANCE TLC          \* for @@

SigningKeyHex == [hex_digits : BOOLEAN, len : Nat]

Config == [default_mode        : RecordingMode,
           signing_key_hex     : SigningKeyHex \cup {None},
           trace_id_header     : String,
           agent_id_header     : String,
           max_evidence_buffer : Nat]

DefaultConfig == [default_mode        |-> "validation",
                  signing_key_hex     |-> None,
                  trace_id_header     |-> "x-b3-traceid",
                  agent_id_header     |-> "x-agent-id",
                  max_evidence_buffer |-> 1024]

\* hex::decode wants hex digits, and two of them for each byte.
decodes(key_hex) == key_hex.hex_digits /\ key_hex.len % 2 = 0

\* Mutant: only the signing key is validated.
validate_KeyOnly(config) ==
    \/ config.signing_key_hex = None
    \/ /\ decodes(config.signing_key_hex)
       /\ config.signing_key_hex.len \div 2 = 32

validate(config) ==
    /\ config.max_evidence_buffer > 0
    /\ \/ config.signing_key_hex = None
       \/ /\ decodes(config.signing_key_hex)
          /\ config.signing_key_hex.len \div 2 = 32

(***************************************************************************)
(* What the host hands to on_configure: nothing (size 0), a size with no   *)
(* bytes behind it, bytes serde_json rejects, or a JSON object, of which   *)
(* only the fields it has are known.                                       *)
(***************************************************************************)
PayloadKind == {"empty", "missing", "malformed", "json"}

\* #[serde(default)]: a field the object lacks takes its default.
from_slice(fields) == fields @@ DefaultConfig
=============================================================================
