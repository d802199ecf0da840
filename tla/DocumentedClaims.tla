-------------------------- MODULE DocumentedClaims ---------------------------
(***************************************************************************)
(* What comments and documents of the repository say of the filter and the *)
(* code does not do: each is stated as they say it, and a run shows a      *)
(* behaviour of EvidenceFilter that breaks it.                             *)
(***************************************************************************)
EXTENDS EvidenceFilter

\* recorder.rs:23-24, "dropped evidence must be observable, never silent", and
\* emitter.rs:74-75, "The Wasm filter calls `emit` after `assemble_and_sign`":
\* captured evidence is in the buffer of a live context or counted as dropped.
CapturedEvidenceIsAccounted ==
    \A c \in ContextIds : Captured(c) =>
        /\ ctxs[c] # None
        /\ Len(ctxs[c].evidence_buffer.entries)
             + ctxs[c].evidence_buffer.dropped_total = 1

\* mcp_headers.rs:6-20: three layers "in priority order", "both `mcp_method`
\* and `mcp_name` are checked" for a credential prefix first, and the function
\* "Returns the highest-severity [`McpHeaderRisk`] detected".
CredentialLeakComesFirst ==
    \A c \in ContextIds :
        Captured(c) /\ (\E val \in ReadValues(c) : starts_with_credential(val)) =>
            hist[c].evidence.mcp_header_risk = "credential_leak"

HasEmptyKey(payload) ==
    /\ payload.kind = "json"
    /\ LET config == from_slice(payload.fields)
       IN /\ config.signing_key_hex # None
          /\ config.signing_key_hex.len = 0
          /\ validate([config EXCEPT !.signing_key_hex = None])

\* docs/configuration.md:108-109: "Evidence signing is skipped when
\* `signing_key_hex` is empty" (and the Envoy example at line 81 leaves it
\* empty): a configuration at fault in nothing else is accepted.
EmptyKeyIsAccepted ==
    [][\A payload \in Payloads, refusal \in Refusals :
           HasEmptyKey(payload) /\ OnConfigure(payload, refusal) =>
               accepted' = from_slice(payload.fields)]_vars
=============================================================================
