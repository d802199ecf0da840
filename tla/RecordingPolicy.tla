--------------------------- MODULE RecordingPolicy ---------------------------
(***************************************************************************)
(* The recording policy of aep-core: how much evidence an action deserves  *)
(* (crates/aep-core/src/recording.rs).  Pure operators, no state.  The     *)
(* human-readable "reason" of a policy is wording and is left out.         *)
(***************************************************************************)
EXTENDS Naturals

\* Cheapest first: see max_recording_mode in Recorder for the order.
RecordingMode == {"validation", "delta", "full"}

SideEffectClass ==
    {"read", "mutate-local", "mutate-external", "network-egress", "unknown"}

RiskContext == [was_vetted          : BOOLEAN,
                has_consent_anomaly : BOOLEAN,
                taint_chain_length  : Nat,
                side_effect_class   : SideEffectClass]

\* Mutant: an action on the network is not one with effects outside.
ForcesFull_LocalNetwork(ctx) ==
    \/ ctx.was_vetted
    \/ ctx.has_consent_anomaly
    \/ ctx.taint_chain_length > 0 /\ ctx.side_effect_class # "read"
    \/ ctx.side_effect_class \in {"unknown", "mutate-external"}

\* The rules that force full capture, in the order the code tries them; as
\* each of them returns "full", the first match is as good as any match.
ForcesFull(ctx) ==
    \/ ctx.was_vetted
    \/ ctx.has_consent_anomaly
    \/ ctx.taint_chain_length > 0 /\ ctx.side_effect_class # "read"
    \/ ctx.side_effect_class = "unknown"
    \/ ctx.side_effect_class \in {"mutate-external", "network-egress"}

compile_recording_policy(ctx) ==
    IF ForcesFull(ctx) THEN "full"
    ELSE IF ctx.side_effect_class = "mutate-local" THEN "delta"
    ELSE "validation"
=============================================================================
