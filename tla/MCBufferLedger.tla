--------------------------- MODULE MCBufferLedger ----------------------------
(* Small instances of BufferLedger, with the runs of RunLedger, for TLC.    *)
EXTENDS RunLedger

Strings == STRING

SmallCapacities == 1..3

context(vetted, class) == [was_vetted |-> vetted, has_consent_anomaly |-> FALSE,
                           taint_chain_length |-> 0, side_effect_class |-> class]

SmallContexts ==
    {context(FALSE, class) : class \in SideEffectClass} \cup {context(TRUE, "read")}

made(ctx, default_mode) ==
    [build_evidence("a", "GET /", ctx, 1700, None)
        EXCEPT !.recording_mode = max_recording_mode(@, default_mode)]

plain(class) == made(context(FALSE, class), "validation")

\* Reads are recorded in every mode: as such, below a default_mode, and vetted.
Gateway == {made(ctx, "validation") : ctx \in SmallContexts}
              \cup {made(context(FALSE, "read"), "delta")}

\* Evidence of other makers: a class of their own, or none.
Foreign == {[plain("read") EXCEPT !.side_effect_class = class] :
               class \in {"exotic", None}}

\* The same three actions, again and again.
Repeated(kinds) ==
    {[i \in 1..MaxPushes |-> three[1 + (i % 3)]] : three \in [1..3 -> kinds]}

GatewayWork == Repeated(Gateway)

MixedWork == Repeated(Foreign \cup {plain("unknown"), plain("network-egress")})
=============================================================================
