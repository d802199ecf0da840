------------------------------- MODULE RunLedger -------------------------------
(***************************************************************************)
(* A run of actions through an EvidenceBuffer: each entry that BufferLedger*)
(* numbers is the evidence of an action, and what the client has drained so*)
(* far is what it puts into a record and rolls up (recorder.rs,            *)
(* evidence.rs).  The gateway, whose evidence build_evidence makes, shares *)
(* the buffer and the rollups with whoever makes evidence of another kind. *)
(***************************************************************************)
EXTENDS BufferLedger, Recorder, Rollup

CONSTANTS Contexts,      \* what build_evidence is told of an action's risk
          GatewayRuns,   \* sequences of evidence, each made by the gateway
          MixedRuns      \* sequences of any evidence

\* The class of another maker's evidence is any string, or absent.
ActionEvidence == [action_id         : String,
                   tool_name         : String,
                   state_changing    : BOOLEAN,
                   timestamp_ms      : Nat,
                   recording_mode    : RecordingMode,
                   mcp_header_risk   : McpHeaderRisk \cup {None},
                   side_effect_class : String \cup {None}]

\* The gateway lets build_evidence fill the evidence in, then raises the mode
\* to its default_mode.
MadeByGateway(evidence) ==
    \E ctx \in Contexts, default_mode \in RecordingMode :
        evidence = [build_evidence(evidence.action_id, evidence.tool_name, ctx,
                                   evidence.timestamp_ms, evidence.mcp_header_risk)
                       EXCEPT !.recording_mode = max_recording_mode(@, default_mode)]

ASSUME ContextsAssumption == Contexts \subseteq RiskContext
ASSUME NoClassAssumption  == None \notin SideEffectClass
ASSUME RunsAssumption     == GatewayRuns \cup MixedRuns \subseteq Seq(ActionEvidence)
ASSUME GatewayAssumption  ==
    \A run \in GatewayRuns : \A i \in DOMAIN run : MadeByGateway(run[i])

VARIABLE work            \* the evidence of the action of each number

run_vars == <<vars, work>>

RunInit ==
    /\ Init
    /\ work \in GatewayRuns \cup MixedRuns

RunPush == pushed < Len(work) /\ Push /\ UNCHANGED work

RunDrain == Drain /\ UNCHANGED work

RunNext == RunPush \/ RunDrain

RunSpec == RunInit /\ [][RunNext]_run_vars

-----------------------------------------------------------------------------

\* The actions that the client can put into its record, and all there were.
Recorded == [i \in DOMAIN delivered |-> work[delivered[i]]]

Performed == SubSeq(work, 1, pushed)

\* dropped_total is the completeness signal of a record: if it is 0 once the
\* buffer is drained, the rollups of what was drained are those of the whole run;
\* only a drop, or a drain still to come, can make a run look milder than
\* it was, and nothing makes it look worse.
RollupsCoverTheRun ==
    LET class == run_side_effect_class_max(Recorded)
        mode  == strictest_recording_mode(Recorded)
        whole_class == run_side_effect_class_max(Performed)
        whole_mode  == strictest_recording_mode(Performed)
    IN /\ class # None => class_order(class) <= class_order(whole_class)
       /\ mode # None => mode_order(mode) <= mode_order(whole_mode)
       /\ buf.entries = << >> /\ buf.dropped_total = 0 =>
              class = whole_class /\ mode = whole_mode

\* "unknown ranks highest (forces review)": one recorded action whose class is
\* unknown, or no class of the vocabulary, is enough for the class of the run
\* to be none that a reviewer would take for a known effect.
UnknownForcesReview ==
    (\E i \in DOMAIN Recorded : Recorded[i].side_effect_class # None
         /\ Recorded[i].side_effect_class \notin SideEffectClass \ {"unknown"})
    => run_side_effect_class_max(Recorded) \notin SideEffectClass \ {"unknown"}

\* The two rollups of a gateway run, each over an order of its own, agree: the
\* class of a run recorded at less than "full" is one of the two cheap ones,
\* and a run of reads only is known to be one.
RollupsAgree ==
    work \in GatewayRuns /\ delivered # << >> =>
        LET class == run_side_effect_class_max(Recorded)
            mode  == strictest_recording_mode(Recorded)
        IN /\ mode # "full" => class \in {"read", "mutate-local"}
           /\ mode = "validation" => class = "read"
           /\ class = "read" => \A i \in DOMAIN Recorded : ~Recorded[i].state_changing
=============================================================================
