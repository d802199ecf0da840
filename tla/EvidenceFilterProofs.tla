------------------------ MODULE EvidenceFilterProofs -------------------------
(***************************************************************************)
(* Theorems about the filter, for every set of streams, of requests, of    *)
(* configurations and of host behaviours.                                  *)
(***************************************************************************)
EXTENDS EvidenceFilter, TLAPS

-----------------------------------------------------------------------------
(* What the operators return *)

\* PluginConfig::default() is a configuration.
LEMMA DefaultConfigType == DefaultConfig \in Config
<1>1. "x-b3-traceid" \in String /\ "x-agent-id" \in String
  BY StringAssumption
<1>2. 1024 \in Nat /\ "validation" \in RecordingMode /\ None \in SigningKeyHex \cup {None}
  BY DEF RecordingMode
<1> QED BY <1>1, <1>2 DEF DefaultConfig, Config

\* Whatever on_configure makes of a payload, a configuration remains one.
LEMMA ConfigAfterType ==
  ASSUME NEW payload \in Payloads, NEW config \in Config
  PROVE  /\ config_after(payload, config) \in Config
         /\ accepts(payload) => decode(payload) \in Config
  BY PayloadsAssumption, DefaultConfigType
     DEF config_after, accepts, decode, IsPayload

\* EvidenceMetrics::define() gives every metric an id.
LEMMA DefineType ==
  ASSUME NEW refusal PROVE define(refusal) \in EvidenceMetrics
  BY DEF define, EvidenceMetrics

LEMMA NoMetricsType == NoMetrics \in EvidenceMetrics
  BY DEF NoMetrics, EvidenceMetrics

\* A counter never leaves the naturals.
LEMMA IncrementType ==
  ASSUME NEW tally \in [MetricNames -> Nat], NEW id \in MetricNames \cup {Refused}
  PROVE  increment_metric(tally, id) \in [MetricNames -> Nat]
  BY DEF increment_metric

\* EvidenceBuffer::push keeps a buffer a buffer.
LEMMA PushType ==
  ASSUME NEW Entry, NEW buf \in Buffer(Entry), NEW entry \in Entry
  PROVE  push(buf, entry) \in Buffer(Entry)
<1> DEFINE kept == IF is_full(buf) THEN Tail(buf.entries) ELSE buf.entries
<1>1. kept \in Seq(Entry)
  <2>1. buf.entries \in Seq(Entry) /\ buf.capacity \in Nat \ {0}
    BY DEF Buffer
  <2>2. CASE is_full(buf)
    BY <2>1, <2>2 DEF is_full
  <2>3. CASE ~is_full(buf)
    BY <2>1, <2>3
  <2> QED BY <2>2, <2>3
<1> DEFINE dropped == IF is_full(buf) THEN buf.dropped_total + 1 ELSE buf.dropped_total
<1>2. Append(kept, entry) \in Seq(Entry)
  BY <1>1
<1>3. dropped \in Nat
  BY DEF Buffer
<1>4. push(buf, entry) = [buf EXCEPT !.entries = Append(kept, entry),
                                    !.dropped_total = dropped]
  BY DEF push, Buffer
<1> HIDE DEF kept, dropped
<1> QED BY <1>2, <1>3, <1>4 DEF Buffer

\* Every request gets one of the five classes.
LEMMA ClassType ==
  ASSUME NEW method, NEW path, NEW mcp_method
  PROVE  /\ infer_side_effect_class(method, path) \in SideEffectClass
         /\ mcp_class(mcp_method) \in SideEffectClass
         /\ infer_side_effect_class_with_mcp(method, path, mcp_method)
                \in SideEffectClass
  BY DEF infer_side_effect_class, mcp_class, infer_side_effect_class_with_mcp,
         max_severity, SideEffectClass

\* A header leak is one of the three, or none.
LEMMA RiskType ==
  ASSUME NEW mcp_method, NEW mcp_name
  PROVE  classify_mcp_headers(mcp_method, mcp_name) \in McpHeaderRisk \cup {None}
  BY DEF classify_mcp_headers, value_risk, McpHeaderRisk

\* classify_mcp_headers leaves no leak of either value unreported: a run has at
\* least as many bytes as characters, and a leak found first hides no other.
LEMMA LeaksAreClassified ==
  ASSUME NEW mcp_method \in HeaderValue \cup {None},
         NEW mcp_name \in HeaderValue \cup {None},
         \/ \E val \in {mcp_method, mcp_name} \ {None} :
                \/ starts_with_credential(val)
                \/ \E run \in val.runs : run.chars >= MIN_HIGH_ENTROPY_LEN
         \/ mcp_name # None /\ mcp_name.at /\ mcp_name.dot
  PROVE  classify_mcp_headers(mcp_method, mcp_name) # None
<1>1. /\ "credential_leak" # None /\ "high_entropy_value" # None
      /\ "pii_leak" # None
  BY NoneAssumption DEF McpHeaderRisk
<1>2. ASSUME NEW val \in HeaderValue, NEW run \in val.runs,
             run.chars >= MIN_HIGH_ENTROPY_LEN
      PROVE  is_high_entropy(val)
  <2>1. run.chars \in Nat /\ run.bytes \in Nat /\ run.chars <= run.bytes
    BY <1>2 DEF HeaderValue
  <2> QED BY <1>2, <2>1 DEF is_high_entropy, MIN_HIGH_ENTROPY_LEN
<1>3. ASSUME NEW val \in {mcp_method, mcp_name} \ {None},
             \/ starts_with_credential(val)
             \/ \E run \in val.runs : run.chars >= MIN_HIGH_ENTROPY_LEN
      PROVE  value_risk(val) # None
  BY <1>1, <1>2, <1>3 DEF value_risk
<1>4. CASE \E val \in {mcp_method, mcp_name} \ {None} : value_risk(val) # None
  BY <1>1, <1>4 DEF classify_mcp_headers
<1>5. CASE mcp_name # None /\ mcp_name.at /\ mcp_name.dot
  BY <1>1, <1>5 DEF classify_mcp_headers
<1> QED BY <1>3, <1>4, <1>5

LEMMA PolicyType ==
  ASSUME NEW ctx PROVE compile_recording_policy(ctx) \in RecordingMode
  BY DEF compile_recording_policy, RecordingMode

\* A header is a value or None.
LEMMA HeaderType ==
  ASSUME NEW req \in Requests, NEW name
  PROVE  get_http_request_header(req, name) \in HeaderValue \cup {None}
  BY RequestsAssumption DEF get_http_request_header, IsRequest

\* new_filter makes a context when EvidenceBuffer::new does not panic.
LEMMA NewFilterType ==
  ASSUME NEW config \in Config, NEW metrics \in EvidenceMetrics,
         ~new_panics(config.max_evidence_buffer)
  PROVE  new_filter(config, metrics) \in FilterContext
<1>1. new_buffer(config.max_evidence_buffer) \in Buffer(Evidence)
  BY DEF new_buffer, Buffer, new_panics, Config
<1>2. "" \in String /\ {} \in SUBSET PathMarkers
  BY StringAssumption
<1> QED BY <1>1, <1>2 DEF new_filter, FilterContext

\* on_http_request_headers keeps a context a context.
LEMMA ReadRequestType ==
  ASSUME NEW ctx \in FilterContext, NEW req \in Requests
  PROVE  read_request(ctx, req) \in FilterContext
<1>1. unwrap_or(req.method, "") \in String
  BY RequestsAssumption, StringAssumption DEF IsRequest, unwrap_or
<1>2. unwrap_or(req.path, {}) \in SUBSET PathMarkers
  BY RequestsAssumption DEF IsRequest, unwrap_or
<1>3. \A name : get_http_request_header(req, name) \in HeaderValue \cup {None}
  BY HeaderType
<1>4. \A n1, n2 : or_else(get_http_request_header(req, n1),
                          get_http_request_header(req, n2))
                      \in HeaderValue \cup {None}
  BY <1>3 DEF or_else
<1> QED BY <1>1, <1>2, <1>3, <1>4 DEF read_request, FilterContext

\* on_http_response_headers builds an ActionEvidence.
LEMMA EvidenceType ==
  ASSUME NEW c \in ContextIds, NEW ctx \in FilterContext, NEW time \in ClockReadings
  PROVE  evidence_of(c, ctx, time) \in Evidence
<1>1. current_time_ms(time) \in Nat
  <2>1. CASE time = None
    BY <2>1 DEF current_time_ms
  <2>2. CASE time # None
    <3>1. time \in Int
      BY <2>2, ClockAssumption
    <3>2. current_time_ms(time) = unix_millis(time)
      BY <2>2 DEF current_time_ms
    <3>3. CASE time < 0
      BY <3>1, <3>2, <3>3 DEF unix_millis, unix_millis_checked, unwrap_or
    <3>4. CASE ~(time < 0)
      BY <3>1, <3>2, <3>4 DEF unix_millis, unix_millis_checked, unwrap_or
    <3> QED BY <3>3, <3>4
  <2> QED BY <2>1, <2>2
<1> DEFINE class == infer_side_effect_class_with_mcp(ctx.method, ctx.path, ctx.mcp_method)
           risk  == classify_mcp_headers(ctx.mcp_method, ctx.mcp_name)
           mode  == max_recording_mode(compile_recording_policy(risk_ctx(ctx)),
                                       ctx.config.default_mode)
<1>2. class \in SideEffectClass
  BY ClassType
<1>3. risk \in McpHeaderRisk \cup {None}
  BY RiskType
<1>4. mode \in RecordingMode
  BY PolicyType DEF max_recording_mode, FilterContext, Config
<1>5. <<ctx.method, ctx.path>> \in String \X (SUBSET PathMarkers)
  BY DEF FilterContext
<1>6. evidence_of(c, ctx, time) =
        [action_id         |-> c,
         tool_name         |-> <<ctx.method, ctx.path>>,
         state_changing    |-> class # "read",
         timestamp_ms      |-> current_time_ms(time),
         recording_mode    |-> mode,
         mcp_header_risk   |-> risk,
         side_effect_class |-> class]
  BY DEF evidence_of, build_evidence, risk_ctx
<1> HIDE DEF class, risk, mode
<1> QED BY <1>1, <1>2, <1>3, <1>4, <1>5, <1>6 DEF Evidence

\* The headers that leave the gateway are a mode and perhaps a risk.
LEMMA ResponseType ==
  ASSUME NEW upstream \in AepHeaders, NEW evidence \in Evidence
  PROVE  response_headers(upstream, evidence) \in AepHeaders
  BY DEF response_headers, or_else, AepHeaders, Evidence

\* Counting a response keeps the counters numbers.
LEMMA CountedType ==
  ASSUME NEW tally \in [MetricNames -> Nat], NEW ctx \in FilterContext, NEW time,
         NEW evidence \in Evidence
  PROVE  counted(tally, ctx, time, evidence) \in [MetricNames -> Nat]
<1>1. /\ ctx.metrics["clock_failure"] \in MetricNames \cup {Refused}
      /\ ctx.metrics[evidence.recording_mode] \in MetricNames \cup {Refused}
  BY DEF FilterContext, EvidenceMetrics, Evidence, MetricNames
<1>2. (IF time = None THEN increment_metric(tally, ctx.metrics["clock_failure"])
                      ELSE tally) \in [MetricNames -> Nat]
  BY <1>1, IncrementType
<1> QED BY <1>1, <1>2, IncrementType DEF counted

-----------------------------------------------------------------------------
(* Types *)

\* Contexts are typed, and those the host still calls back exist.
Typed == TypeOK /\ \A c \in ContextIds : Live(c) => ctxs[c] \in FilterContext

LEMMA TypedInit == Init => Typed
<1> SUFFICES ASSUME Init PROVE Typed
  OBVIOUS
<1>1. root \in [config : Config, metrics : EvidenceMetrics]
  BY DefaultConfigType, NoMetricsType DEF Init
<1>2. hist \in [ContextIds -> History]
  BY NoMetricsType DEF Init, Unborn, History
<1>3. response \in [ContextIds -> AepHeaders]
  BY DEF Init, NoHeaders, AepHeaders
<1> QED BY <1>1, <1>2, <1>3 DEF Init, Typed, TypeOK, Phase, Live

LEMMA TypedNext == Typed /\ [Next]_vars => Typed'
<1> SUFFICES ASSUME Typed, [Next]_vars PROVE Typed'
  OBVIOUS
<1> USE DEF Typed, TypeOK
<1>1. ASSUME NEW payload \in Payloads, NEW refusal \in Refusals,
             OnConfigure(payload, refusal)
      PROVE  Typed'
  <2>1. root' \in [config : Config, metrics : EvidenceMetrics]
    BY <1>1, ConfigAfterType, DefineType DEF OnConfigure
  <2>2. accepted' \in Config \cup {None}
    BY <1>1, ConfigAfterType DEF OnConfigure
  <2> QED BY <1>1, <2>1, <2>2 DEF OnConfigure, Live
<1>2. ASSUME NEW c \in ContextIds, CreateHttpContext(c) PROVE Typed'
  <2>1. hist' \in [ContextIds -> History]
    <3>1. accepted \in Config /\ root.metrics \in EvidenceMetrics
      BY <1>2 DEF CreateHttpContext
    <3>2. [hist[c] EXCEPT !.config = accepted, !.metrics = root.metrics] \in History
      BY <3>1 DEF History
    <3>3. hist' = [hist EXCEPT ![c] =
                     [hist[c] EXCEPT !.config = accepted, !.metrics = root.metrics]]
      BY <1>2 DEF CreateHttpContext
    <3> QED BY <3>2, <3>3
  <2>2. CASE ~new_panics(root.config.max_evidence_buffer)
    <3>1. new_filter(root.config, root.metrics) \in FilterContext
      BY <2>2, NewFilterType
    <3> QED BY <1>2, <2>1, <2>2, <3>1 DEF CreateHttpContext, Phase, Live
  <2>3. CASE new_panics(root.config.max_evidence_buffer)
    BY <1>2, <2>1, <2>3 DEF CreateHttpContext, Phase, Live
  <2> QED BY <2>2, <2>3
<1>3. ASSUME NEW c \in ContextIds, NEW req \in Requests,
             OnHttpRequestHeaders(c, req)
      PROVE  Typed'
  <2>1. read_request(ctxs[c], req) \in FilterContext
    BY <1>3, ReadRequestType DEF OnHttpRequestHeaders, Live
  <2>2. hist' \in [ContextIds -> History]
    BY <1>3 DEF OnHttpRequestHeaders, History
  <2> QED BY <1>3, <2>1, <2>2 DEF OnHttpRequestHeaders, Phase, Live
<1>4. ASSUME NEW c \in ContextIds, NEW time \in ClockReadings,
             NEW upstream \in UpstreamHeaders,
             OnHttpResponseHeaders(c, time, upstream)
      PROVE  Typed'
  <2> DEFINE evidence == evidence_of(c, ctxs[c], time)
  <2>1. ctxs[c] \in FilterContext
    BY <1>4 DEF OnHttpResponseHeaders, Live
  <2>2. evidence \in Evidence
    BY <2>1, EvidenceType
  <2>3. /\ ctxs' = [ctxs EXCEPT ![c].evidence_buffer = push(@, evidence)]
        /\ counters' = counted(counters, ctxs[c], time, evidence)
        /\ response' = [response EXCEPT ![c] = response_headers(upstream, evidence)]
        /\ hist' = [hist EXCEPT ![c].clock = time, ![c].evidence = evidence]
        /\ phase' = [phase EXCEPT ![c] = "responded"]
        /\ UNCHANGED <<root, accepted>>
    BY <1>4 DEF OnHttpResponseHeaders
  <2> HIDE DEF evidence
  <2>4. ctxs' \in [ContextIds -> FilterContext \cup {None}]
        /\ ctxs'[c] \in FilterContext
    <3>1. push(ctxs[c].evidence_buffer, evidence) \in Buffer(Evidence)
      BY <2>1, <2>2, PushType DEF FilterContext
    <3> QED BY <2>1, <2>3, <3>1 DEF FilterContext
  <2>5. counters' \in [MetricNames -> Nat]
    BY <2>1, <2>2, <2>3, CountedType
  <2>6. response' \in [ContextIds -> AepHeaders]
    BY <2>2, <2>3, ResponseType, UpstreamAssumption
  <2>7. hist' \in [ContextIds -> History]
    BY <2>2, <2>3 DEF History
  <2> QED BY <2>3, <2>4, <2>5, <2>6, <2>7 DEF Phase, Live
<1>5. ASSUME NEW c \in ContextIds, DropContext(c) PROVE Typed'
  BY <1>5 DEF DropContext, Phase, Live
<1>6. CASE UNCHANGED vars
  BY <1>6 DEF vars, Live
<1> QED BY <1>1, <1>2, <1>3, <1>4, <1>5, <1>6 DEF Next

\* Along every behaviour of the filter, the fields of EvidenceRoot and of each
\* EvidenceFilter keep their Rust types.
THEOREM TypeCorrect == Spec => []TypeOK
<1>1. Typed => TypeOK
  BY DEF Typed
<1> QED BY <1>1, TypedInit, TypedNext, PTL DEF Spec

-----------------------------------------------------------------------------
(* What the recorder decides *)

\* The classes infer_side_effect_class_with_mcp can return: never mutate-local.
LEMMA InferredClass ==
  ASSUME NEW method, NEW path, NEW mcp_method
  PROVE  infer_side_effect_class_with_mcp(method, path, mcp_method)
             \in {"read", "unknown", "mutate-external", "network-egress"}
  BY DEF infer_side_effect_class, mcp_class, infer_side_effect_class_with_mcp,
         max_severity

\* max_severity returns one of its arguments, and is below neither.
LEMMA MaxSeverity ==
  ASSUME NEW a \in SideEffectClass, NEW b \in SideEffectClass
  PROVE  /\ max_severity(a, b) \in {a, b}
         /\ severity_rank(max_severity(a, b)) >= severity_rank(a)
         /\ max_severity(a, b) = "read" => a = "read" /\ b = "read"
<1>1. severity_rank(a) \in Nat /\ severity_rank(b) \in Nat
  BY DEF severity_rank, SideEffectClass
<1>2. severity_rank(a) = 0 => a = "read"
  BY DEF severity_rank, SideEffectClass
<1>3. severity_rank(b) = 0 => b = "read"
  BY DEF severity_rank, SideEffectClass
<1>4. severity_rank("read") = 0
  BY DEF severity_rank
<1> QED BY <1>1, <1>2, <1>3, <1>4 DEF max_severity

\* The MCP-Method header may raise the verdict of HTTP, never lower it; and a
\* verdict of "read" needs both layers to agree.
LEMMA HeaderOnlyRaises ==
  ASSUME NEW method, NEW path, NEW mcp_method
  PROVE  LET http  == infer_side_effect_class(method, path)
             class == infer_side_effect_class_with_mcp(method, path, mcp_method)
         IN /\ severity_rank(class) >= severity_rank(http)
            /\ class = "read" => /\ http = "read"
                                 /\ to_uppercase(method) \in ReadMethods
                                 /\ mcp_method # None => mcp_method.op \in ReadOps
<1> DEFINE http  == infer_side_effect_class(method, path)
           class == infer_side_effect_class_with_mcp(method, path, mcp_method)
<1>1. http \in SideEffectClass /\ mcp_class(mcp_method) \in SideEffectClass
  BY ClassType
<1>2. severity_rank(http) \in Nat
  BY <1>1 DEF severity_rank, SideEffectClass
<1>3. http = "read" => to_uppercase(method) \in ReadMethods
  BY DEF infer_side_effect_class
<1>4. mcp_class(mcp_method) = "read" => mcp_method.op \in ReadOps
  BY DEF mcp_class
<1>5. class = IF mcp_method = None THEN http
              ELSE max_severity(http, mcp_class(mcp_method))
  BY DEF infer_side_effect_class_with_mcp
<1> HIDE DEF http, class
<1>6. severity_rank(class) >= severity_rank(http)
  BY <1>1, <1>2, <1>5, MaxSeverity
<1>7. class = "read" => /\ http = "read"
                        /\ to_uppercase(method) \in ReadMethods
                        /\ mcp_method # None => mcp_method.op \in ReadOps
  BY <1>1, <1>3, <1>4, <1>5, MaxSeverity
<1> QED BY <1>6, <1>7 DEF http, class

\* What a response records of the request its context has read.
LEMMA EvidenceFacts ==
  ASSUME NEW c \in ContextIds, NEW ctx \in FilterContext, NEW time \in ClockReadings
  PROVE  LET evidence == evidence_of(c, ctx, time)
             class    == infer_side_effect_class_with_mcp(
                             ctx.method, ctx.path, ctx.mcp_method)
         IN /\ evidence.side_effect_class = class
            /\ evidence.state_changing = (class # "read")
            /\ mode_rank(evidence.recording_mode)
                 >= mode_rank(ctx.config.default_mode)
            /\ class # "read" => evidence.recording_mode = "full"
            /\ evidence.mcp_header_risk =
                   classify_mcp_headers(ctx.mcp_method, ctx.mcp_name)
<1> DEFINE class  == infer_side_effect_class_with_mcp(
                         ctx.method, ctx.path, ctx.mcp_method)
           policy == compile_recording_policy(risk_ctx(ctx))
           floor  == ctx.config.default_mode
<1>1. class \in {"read", "unknown", "mutate-external", "network-egress"}
  BY InferredClass
<1>2. class # "read" => policy = "full"
  <2>1. risk_ctx(ctx).side_effect_class = class
    BY DEF risk_ctx
  <2> HIDE DEF class
  <2> QED BY <1>1, <2>1 DEF compile_recording_policy, ForcesFull
<1>3. policy \in RecordingMode /\ floor \in RecordingMode
  BY PolicyType DEF FilterContext, Config
<1>4. /\ evidence_of(c, ctx, time).side_effect_class = class
      /\ evidence_of(c, ctx, time).state_changing = (class # "read")
      /\ evidence_of(c, ctx, time).recording_mode = max_recording_mode(policy, floor)
      /\ evidence_of(c, ctx, time).mcp_header_risk =
             classify_mcp_headers(ctx.mcp_method, ctx.mcp_name)
  BY DEF evidence_of, build_evidence, risk_ctx
<1> HIDE DEF class, policy, floor
<1>5. mode_rank(max_recording_mode(policy, floor)) >= mode_rank(floor)
  BY <1>3 DEF max_recording_mode, mode_rank, RecordingMode
<1>6. policy = "full" => max_recording_mode(policy, floor) = "full"
  BY <1>3 DEF max_recording_mode, mode_rank, RecordingMode
<1> QED BY <1>2, <1>4, <1>5, <1>6 DEF class, floor

-----------------------------------------------------------------------------
(* Safety *)

\* A stream keeps its part of the invariant when a step leaves it alone.
LEMMA StreamFrame ==
  ASSUME NEW s \in ContextIds, StreamInv(s),
         ctxs'[s] = ctxs[s], phase'[s] = phase[s],
         response'[s] = response[s], hist'[s] = hist[s]
  PROVE  StreamInv(s)'
<1>1. /\ WireMethod(s)' = WireMethod(s)
      /\ WirePath(s)' = WirePath(s)
      /\ WireOp(s)' = WireOp(s)
      /\ ReadName(s)' = ReadName(s)
      /\ Captured(s)' = Captured(s)
  BY DEF WireMethod, WirePath, WireOp, ReadName, Captured
<1>2. Lifecycle(s)'
  BY <1>1 DEF StreamInv, Lifecycle, Live
<1>3. InFlight(s)' => ReadsWire(s)'
  BY <1>1 DEF StreamInv, InFlight, ReadsWire
<1>4. Captured(s)' => /\ AtBaseline(s)'
                      /\ AsSevereAsHttp(s)'
                      /\ LeakNoticed(s)'
                      /\ Told(s)'
  BY <1>1 DEF StreamInv, AtBaseline, AsSevereAsHttp, LeakNoticed, ReadValues, Told
<1>5. Captured(s)' /\ hist'[s].evidence.recording_mode # "full" => KnownRead(s)'
  BY <1>1 DEF StreamInv, KnownRead
<1>6. phase'[s] = "panicked" => hist'[s].config.max_evidence_buffer > MaxAlloc
  BY DEF StreamInv
<1> QED BY <1>2, <1>3, <1>4, <1>5, <1>6 DEF StreamInv

LEMMA IInvInit == Init => IInv
<1> SUFFICES ASSUME Init PROVE IInv
  OBVIOUS
<1>1. RootInv
  BY DEF Init, RootInv
<1>2. ASSUME NEW s \in ContextIds PROVE StreamInv(s)
  BY DEF Init, StreamInv, Lifecycle, Live, InFlight, Captured, Unborn
<1> QED BY <1>1, <1>2 DEF IInv

\* A reconfiguration, accepted or refused, moves no stream.
LEMMA IInvConfigure ==
  ASSUME Typed, IInv, NEW payload \in Payloads, NEW refusal \in Refusals,
         OnConfigure(payload, refusal)
  PROVE  IInv'
<1>1. RootInv'
  <2>1. CASE accepts(payload)
    <3>1. accepted' = decode(payload) /\ root'.config = decode(payload)
      BY <2>1 DEF OnConfigure, config_after
    <3>2. decode(payload).max_evidence_buffer > 0
      <4>1. CASE payload.kind = "empty"
        BY <4>1 DEF decode, DefaultConfig
      <4>2. CASE payload.kind # "empty"
        BY <2>1, <4>2 DEF accepts, decode, validate
      <4> QED BY <4>1, <4>2
    <3> QED BY <3>1, <3>2 DEF RootInv
  <2>2. CASE ~accepts(payload)
    BY <2>2 DEF OnConfigure, config_after, IInv, RootInv
  <2> QED BY <2>1, <2>2
<1>2. ASSUME NEW s \in ContextIds PROVE StreamInv(s)'
  BY StreamFrame DEF OnConfigure, IInv
<1> QED BY <1>1, <1>2 DEF IInv

\* A context starts under the accepted configuration, or traps the VM on a
\* capacity beyond the allocator.
LEMMA IInvCreate ==
  ASSUME Typed, IInv, NEW c \in ContextIds, CreateHttpContext(c)
  PROVE  IInv'
<1>1. RootInv'
  BY DEF CreateHttpContext, IInv, RootInv
<1>2. ASSUME NEW s \in ContextIds, s # c PROVE StreamInv(s)'
  BY <1>2, StreamFrame DEF CreateHttpContext, IInv, Typed, TypeOK
<1>3. StreamInv(c)'
  <2>1. /\ accepted \in Config /\ root.config = accepted
        /\ root.config.max_evidence_buffer > 0
    BY DEF CreateHttpContext, Typed, TypeOK, IInv, RootInv
  <2>2. /\ hist'[c].config = accepted
        /\ hist'[c].request = hist[c].request
        /\ hist'[c].evidence = hist[c].evidence
    BY DEF CreateHttpContext, Typed, TypeOK, History
  <2>3. hist[c].request = None /\ hist[c].evidence = None /\ ctxs[c] = None
    BY DEF CreateHttpContext, IInv, StreamInv, Lifecycle, Live, Captured
  <2>4. CASE ~new_panics(root.config.max_evidence_buffer)
    <3>1. ctxs'[c] = new_filter(root.config, root.metrics) /\ phase'[c] = "created"
      BY <2>4 DEF CreateHttpContext, Typed, TypeOK
    <3>2. ctxs'[c] \in FilterContext
      BY <2>1, <2>4, <3>1, NewFilterType DEF Typed, TypeOK
    <3>3. /\ ctxs'[c].config = accepted
          /\ ctxs'[c].method = "" /\ ctxs'[c].path = {}
          /\ ctxs'[c].mcp_method = None /\ ctxs'[c].mcp_name = None
          /\ ctxs'[c].evidence_buffer.entries = << >>
      <4> DEFINE new == new_filter(root.config, root.metrics)
      <4>1. /\ new.config = root.config
            /\ new.method = "" /\ new.path = {}
            /\ new.mcp_method = None /\ new.mcp_name = None
            /\ new.evidence_buffer = new_buffer(root.config.max_evidence_buffer)
        BY DEF new_filter
      <4>2. \A n : new_buffer(n).entries = << >>
        BY DEF new_buffer
      <4> HIDE DEF new
      <4>3. ctxs'[c] = new
        BY <3>1 DEF new
      <4> QED BY <2>1, <4>1, <4>2, <4>3
    <3>4. ~Captured(c)'
      BY <2>2, <2>3 DEF Captured
    <3>5. Lifecycle(c)'
      BY <2>1, <2>2, <2>3, <3>1, <3>2, <3>3, <3>4 DEF Lifecycle, Live
    <3>6. ReadsWire(c)'
      BY <2>2, <2>3, <3>3 DEF ReadsWire, WireMethod, WirePath, WireOp, ReadName
    <3> QED BY <3>1, <3>4, <3>5, <3>6 DEF StreamInv
  <2>5. CASE new_panics(root.config.max_evidence_buffer)
    <3>1. ctxs'[c] = None /\ phase'[c] = "panicked"
      BY <2>3, <2>5 DEF CreateHttpContext, Typed, TypeOK
    <3>2. Lifecycle(c)' /\ ~Captured(c)'
      BY <2>1, <2>2, <2>3, <3>1 DEF Lifecycle, Live, Captured
    <3>3. hist'[c].config.max_evidence_buffer > MaxAlloc
      BY <2>1, <2>2, <2>5 DEF new_panics
    <3> QED BY <3>1, <3>2, <3>3 DEF StreamInv, InFlight
  <2> QED BY <2>4, <2>5
<1> QED BY <1>1, <1>2, <1>3 DEF IInv

\* Request headers are read as they are on the wire.
LEMMA IInvRequest ==
  ASSUME Typed, IInv, NEW c \in ContextIds, NEW req \in Requests,
         OnHttpRequestHeaders(c, req)
  PROVE  IInv'
<1>1. RootInv'
  BY DEF OnHttpRequestHeaders, IInv, RootInv
<1>2. ASSUME NEW s \in ContextIds, s # c PROVE StreamInv(s)'
  BY <1>2, StreamFrame DEF OnHttpRequestHeaders, IInv, Typed, TypeOK
<1>3. StreamInv(c)'
  <2>1. /\ ctxs[c] \in FilterContext /\ ~Captured(c)
        /\ ctxs[c].evidence_buffer.entries = << >>
        /\ ctxs[c].config = hist[c].config /\ hist[c].config \in Config
    BY DEF OnHttpRequestHeaders, IInv, StreamInv, Lifecycle, Live, InFlight, ReadsWire
  <2>2. /\ ctxs'[c] = read_request(ctxs[c], req) /\ phase'[c] = "requested"
        /\ hist'[c].request = req
        /\ hist'[c].config = hist[c].config
        /\ hist'[c].evidence = hist[c].evidence
    BY DEF OnHttpRequestHeaders, Typed, TypeOK, History
  <2>3. ctxs'[c] \in FilterContext
    BY <2>1, <2>2, ReadRequestType
  <2>4. ctxs'[c].config = ctxs[c].config
    BY <2>1, <2>2 DEF read_request, FilterContext
  <2>5. Lifecycle(c)' /\ ~Captured(c)'
    BY <2>1, <2>2, <2>3, <2>4 DEF Lifecycle, Live, Captured
  <2>6. ReadsWire(c)'
    <3>1. req # None
      BY RequestsAssumption
    <3> QED BY <2>1, <2>2, <3>1
            DEF ReadsWire, WireMethod, WirePath, WireOp, ReadName, read_request,
                FilterContext
  <2> QED BY <2>2, <2>5, <2>6 DEF StreamInv
<1> QED BY <1>1, <1>2, <1>3 DEF IInv

\* A response captures evidence of what its context has read, above its floor,
\* and tells the client the mode it recorded.
LEMMA IInvResponse ==
  ASSUME Typed, IInv, NEW c \in ContextIds, NEW time \in ClockReadings,
         NEW upstream \in UpstreamHeaders,
         OnHttpResponseHeaders(c, time, upstream)
  PROVE  IInv'
<1> DEFINE evidence == evidence_of(c, ctxs[c], time)
           class    == infer_side_effect_class_with_mcp(
                           ctxs[c].method, ctxs[c].path, ctxs[c].mcp_method)
<1>1. RootInv'
  BY DEF OnHttpResponseHeaders, IInv, RootInv
<1>2. ASSUME NEW s \in ContextIds, s # c PROVE StreamInv(s)'
  BY <1>2, StreamFrame DEF OnHttpResponseHeaders, IInv, Typed, TypeOK
<1>3. /\ ctxs[c] \in FilterContext
      /\ ctxs[c].config = hist[c].config
      /\ hist[c].config \in Config
      /\ ReadsWire(c)
  BY DEF OnHttpResponseHeaders, IInv, StreamInv, Lifecycle, Live, InFlight
<1>4. evidence \in Evidence
  BY <1>3, EvidenceType
<1>5. /\ evidence.side_effect_class = class
      /\ evidence.state_changing = (class # "read")
      /\ mode_rank(evidence.recording_mode) >= mode_rank(ctxs[c].config.default_mode)
      /\ class # "read" => evidence.recording_mode = "full"
      /\ evidence.mcp_header_risk =
             classify_mcp_headers(ctxs[c].mcp_method, ctxs[c].mcp_name)
  BY <1>3, EvidenceFacts
<1>6. /\ ctxs' = [ctxs EXCEPT ![c].evidence_buffer = push(@, evidence)]
      /\ response' = [response EXCEPT ![c] = response_headers(upstream, evidence)]
      /\ hist' = [hist EXCEPT ![c].clock = time, ![c].evidence = evidence]
      /\ phase' = [phase EXCEPT ![c] = "responded"]
  BY DEF OnHttpResponseHeaders
<1>7. LET http == infer_side_effect_class(ctxs[c].method, ctxs[c].path)
      IN /\ severity_rank(class) >= severity_rank(http)
         /\ class = "read" =>
             /\ http = "read"
             /\ to_uppercase(ctxs[c].method) \in ReadMethods
             /\ ctxs[c].mcp_method # None => ctxs[c].mcp_method.op \in ReadOps
  BY HeaderOnlyRaises
<1> HIDE DEF evidence, class
<1>8. /\ hist'[c].evidence = evidence
      /\ hist'[c].config = hist[c].config
      /\ hist'[c].request = hist[c].request
      /\ response'[c] = response_headers(upstream, evidence)
      /\ phase'[c] = "responded"
  BY <1>6 DEF Typed, TypeOK, History
<1>9. /\ WireMethod(c)' = ctxs[c].method
      /\ WirePath(c)' = ctxs[c].path
      /\ WireOp(c)' = ctxs[c].mcp_method
      /\ ReadName(c)' = ctxs[c].mcp_name
  BY <1>3, <1>8 DEF ReadsWire, WireMethod, WirePath, WireOp, ReadName
<1>10. /\ ctxs'[c] \in FilterContext
       /\ ctxs'[c].config = ctxs[c].config
       /\ ctxs'[c].evidence_buffer.entries = <<evidence>>
  <2>1. push(ctxs[c].evidence_buffer, evidence) \in Buffer(Evidence)
    BY <1>3, <1>4, PushType DEF FilterContext
  <2>2. push(ctxs[c].evidence_buffer, evidence).entries = <<evidence>>
    <3>1. /\ ctxs[c].evidence_buffer \in Buffer(Evidence)
          /\ ctxs[c].evidence_buffer.entries = << >>
      BY <1>3 DEF ReadsWire, FilterContext
    <3>2. ~is_full(ctxs[c].evidence_buffer)
      BY <3>1 DEF is_full, Buffer
    <3> QED BY <3>1, <3>2 DEF push, Buffer
  <2>3. ctxs'[c] = [ctxs[c] EXCEPT !.evidence_buffer = push(@, evidence)]
    BY <1>6 DEF Typed, TypeOK
  <2> QED BY <1>3, <2>1, <2>2, <2>3 DEF FilterContext
<1>11. Lifecycle(c)'
  <2>1. Live(c)' /\ phase'[c] \notin {"idle", "created"}
    BY <1>8 DEF Live
  <2> QED BY <1>3, <1>8, <1>10, <2>1 DEF Lifecycle
<1>12. AtBaseline(c)'
  BY <1>3, <1>5, <1>8 DEF AtBaseline
<1>13. AsSevereAsHttp(c)'
  BY <1>5, <1>7, <1>8, <1>9 DEF AsSevereAsHttp
<1>14. hist'[c].evidence.recording_mode # "full" => KnownRead(c)'
  <2>1. SUFFICES ASSUME evidence.recording_mode # "full" PROVE KnownRead(c)'
    BY <1>8
  <2>2. class = "read"
    BY <1>5, <2>1
  <2>3. /\ to_uppercase(WireMethod(c)') \in ReadMethods
        /\ WireOp(c)' # None => WireOp(c)'.op \in ReadOps
    BY <1>7, <1>9, <2>2
  <2>4. hist'[c].request # None
    <3>1. to_uppercase("") \notin ReadMethods
      BY DEF to_uppercase, UpperOf, ReadMethods
    <3> QED BY <2>3, <3>1 DEF WireMethod
  <2> QED BY <2>3, <2>4 DEF KnownRead
<1>15. Told(c)'
  BY <1>8, <1>10 DEF Told, response_headers, or_else
<1>16. LeakNoticed(c)'
  <2>1. /\ ctxs[c].mcp_method \in HeaderValue \cup {None}
        /\ ctxs[c].mcp_name \in HeaderValue \cup {None}
    BY <1>3 DEF FilterContext
  <2>2. /\ ReadValues(c)' = {ctxs[c].mcp_method, ctxs[c].mcp_name} \ {None}
        /\ hist'[c].evidence.mcp_header_risk =
               classify_mcp_headers(ctxs[c].mcp_method, ctxs[c].mcp_name)
    BY <1>5, <1>8, <1>9 DEF ReadValues
  <2> QED BY <1>9, <2>1, <2>2, LeaksAreClassified DEF LeakNoticed
<1> QED
  <2>1. StreamInv(c)'
    BY <1>8, <1>11, <1>12, <1>13, <1>14, <1>15, <1>16 DEF StreamInv, InFlight
  <2> QED BY <1>1, <1>2, <2>1 DEF IInv

\* The end of a stream destroys its context; its history stays as it was.
LEMMA IInvDrop ==
  ASSUME Typed, IInv, NEW c \in ContextIds, DropContext(c)
  PROVE  IInv'
<1>1. RootInv'
  BY DEF DropContext, IInv, RootInv
<1>2. ASSUME NEW s \in ContextIds, s # c PROVE StreamInv(s)'
  BY <1>2, StreamFrame DEF DropContext, IInv, Typed, TypeOK
<1>3. StreamInv(c)'
  <2>1. /\ ctxs'[c] = None /\ phase'[c] = "deleted"
        /\ hist'[c] = hist[c] /\ response'[c] = response[c]
    BY DEF DropContext, Typed, TypeOK
  <2>2. Lifecycle(c)'
    BY <2>1 DEF DropContext, IInv, StreamInv, Lifecycle, Live
  <2>3. /\ WireMethod(c)' = WireMethod(c)
        /\ WirePath(c)' = WirePath(c)
        /\ WireOp(c)' = WireOp(c)
        /\ ReadName(c)' = ReadName(c)
        /\ Captured(c)' = Captured(c)
    BY <2>1 DEF WireMethod, WirePath, WireOp, ReadName, Captured
  <2>4. Captured(c)' => /\ AtBaseline(c)'
                        /\ AsSevereAsHttp(c)'
                        /\ LeakNoticed(c)'
                        /\ Told(c)'
    BY <2>1, <2>3 DEF IInv, StreamInv, AtBaseline, AsSevereAsHttp, LeakNoticed,
                      ReadValues, Told
  <2>5. Captured(c)' /\ hist'[c].evidence.recording_mode # "full" => KnownRead(c)'
    BY <2>1, <2>3 DEF IInv, StreamInv, KnownRead
  <2> QED BY <2>1, <2>2, <2>4, <2>5 DEF StreamInv, InFlight
<1> QED BY <1>1, <1>2, <1>3 DEF IInv

LEMMA IInvNext == Typed /\ IInv /\ [Next]_vars => IInv'
<1> SUFFICES ASSUME Typed, IInv, [Next]_vars PROVE IInv'
  OBVIOUS
<1>1. CASE Next
  BY <1>1, IInvConfigure, IInvCreate, IInvRequest, IInvResponse, IInvDrop DEF Next
<1>2. CASE UNCHANGED vars
  <2>1. RootInv'
    BY <1>2 DEF vars, IInv, RootInv
  <2>2. ASSUME NEW s \in ContextIds PROVE StreamInv(s)'
    BY <1>2, StreamFrame DEF vars, IInv
  <2> QED BY <2>1, <2>2 DEF IInv
<1> QED BY <1>1, <1>2

LEMMA Inductive == Spec => []IInv
<1> QED BY TypedInit, TypedNext, IInvInit, IInvNext, PTL DEF Spec

\* The operator's default_mode is a floor for every stream, whatever is
\* reconfigured while it is in flight (on_http_response_headers).
THEOREM BaselineIsKept == Spec => []BaselineKept
<1>1. IInv => BaselineKept
  BY DEF IInv, StreamInv, BaselineKept
<1> QED BY <1>1, Inductive, PTL

\* Client headers never lower what HTTP alone establishes: the FAIL-CLOSED
\* rule of infer_side_effect_class_with_mcp, for every request.
THEOREM HeadersNeverLowerTheVerdict == Spec => []HeadersNeverLower
<1>1. IInv => HeadersNeverLower
  BY DEF IInv, StreamInv, HeadersNeverLower
<1> QED BY <1>1, Inductive, PTL

\* Less than full capture only for requests known to read.
THEOREM CheapOnlyForKnownReads == Spec => []OnlyKnownReadsAreCheap
<1>1. IInv => OnlyKnownReadsAreCheap
  BY DEF IInv, StreamInv, OnlyKnownReadsAreCheap
<1> QED BY <1>1, Inductive, PTL

\* A leak in either MCP header is in the evidence, whatever the other one holds
\* and however its characters are encoded (classify_mcp_headers).
THEOREM LeaksAreAlwaysNoticed == Spec => []LeaksAreNoticed
<1>1. IInv => LeaksAreNoticed
  BY DEF IInv, StreamInv, LeaksAreNoticed
<1> QED BY <1>1, Inductive, PTL

\* No context ever runs under a configuration on_configure refused.
THEOREM RefusedConfigIsInert == Spec => []RefusedConfigNeverGoverns
<1>1. IInv => RefusedConfigNeverGoverns
  BY DEF IInv, RootInv, StreamInv, Lifecycle, RefusedConfigNeverGoverns
<1> QED BY <1>1, Inductive, PTL

\* The x-aep-* response headers and the buffered evidence agree.
THEOREM ResponseMatchesEvidence == Spec => []ResponseTellsEvidence
<1>1. IInv => ResponseTellsEvidence
  BY DEF IInv, StreamInv, ResponseTellsEvidence
<1> QED BY <1>1, Inductive, PTL

\* validate() rules out every panic of EvidenceBuffer::new except that of an
\* allocation too large.
THEOREM OnlyAllocationPanics == Spec => []PanicsOnlyBeyondAllocator
<1>1. IInv => PanicsOnlyBeyondAllocator
  BY DEF IInv, StreamInv, PanicsOnlyBeyondAllocator
<1> QED BY <1>1, Inductive, PTL
=============================================================================
