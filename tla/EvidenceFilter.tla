--------------------------- MODULE EvidenceFilter ----------------------------
(***************************************************************************)
(* The Proxy-Wasm filter of crates/proxy-wasm-evidence/src/filter.rs in    *)
(* one VM: the root context, which (re)configures the plugin, and one HTTP *)
(* context per stream.  A VM is single-threaded, so each callback is one   *)
(* atomic action; the host interleaves the callbacks of different contexts *)
(* and may reconfigure the plugin between any two of them.                 *)
(*                                                                         *)
(* What the host does (the order of the callbacks of a stream, the metric  *)
(* registry, the clock, the headers of requests and responses) is outside  *)
(* src/ and is modelled from how the filter uses it.                       *)
(***************************************************************************)
EXTENDS Recorder, PluginConfig, EvidenceBuffer, FiniteSets

CONSTANTS
    ContextIds,      \* the streams of the VM's life
    Payloads,        \* what may be handed to on_configure
    Refusals,        \* sets of metrics the host may refuse to define
    Requests,        \* request headers a stream may carry
    UpstreamHeaders, \* the x-aep-* headers a response may already carry
    ClockReadings,   \* what get_current_time may return; None is Err
    MaxAlloc         \* most entries VecDeque::with_capacity can allocate

VARIABLES
    root,       \* EvidenceRoot
    ctxs,       \* the live EvidenceFilter of each context, or None
    counters,   \* the host's counters, by metric name
    phase,      \* how far the host has driven each stream
    response,   \* the x-aep-* headers of the response that left the gateway
    accepted,   \* history: the configuration on_configure last said yes to
    hist        \* history: what each stream was given and what it captured

vars == <<root, ctxs, counters, phase, response, accepted, hist>>

-----------------------------------------------------------------------------
(* Metrics *)

MetricNames == RecordingMode \cup {"clock_failure"}

\* Metric id 0.  A metric the host defines has its name for an id here.
Refused == "refused"

EvidenceMetrics == [MetricNames -> MetricNames \cup {Refused}]

NoMetrics == [name \in MetricNames |-> Refused]

define(refusal) ==
    [name \in MetricNames |-> IF name \in refusal THEN Refused ELSE name]

\* Incrementing metric 0 is an error the filter ignores.
increment_metric(tally, id) ==
    IF id = Refused THEN tally ELSE [tally EXCEPT ![id] = @ + 1]

-----------------------------------------------------------------------------
(* Types of the inputs and of the state *)

IsRequest(req) ==
    /\ req.method \in String \cup {None}
    /\ req.path \in (SUBSET PathMarkers) \cup {None}
    /\ \A name \in DOMAIN req.headers : req.headers[name] \in HeaderValue

IsPayload(payload) ==
    /\ payload.kind \in PayloadKind
    /\ payload.kind = "json" => from_slice(payload.fields) \in Config

AepHeaders == [mode : RecordingMode \cup {None},
               risk : McpHeaderRisk \cup {None}]

ASSUME PayloadsAssumption  == \A payload \in Payloads : IsPayload(payload)
ASSUME RefusalsAssumption  == \A refusal \in Refusals : refusal \subseteq MetricNames
ASSUME RequestsAssumption  == \A req \in Requests : IsRequest(req) /\ req # None
ASSUME UpstreamAssumption  == UpstreamHeaders \subseteq AepHeaders
ASSUME ClockAssumption     == ClockReadings \subseteq Int \cup {None}
ASSUME MaxAllocAssumption  == MaxAlloc \in Nat

Evidence == [action_id         : ContextIds,
             tool_name         : String \X (SUBSET PathMarkers),
             state_changing    : BOOLEAN,
             timestamp_ms      : Nat,
             recording_mode    : RecordingMode,
             mcp_header_risk   : McpHeaderRisk \cup {None},
             side_effect_class : SideEffectClass]

FilterContext == [config          : Config,
                  evidence_buffer : Buffer(Evidence),
                  method          : String,
                  path            : SUBSET PathMarkers,
                  trace_id        : HeaderValue \cup {None},
                  agent_id        : HeaderValue \cup {None},
                  mcp_method      : HeaderValue \cup {None},
                  mcp_name        : HeaderValue \cup {None},
                  metrics         : EvidenceMetrics]

History == [config   : Config \cup {None},
            metrics  : EvidenceMetrics,
            request  : Requests \cup {None},
            clock    : ClockReadings \cup {None},
            evidence : Evidence \cup {None}]

\* None is no mode, and no evidence.
ASSUME NoEvidenceAssumption == None \notin RecordingMode /\ None \notin Evidence

Phase == {"idle", "created", "requested", "responded", "deleted", "panicked"}

\* The state of the VM and of the host has the types of the Rust fields.
TypeOK ==
    /\ root \in [config : Config, metrics : EvidenceMetrics]
    /\ ctxs \in [ContextIds -> FilterContext \cup {None}]
    /\ counters \in [MetricNames -> Nat]
    /\ phase \in [ContextIds -> Phase]
    /\ response \in [ContextIds -> AepHeaders]
    /\ accepted \in Config \cup {None}
    /\ hist \in [ContextIds -> History]

NoHeaders == [mode |-> None, risk |-> None]

Unborn == [config |-> None, metrics |-> NoMetrics, request |-> None,
           clock |-> None, evidence |-> None]

Init ==
    /\ root = [config |-> DefaultConfig, metrics |-> NoMetrics]
    /\ ctxs = [c \in ContextIds |-> None]
    /\ counters = [name \in MetricNames |-> 0]
    /\ phase = [c \in ContextIds |-> "idle"]
    /\ response = [c \in ContextIds |-> NoHeaders]
    /\ accepted = None
    /\ hist = [c \in ContextIds |-> Unborn]

\* A panic traps the VM: the host runs no callback of it any more.
Trapped == \E c \in ContextIds : phase[c] = "panicked"

-----------------------------------------------------------------------------
(* The root context *)

decode(payload) ==
    IF payload.kind = "empty" THEN DefaultConfig ELSE from_slice(payload.fields)

\* The value on_configure returns.  Size 0 skips parsing and validation.
accepts(payload) ==
    \/ payload.kind = "empty"
    \/ payload.kind = "json" /\ validate(from_slice(payload.fields))

\* Mutant: the field is assigned before validate() has its say.
config_after_Unvalidated(payload, config) ==
    IF payload.kind \in {"empty", "json"} THEN decode(payload) ELSE config

config_after(payload, config) ==
    IF accepts(payload) THEN decode(payload) ELSE config

\* The metrics are redefined first, whether or not the payload is accepted.
OnConfigure(payload, refusal) ==
    /\ ~Trapped
    /\ root' = [config  |-> config_after(payload, root.config),
                metrics |-> define(refusal)]
    /\ accepted' = IF accepts(payload) THEN decode(payload) ELSE accepted
    /\ UNCHANGED <<ctxs, counters, phase, response, hist>>

\* EvidenceFilter::new, for a capacity EvidenceBuffer::new survives.
new_filter(config, metrics) ==
    [config          |-> config,
     evidence_buffer |-> new_buffer(config.max_evidence_buffer),
     method          |-> "",
     path            |-> {},
     trace_id        |-> None,
     agent_id        |-> None,
     mcp_method      |-> None,
     mcp_name        |-> None,
     metrics         |-> metrics]

\* The assertion of EvidenceBuffer::new, or VecDeque::with_capacity in it.
new_panics(capacity) == capacity = 0 \/ capacity > MaxAlloc

\* The host routes streams to the plugin once it has accepted a configuration.
CreateHttpContext(c) ==
    /\ ~Trapped
    /\ phase[c] = "idle"
    /\ accepted # None
    /\ hist' = [hist EXCEPT ![c].config = accepted, ![c].metrics = root.metrics]
    /\ \/ /\ ~new_panics(root.config.max_evidence_buffer)
          /\ ctxs' = [ctxs EXCEPT ![c] = new_filter(root.config, root.metrics)]
          /\ phase' = [phase EXCEPT ![c] = "created"]
       \/ /\ new_panics(root.config.max_evidence_buffer)
          /\ phase' = [phase EXCEPT ![c] = "panicked"]
          /\ UNCHANGED ctxs
    /\ UNCHANGED <<root, counters, response, accepted>>

-----------------------------------------------------------------------------
(* The HTTP context: requests *)

get_http_request_header(req, name) ==
    IF name \in DOMAIN req.headers THEN req.headers[name] ELSE None

read_request(ctx, req) ==
    [ctx EXCEPT
        !.method     = unwrap_or(req.method, ""),
        !.path       = unwrap_or(req.path, {}),
        !.trace_id   = get_http_request_header(req, ctx.config.trace_id_header),
        !.agent_id   = get_http_request_header(req, ctx.config.agent_id_header),
        !.mcp_method = or_else(get_http_request_header(req, "x-mcp-method"),
                               get_http_request_header(req, "mcp-method")),
        !.mcp_name   = or_else(get_http_request_header(req, "mcp-name"),
                               get_http_request_header(req, "x-mcp-name"))]

OnHttpRequestHeaders(c, req) ==
    /\ ~Trapped
    /\ phase[c] = "created"
    /\ ctxs' = [ctxs EXCEPT ![c] = read_request(@, req)]
    /\ phase' = [phase EXCEPT ![c] = "requested"]
    /\ hist' = [hist EXCEPT ![c].request = req]
    /\ UNCHANGED <<root, counters, response, accepted>>

-----------------------------------------------------------------------------
(* The HTTP context: responses *)

\* The gateway has no vetting, consent or taint signal of its own.
risk_ctx(ctx) ==
    [was_vetted          |-> FALSE,
     has_consent_anomaly |-> FALSE,
     taint_chain_length  |-> 0,
     side_effect_class   |->
         infer_side_effect_class_with_mcp(ctx.method, ctx.path, ctx.mcp_method)]

\* Mutant: a clock that cannot be read leaves no timestamp.
current_time_ms_Unset(time) == IF time = None THEN None ELSE unix_millis(time)

current_time_ms(time) == IF time = None THEN 0 ELSE unix_millis(time)

\* Mutant: default_mode is the mode, not a floor.
evidence_of_DefaultWins(c, ctx, time) ==
    [build_evidence(c, <<ctx.method, ctx.path>>, risk_ctx(ctx),
                    current_time_ms(time),
                    classify_mcp_headers(ctx.mcp_method, ctx.mcp_name))
        EXCEPT !.recording_mode = ctx.config.default_mode]

\* default_mode is a floor under the mode the policy asks for.
evidence_of(c, ctx, time) ==
    [build_evidence(c, <<ctx.method, ctx.path>>, risk_ctx(ctx),
                    current_time_ms(time),
                    classify_mcp_headers(ctx.mcp_method, ctx.mcp_name))
        EXCEPT !.recording_mode =
                   max_recording_mode(@, ctx.config.default_mode)]

\* Mutant: the header is set before the mode is raised to the floor.
response_headers_BeforeFloor(upstream, evidence) ==
    [mode |-> IF evidence.state_changing THEN "full" ELSE "validation",
     risk |-> or_else(evidence.mcp_header_risk, upstream.risk)]

\* Both headers are replaced, but the risk header only when there is a risk.
response_headers(upstream, evidence) ==
    [mode |-> evidence.recording_mode,
     risk |-> or_else(evidence.mcp_header_risk, upstream.risk)]

\* Mutant: a clock failure is counted in place of the mode.
counted_ClockOnly(tally, ctx, time, evidence) ==
    increment_metric(tally,
        ctx.metrics[IF time = None THEN "clock_failure" ELSE evidence.recording_mode])

\* One count for the mode, after one for the clock if it could not be read.
counted(tally, ctx, time, evidence) ==
    increment_metric(
        IF time = None THEN increment_metric(tally, ctx.metrics["clock_failure"])
                       ELSE tally,
        ctx.metrics[evidence.recording_mode])

\* The response to a stream whose request headers the filter never saw (a
\* local reply of the host) finds the method and the path still empty.
OnHttpResponseHeaders(c, time, upstream) ==
    /\ ~Trapped
    /\ phase[c] \in {"created", "requested"}
    /\ LET evidence == evidence_of(c, ctxs[c], time)
       IN /\ ctxs' = [ctxs EXCEPT ![c].evidence_buffer = push(@, evidence)]
          /\ counters' = counted(counters, ctxs[c], time, evidence)
          /\ response' = [response EXCEPT ![c] = response_headers(upstream, evidence)]
          /\ hist' = [hist EXCEPT ![c].clock = time, ![c].evidence = evidence]
    /\ phase' = [phase EXCEPT ![c] = "responded"]
    /\ UNCHANGED <<root, accepted>>

\* The stream ends, whenever it likes.  The filter has no on_done or on_log:
\* its context is dropped with everything in it.
DropContext(c) ==
    /\ ~Trapped
    /\ phase[c] \in {"created", "requested", "responded"}
    /\ ctxs' = [ctxs EXCEPT ![c] = None]
    /\ phase' = [phase EXCEPT ![c] = "deleted"]
    /\ UNCHANGED <<root, counters, response, accepted, hist>>

Next ==
    \/ \E payload \in Payloads, refusal \in Refusals : OnConfigure(payload, refusal)
    \/ \E c \in ContextIds :
        \/ CreateHttpContext(c)
        \/ \E req \in Requests : OnHttpRequestHeaders(c, req)
        \/ \E time \in ClockReadings, upstream \in UpstreamHeaders :
               OnHttpResponseHeaders(c, time, upstream)
        \/ DropContext(c)

Spec == Init /\ [][Next]_vars

-----------------------------------------------------------------------------
(* Safety *)

Captured(c) == hist[c].evidence # None

\* Whatever is reconfigured while a stream is in flight, its evidence is never
\* recorded below the default_mode of the configuration that was accepted last
\* when its context was created, nor below what the policy asks for: the
\* fold with default_mode in on_http_response_headers.
AtBaseline(c) ==
    /\ mode_rank(hist[c].evidence.recording_mode)
         >= mode_rank(hist[c].config.default_mode)
    /\ hist[c].evidence.side_effect_class # "read" =>
           hist[c].evidence.recording_mode = "full"

BaselineKept == \A c \in ContextIds : Captured(c) => AtBaseline(c)

\* The method and path a stream had on the wire, "" and {} if none was seen.
WireMethod(c) == IF hist[c].request = None THEN ""
                 ELSE unwrap_or(hist[c].request.method, "")

WirePath(c) == IF hist[c].request = None THEN {}
               ELSE unwrap_or(hist[c].request.path, {})

\* The MCP operation it named: the prefixed header hides the bare one.
WireOp(c) ==
    IF hist[c].request = None THEN None
    ELSE or_else(get_http_request_header(hist[c].request, "x-mcp-method"),
                 get_http_request_header(hist[c].request, "mcp-method"))

\* The FAIL-CLOSED rule of infer_side_effect_class_with_mcp: whatever headers
\* the client sent, the evidence is at least as severe as HTTP alone makes
\* it, and state_changing unless HTTP alone says it only reads.
AsSevereAsHttp(c) ==
    LET http == infer_side_effect_class(WireMethod(c), WirePath(c))
    IN /\ severity_rank(hist[c].evidence.side_effect_class) >= severity_rank(http)
       /\ http # "read" => hist[c].evidence.state_changing

HeadersNeverLower == \A c \in ContextIds : Captured(c) => AsSevereAsHttp(c)

\* Cheap recording needs positive knowledge: below "full", the stream's own
\* request was seen, used a reading method, and named no MCP operation other
\* than one of those known to read.
KnownRead(c) ==
    /\ hist[c].request # None
    /\ to_uppercase(WireMethod(c)) \in ReadMethods
    /\ WireOp(c) # None => WireOp(c).op \in ReadOps

OnlyKnownReadsAreCheap ==
    \A c \in ContextIds :
        Captured(c) /\ hist[c].evidence.recording_mode # "full" => KnownRead(c)

\* The MCP header values of the stream's request.
ReadName(c) ==
    IF hist[c].request = None THEN None
    ELSE or_else(get_http_request_header(hist[c].request, "mcp-name"),
                 get_http_request_header(hist[c].request, "x-mcp-name"))

ReadValues(c) == {WireOp(c), ReadName(c)} \ {None}

\* No leak goes unnoticed, whichever of the two headers it is in, whatever the
\* other one holds and however long a character is: the evidence carries a
\* risk if a value starts with a credential prefix, or has 32 alphanumeric
\* characters in a row, or if the name may be an e-mail address.
LeakNoticed(c) ==
    \/ \E val \in ReadValues(c) :
           \/ starts_with_credential(val)
           \/ \E run \in val.runs : run.chars >= MIN_HIGH_ENTROPY_LEN
    \/ ReadName(c) # None /\ ReadName(c).at /\ ReadName(c).dot
    => hist[c].evidence.mcp_header_risk # None

LeaksAreNoticed == \A c \in ContextIds : Captured(c) => LeakNoticed(c)

\* on_configure refuses a configuration before it can take effect: a live
\* context runs under the configuration that was accepted last when it was
\* created, and so would the next one.
RefusedConfigNeverGoverns ==
    /\ accepted # None => root.config = accepted
    /\ \A c \in ContextIds :
           ctxs[c] # None => ctxs[c].config = hist[c].config

\* The mode the client is told is the mode of the evidence that is buffered,
\* and a header risk in the evidence is never hidden from the client by what
\* the upstream put in the response.
Told(c) ==
    /\ response[c].mode = hist[c].evidence.recording_mode
    /\ hist[c].evidence.mcp_header_risk # None =>
           response[c].risk = hist[c].evidence.mcp_header_risk
    /\ phase[c] = "responded" =>
           ctxs[c].evidence_buffer.entries = <<hist[c].evidence>>

ResponseTellsEvidence == \A c \in ContextIds : Captured(c) => Told(c)

\* The host's clock, when it can be read, is past the epoch: a stamp of 0 is
\* then no reading of it.
ClockIsSet == \A time \in ClockReadings \ {None} : time > 0

\* The host's counters account for every stream: per mode, one for each
\* response that left with that mode; and, with a clock that is set, one clock
\* failure for each evidence stamped 0.  Streams whose metric the host had
\* refused when their context was created are not counted, and a
\* reconfiguration in between loses no count and adds none.
CountersAccount ==
    /\ \A mode \in RecordingMode :
           counters[mode] = Cardinality({c \in ContextIds :
               response[c].mode = mode /\ hist[c].metrics[mode] # Refused})
    /\ ClockIsSet => counters["clock_failure"] = Cardinality({c \in ContextIds :
           /\ Captured(c)
           /\ hist[c].evidence.timestamp_ms = 0
           /\ hist[c].metrics["clock_failure"] # Refused})

\* validate() leaves one way for EvidenceFilter::new to panic: a capacity
\* that an allocation cannot serve.
PanicsOnlyBeyondAllocator ==
    \A c \in ContextIds :
        phase[c] = "panicked" => hist[c].config.max_evidence_buffer > MaxAlloc

-----------------------------------------------------------------------------
(* The inductive invariant behind the safety properties *)

InFlight(c) == phase[c] \in {"created", "requested"}

Live(c) == phase[c] \in {"created", "requested", "responded"}

\* A context in flight has read what was on the wire, and buffered nothing.
ReadsWire(c) ==
    /\ ctxs[c].method = WireMethod(c)
    /\ ctxs[c].path = WirePath(c)
    /\ ctxs[c].mcp_method = WireOp(c)
    /\ ctxs[c].mcp_name = ReadName(c)
    /\ ctxs[c].evidence_buffer.entries = << >>

\* A context exists exactly while its stream is live, under the configuration
\* accepted when it was created; only a response captures evidence.
Lifecycle(c) ==
    /\ IF Live(c) THEN ctxs[c] \in FilterContext ELSE ctxs[c] = None
    /\ phase[c] # "idle" => hist[c].config \in Config
    /\ Live(c) => ctxs[c].config = hist[c].config
    /\ phase[c] \in {"idle", "created"} => hist[c].request = None
    /\ phase[c] \notin {"responded", "deleted"} => ~Captured(c)

StreamInv(c) ==
    /\ Lifecycle(c)
    /\ InFlight(c) => ReadsWire(c)
    /\ Captured(c) =>
        /\ AtBaseline(c)
        /\ AsSevereAsHttp(c)
        /\ hist[c].evidence.recording_mode # "full" => KnownRead(c)
        /\ LeakNoticed(c)
        /\ Told(c)
    /\ phase[c] = "panicked" => hist[c].config.max_evidence_buffer > MaxAlloc

\* What the next context will be created under.
RootInv ==
    accepted # None => /\ root.config = accepted
                       /\ accepted.max_evidence_buffer > 0

IInv == RootInv /\ \A c \in ContextIds : StreamInv(c)

-----------------------------------------------------------------------------
(* Refinement *)

\* A stream whose context could not be created was never opened.
Stage == [created |-> "open", requested |-> "open", responded |-> "reported",
          deleted |-> "closed", idle |-> "idle", panicked |-> "idle"]

Floor(c) == IF phase[c] \in {"idle", "panicked"} THEN None
            ELSE hist[c].config.default_mode

Contract == INSTANCE CaptureContract WITH
    Streams  <- ContextIds,
    Modes    <- RecordingMode,
    Rank     <- mode_rank,
    stage    <- [c \in ContextIds |-> Stage[phase[c]]],
    floor    <- [c \in ContextIds |-> Floor(c)],
    reported <- [c \in ContextIds |-> response[c].mode],
    tally    <- [mode \in RecordingMode |-> counters[mode]]

\* The filter keeps the contract: on_http_response_headers is the one place a
\* mode is decided, told and counted, and nothing touches it afterwards.
KeepsContract == Contract!Spec
=============================================================================
