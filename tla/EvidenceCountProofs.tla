------------------------- MODULE EvidenceCountProofs --------------------------
(***************************************************************************)
(* What the host's counters say of the streams, and that the filter        *)
(* implements CaptureContract: for every set of streams, finite or not,    *)
(* and every host.                                                         *)
(***************************************************************************)
EXTENDS EvidenceFilterProofs, FiniteSetTheorems

-----------------------------------------------------------------------------
(* Which counter a context counts with *)

\* A metric that was defined has its name for an id: no count goes astray.
OwnIds(metrics) == \A name \in MetricNames : metrics[name] \in {name, Refused}

\* A context counts with the metrics that it was created with, and no mode
\* is told before evidence was captured.
Metered(c) ==
    /\ Live(c) => ctxs[c].metrics = hist[c].metrics
    /\ OwnIds(hist[c].metrics)
    /\ ~Captured(c) => response[c].mode = None

MeterInv == OwnIds(root.metrics) /\ \A c \in ContextIds : Metered(c)

LEMMA MeterInvInit == Init => MeterInv
<1> SUFFICES ASSUME Init PROVE MeterInv
  OBVIOUS
<1>1. OwnIds(NoMetrics)
  BY DEF OwnIds, NoMetrics
<1>2. OwnIds(root.metrics)
  BY <1>1 DEF Init
<1>3. ASSUME NEW c \in ContextIds PROVE Metered(c)
  BY <1>1 DEF Init, Metered, Live, Unborn, NoHeaders
<1> QED BY <1>2, <1>3 DEF MeterInv

\* A stream keeps its part of MeterInv when a step leaves its metrics, its
\* evidence and its response alone, and makes it no more live than it was.
LEMMA MeterFrame ==
  ASSUME NEW s \in ContextIds, Metered(s), Live(s)' => Live(s),
         Live(s)' => ctxs'[s].metrics = ctxs[s].metrics,
         hist'[s].metrics = hist[s].metrics,
         hist'[s].evidence = hist[s].evidence,
         response'[s] = response[s]
  PROVE  Metered(s)'
<1>1. Captured(s)' = Captured(s)
  BY DEF Captured
<1> QED BY <1>1 DEF Metered

LEMMA MeterInvNext == Typed /\ IInv /\ MeterInv /\ [Next]_vars => MeterInv'
<1> SUFFICES ASSUME Typed, IInv, MeterInv, [Next]_vars PROVE MeterInv'
  OBVIOUS
<1>1. ASSUME NEW payload \in Payloads, NEW refusal \in Refusals,
             OnConfigure(payload, refusal)
      PROVE  MeterInv'
  <2>1. OwnIds(root'.metrics)
    BY <1>1 DEF OnConfigure, OwnIds, define
  <2>2. ASSUME NEW s \in ContextIds PROVE Metered(s)'
    BY <1>1, MeterFrame DEF OnConfigure, MeterInv, Live
  <2> QED BY <2>1, <2>2 DEF MeterInv
<1>2. ASSUME NEW c \in ContextIds, CreateHttpContext(c) PROVE MeterInv'
  <2>1. root' = root /\ response' = response
    BY <1>2 DEF CreateHttpContext
  <2>2. /\ hist'[c].metrics = root.metrics
        /\ hist'[c].evidence = hist[c].evidence
    BY <1>2 DEF CreateHttpContext, Typed, TypeOK, History
  <2>3. Live(c)' => ctxs'[c].metrics = root.metrics
    <3>1. \A config, metrics : new_filter(config, metrics).metrics = metrics
      BY DEF new_filter
    <3> QED BY <1>2, <3>1 DEF CreateHttpContext, Live, Typed, TypeOK
  <2>4. ~Captured(c) /\ ~Captured(c)'
    BY <1>2, <2>2 DEF CreateHttpContext, IInv, StreamInv, Lifecycle, Captured
  <2>5. Metered(c)'
    BY <2>1, <2>2, <2>3, <2>4 DEF Metered, MeterInv
  <2>6. ASSUME NEW s \in ContextIds, s # c PROVE Metered(s)'
    <3>1. ctxs'[s] = ctxs[s] /\ phase'[s] = phase[s] /\ hist'[s] = hist[s]
      BY <1>2, <2>6 DEF CreateHttpContext, Typed, TypeOK
    <3> QED BY <2>1, <3>1, MeterFrame DEF MeterInv, Live
  <2> QED BY <2>1, <2>5, <2>6 DEF MeterInv
<1>3. ASSUME NEW c \in ContextIds, NEW req \in Requests, OnHttpRequestHeaders(c, req)
      PROVE  MeterInv'
  <2>1. root' = root /\ response' = response
    BY <1>3 DEF OnHttpRequestHeaders
  <2>2. ASSUME NEW s \in ContextIds PROVE Metered(s)'
    <3>1. CASE s # c
      <4>1. ctxs'[s] = ctxs[s] /\ phase'[s] = phase[s] /\ hist'[s] = hist[s]
        BY <1>3, <3>1 DEF OnHttpRequestHeaders, Typed, TypeOK
      <4> QED BY <2>1, <4>1, MeterFrame DEF MeterInv, Live
    <3>2. CASE s = c
      <4>1. Live(c) /\ ctxs[c] \in FilterContext
        BY <1>3 DEF OnHttpRequestHeaders, Live, Typed
      <4>2. ctxs'[c].metrics = ctxs[c].metrics
        BY <1>3, <4>1 DEF OnHttpRequestHeaders, read_request, FilterContext, Typed, TypeOK
      <4>3. /\ hist'[c].metrics = hist[c].metrics
            /\ hist'[c].evidence = hist[c].evidence
        BY <1>3 DEF OnHttpRequestHeaders, Typed, TypeOK, History
      <4> QED BY <2>1, <3>2, <4>1, <4>2, <4>3, MeterFrame DEF MeterInv
    <3> QED BY <3>1, <3>2
  <2> QED BY <2>1, <2>2 DEF MeterInv
<1>4. ASSUME NEW c \in ContextIds, NEW time \in ClockReadings,
             NEW upstream \in UpstreamHeaders,
             OnHttpResponseHeaders(c, time, upstream)
      PROVE  MeterInv'
  <2> DEFINE evidence == evidence_of(c, ctxs[c], time)
  <2>1. Live(c) /\ ctxs[c] \in FilterContext
    BY <1>4 DEF OnHttpResponseHeaders, Live, Typed
  <2>2. evidence # None
    BY <2>1, EvidenceType, NoEvidenceAssumption
  <2>3. /\ root' = root
        /\ ctxs' = [ctxs EXCEPT ![c].evidence_buffer = push(@, evidence)]
        /\ response' = [response EXCEPT ![c] = response_headers(upstream, evidence)]
        /\ hist' = [hist EXCEPT ![c].clock = time, ![c].evidence = evidence]
        /\ phase' = [phase EXCEPT ![c] = "responded"]
    BY <1>4 DEF OnHttpResponseHeaders
  <2> HIDE DEF evidence
  <2>4. Metered(c)'
    <3>1. hist'[c].metrics = hist[c].metrics /\ hist'[c].evidence = evidence
      BY <2>3 DEF Typed, TypeOK, History
    <3>2. ctxs'[c].metrics = ctxs[c].metrics
      BY <2>1, <2>3 DEF Typed, TypeOK, FilterContext
    <3> QED BY <2>1, <2>2, <3>1, <3>2 DEF Metered, MeterInv, Captured
  <2>5. ASSUME NEW s \in ContextIds, s # c PROVE Metered(s)'
    <3>1. /\ ctxs'[s] = ctxs[s] /\ phase'[s] = phase[s]
          /\ hist'[s] = hist[s] /\ response'[s] = response[s]
      BY <2>3, <2>5 DEF Typed, TypeOK
    <3> QED BY <3>1, MeterFrame DEF MeterInv, Live
  <2> QED BY <2>3, <2>4, <2>5 DEF MeterInv
<1>5. ASSUME NEW c \in ContextIds, DropContext(c) PROVE MeterInv'
  <2>1. UNCHANGED <<root, response, hist>>
    BY <1>5 DEF DropContext
  <2>2. ASSUME NEW s \in ContextIds PROVE Metered(s)'
    <3>1. Live(s)' => s # c
      BY <1>5 DEF DropContext, Live, Typed, TypeOK
    <3>2. Live(s)' => Live(s) /\ ctxs'[s] = ctxs[s]
      BY <1>5, <3>1 DEF DropContext, Live, Typed, TypeOK
    <3> QED BY <2>1, <3>2, MeterFrame DEF MeterInv
  <2> QED BY <2>1, <2>2 DEF MeterInv
<1>6. CASE UNCHANGED vars
  BY <1>6, MeterFrame DEF vars, MeterInv, Live
<1> QED BY <1>1, <1>2, <1>3, <1>4, <1>5, <1>6 DEF Next

-----------------------------------------------------------------------------
(* The counters *)

\* What on_http_response_headers counts: the mode, and a clock that could not
\* be read, each once and under its own name.
Counts(name, time, evidence) ==
    \/ name = evidence.recording_mode
    \/ name = "clock_failure" /\ time = None

LEMMA CountedFacts ==
  ASSUME NEW tally \in [MetricNames -> Nat], NEW ctx \in FilterContext, NEW time,
         NEW evidence \in Evidence, OwnIds(ctx.metrics), NEW name \in MetricNames
  PROVE  counted(tally, ctx, time, evidence)[name] =
             IF Counts(name, time, evidence) /\ ctx.metrics[name] # Refused
             THEN tally[name] + 1 ELSE tally[name]
<1> DEFINE clock == ctx.metrics["clock_failure"]
           mode  == evidence.recording_mode
           first == IF time = None THEN increment_metric(tally, clock) ELSE tally
<1>1. /\ "clock_failure" \in MetricNames /\ mode \in MetricNames
      /\ mode # "clock_failure" /\ Refused \notin MetricNames
  BY DEF MetricNames, Evidence, RecordingMode, Refused
<1>2. clock \in {"clock_failure", Refused} /\ ctx.metrics[mode] \in {mode, Refused}
  BY <1>1 DEF OwnIds
<1>3. /\ first \in [MetricNames -> Nat]
      /\ \A other \in MetricNames :
             first[other] = IF other = "clock_failure" /\ time = None /\ clock # Refused
                            THEN tally[other] + 1 ELSE tally[other]
  <2> HIDE DEF clock
  <2>1. CASE time = None /\ clock # Refused
    <3>1. first = [tally EXCEPT !["clock_failure"] = @ + 1]
      BY <1>2, <2>1 DEF increment_metric
    <3> QED BY <1>1, <2>1, <3>1
  <2>2. CASE ~(time = None /\ clock # Refused)
    BY <2>2 DEF increment_metric
  <2> QED BY <2>1, <2>2
<1>4. counted(tally, ctx, time, evidence) = increment_metric(first, ctx.metrics[mode])
  BY DEF counted
<1> HIDE DEF first, mode
<1>5. CASE ctx.metrics[mode] = Refused
  BY <1>1, <1>3, <1>4, <1>5 DEF increment_metric, Counts, mode
<1>6. CASE ctx.metrics[mode] # Refused
  <2>1. counted(tally, ctx, time, evidence) = [first EXCEPT ![mode] = @ + 1]
    BY <1>2, <1>4, <1>6 DEF increment_metric
  <2> QED BY <1>1, <1>3, <1>6, <2>1 DEF Counts, mode
<1> QED BY <1>5, <1>6

\* The streams that a counter accounts for, as CountersAccount says.
Accounted(name) ==
    {c \in ContextIds :
        /\ hist[c].metrics[name] # Refused
        /\ IF name = "clock_failure"
           THEN Captured(c) /\ hist[c].evidence.timestamp_ms = 0
           ELSE response[c].mode = name}

\* That each counter is the number of its streams is inductive when these
\* are known to be finitely many, as they are after any number of responses.
Accounts(name) ==
    /\ IsFiniteSet(Accounted(name))
    /\ counters[name] = Cardinality(Accounted(name))

CountInv ==
    \A name \in MetricNames : (name = "clock_failure" => ClockIsSet) => Accounts(name)

LEMMA CountInvInit == Init => CountInv
<1> SUFFICES ASSUME Init, NEW name \in MetricNames
             PROVE  IsFiniteSet(Accounted(name)) /\ counters[name] = Cardinality(Accounted(name))
  BY DEF CountInv, Accounts
<1>1. Accounted(name) = {}
  BY NoEvidenceAssumption DEF Init, Accounted, Captured, Unborn, NoHeaders, NoMetrics
<1>2. counters[name] = 0
  BY DEF Init
<1> QED BY <1>1, <1>2, FS_EmptySet

\* A stamp is 0 exactly if the clock could not be read.
LEMMA StampOfClock ==
  ASSUME ClockIsSet, NEW c \in ContextIds, NEW ctx \in FilterContext,
         NEW time \in ClockReadings
  PROVE  (evidence_of(c, ctx, time).timestamp_ms = 0) <=> (time = None)
<1>1. evidence_of(c, ctx, time).timestamp_ms = current_time_ms(time)
  BY DEF evidence_of, build_evidence
<1>2. CASE time = None
  BY <1>1, <1>2 DEF current_time_ms
<1>3. CASE time # None
  <2>1. time \in Int /\ time > 0
    BY <1>3, ClockAssumption DEF ClockIsSet
  <2>2. current_time_ms(time) = unix_millis(time)
    BY <1>3 DEF current_time_ms
  <2>3. unix_millis(time) = time
    BY <1>3, <2>1 DEF unix_millis, unix_millis_checked, unwrap_or
  <2> QED BY <1>1, <1>3, <2>1, <2>2, <2>3
<1> QED BY <1>2, <1>3

\* A step that captures nothing accounts for no stream more or less.
LEMMA CountFrame ==
  ASSUME CountInv, counters' = counters, response' = response,
         \A s \in ContextIds : /\ hist'[s].evidence = hist[s].evidence
                               /\ \/ hist'[s].metrics = hist[s].metrics
                                  \/ ~Captured(s) /\ response[s].mode = None
  PROVE  CountInv'
<1> SUFFICES ASSUME NEW name \in MetricNames
             PROVE  Accounted(name)' = Accounted(name)
  BY DEF CountInv, Accounts
<1>1. \A s \in ContextIds : Captured(s)' = Captured(s)
  BY DEF Captured
<1>2. name # "clock_failure" => name # None
  BY NoEvidenceAssumption DEF MetricNames
<1> QED BY <1>1, <1>2 DEF Accounted

LEMMA CountInvResponse ==
  ASSUME Typed, IInv, MeterInv, CountInv,
         NEW c \in ContextIds, NEW time \in ClockReadings,
         NEW upstream \in UpstreamHeaders,
         OnHttpResponseHeaders(c, time, upstream)
  PROVE  CountInv'
<1> DEFINE evidence == evidence_of(c, ctxs[c], time)
<1>1. ctxs[c] \in FilterContext
  BY DEF OnHttpResponseHeaders, Live, Typed
<1>2. /\ evidence \in Evidence /\ evidence # None
      /\ ClockIsSet => ((evidence.timestamp_ms = 0) <=> (time = None))
  BY <1>1, EvidenceType, NoEvidenceAssumption, StampOfClock
<1>3. /\ counters' = counted(counters, ctxs[c], time, evidence)
      /\ response' = [response EXCEPT ![c] = response_headers(upstream, evidence)]
      /\ hist' = [hist EXCEPT ![c].clock = time, ![c].evidence = evidence]
  BY DEF OnHttpResponseHeaders
<1>4. ctxs[c].metrics = hist[c].metrics /\ OwnIds(ctxs[c].metrics)
  BY DEF MeterInv, Metered, OnHttpResponseHeaders, Live
<1>5. ~Captured(c) /\ response[c].mode = None
  BY DEF OnHttpResponseHeaders, IInv, StreamInv, Lifecycle, MeterInv, Metered
<1> HIDE DEF evidence
<1>6. /\ response'[c].mode = evidence.recording_mode
      /\ hist'[c].evidence = evidence
      /\ hist'[c].metrics = hist[c].metrics
      /\ \A s \in ContextIds \ {c} : hist'[s] = hist[s] /\ response'[s] = response[s]
  BY <1>3 DEF Typed, TypeOK, History, response_headers
<1> SUFFICES ASSUME NEW name \in MetricNames, name = "clock_failure" => ClockIsSet
             PROVE  /\ IsFiniteSet(Accounted(name)')
                    /\ counters'[name] = Cardinality(Accounted(name)')
  BY DEF CountInv, Accounts
<1>7. /\ IsFiniteSet(Accounted(name)) /\ counters[name] = Cardinality(Accounted(name))
  BY DEF CountInv, Accounts
<1>8. counters'[name] =
          IF Counts(name, time, evidence) /\ hist[c].metrics[name] # Refused
          THEN counters[name] + 1 ELSE counters[name]
  BY <1>1, <1>2, <1>3, <1>4, CountedFacts DEF Typed, TypeOK
<1>9. c \notin Accounted(name)
  BY <1>5, NoEvidenceAssumption DEF Accounted, MetricNames
<1>10. \A s \in ContextIds \ {c} : s \in Accounted(name)' <=> s \in Accounted(name)
  BY <1>6 DEF Accounted, Captured
<1>11. c \in Accounted(name)' <=>
           Counts(name, time, evidence) /\ hist[c].metrics[name] # Refused
  <2>1. evidence.recording_mode # "clock_failure"
    BY <1>2 DEF Evidence, RecordingMode
  <2> QED BY <1>2, <1>6, <2>1 DEF Accounted, Captured, Counts
<1>12. Accounted(name) \subseteq ContextIds /\ Accounted(name)' \subseteq ContextIds
  BY DEF Accounted
<1>13. CASE Counts(name, time, evidence) /\ hist[c].metrics[name] # Refused
  <2>1. Accounted(name)' = Accounted(name) \cup {c}
    BY <1>10, <1>11, <1>12, <1>13
  <2> QED BY <1>7, <1>8, <1>9, <1>13, <2>1, FS_AddElement
<1>14. CASE ~(Counts(name, time, evidence) /\ hist[c].metrics[name] # Refused)
  <2>1. Accounted(name)' = Accounted(name)
    BY <1>9, <1>10, <1>11, <1>12, <1>14
  <2> QED BY <1>7, <1>8, <1>14, <2>1
<1> QED BY <1>13, <1>14

LEMMA CountInvNext ==
  ASSUME Typed, IInv, MeterInv, CountInv, [Next]_vars PROVE CountInv'
<1>1. ASSUME NEW payload \in Payloads, NEW refusal \in Refusals,
             OnConfigure(payload, refusal)
      PROVE  CountInv'
  BY <1>1, CountFrame DEF OnConfigure
<1>2. ASSUME NEW c \in ContextIds, CreateHttpContext(c) PROVE CountInv'
  <2>1. counters' = counters /\ response' = response
    BY <1>2 DEF CreateHttpContext
  <2>2. hist'[c].evidence = hist[c].evidence
    BY <1>2 DEF CreateHttpContext, Typed, TypeOK, History
  <2>3. ~Captured(c) /\ response[c].mode = None
    BY <1>2 DEF CreateHttpContext, IInv, StreamInv, Lifecycle, MeterInv, Metered
  <2>4. \A s \in ContextIds \ {c} : hist'[s] = hist[s]
    BY <1>2 DEF CreateHttpContext, Typed, TypeOK
  <2> QED BY <2>1, <2>2, <2>3, <2>4, CountFrame
<1>3. ASSUME NEW c \in ContextIds, NEW req \in Requests, OnHttpRequestHeaders(c, req)
      PROVE  CountInv'
  <2>1. counters' = counters /\ response' = response
    BY <1>3 DEF OnHttpRequestHeaders
  <2>2. \A s \in ContextIds : /\ hist'[s].evidence = hist[s].evidence
                              /\ hist'[s].metrics = hist[s].metrics
    BY <1>3 DEF OnHttpRequestHeaders, Typed, TypeOK, History
  <2> QED BY <2>1, <2>2, CountFrame
<1>4. ASSUME NEW c \in ContextIds, NEW time \in ClockReadings,
             NEW upstream \in UpstreamHeaders,
             OnHttpResponseHeaders(c, time, upstream)
      PROVE  CountInv'
  BY <1>4, CountInvResponse
<1>5. ASSUME NEW c \in ContextIds, DropContext(c) PROVE CountInv'
  BY <1>5, CountFrame DEF DropContext
<1>6. CASE UNCHANGED vars
  BY <1>6, CountFrame DEF vars
<1> QED BY <1>1, <1>2, <1>3, <1>4, <1>5, <1>6 DEF Next

LEMMA InductiveMeter == Spec => [](Typed /\ IInv /\ MeterInv)
<1> QED BY TypedInit, TypedNext, IInvInit, IInvNext, MeterInvInit, MeterInvNext,
           PTL DEF Spec

\* The counters of the host are the numbers of responses told each mode and of
\* stamps without a clock, for any number of streams and reconfigurations.
THEOREM CountersAlwaysAccount == Spec => []CountersAccount
<1>1. CountInv => CountersAccount
  <2> SUFFICES ASSUME CountInv PROVE CountersAccount
    OBVIOUS
  <2>1. ASSUME NEW mode \in RecordingMode
        PROVE  counters[mode] = Cardinality({c \in ContextIds :
                   response[c].mode = mode /\ hist[c].metrics[mode] # Refused})
    <3>1. mode \in MetricNames /\ mode # "clock_failure"
      BY DEF MetricNames, RecordingMode
    <3>2. Accounted(mode) = {c \in ContextIds :
              response[c].mode = mode /\ hist[c].metrics[mode] # Refused}
      BY <3>1 DEF Accounted
    <3> QED BY <3>1, <3>2 DEF CountInv, Accounts
  <2>2. ASSUME ClockIsSet
        PROVE  counters["clock_failure"] = Cardinality({c \in ContextIds :
                   /\ Captured(c)
                   /\ hist[c].evidence.timestamp_ms = 0
                   /\ hist[c].metrics["clock_failure"] # Refused})
    <3>1. Accounted("clock_failure") = {c \in ContextIds :
            /\ Captured(c)
            /\ hist[c].evidence.timestamp_ms = 0
            /\ hist[c].metrics["clock_failure"] # Refused}
      BY DEF Accounted
    <3> QED BY <2>2, <3>1 DEF CountInv, Accounts, MetricNames
  <2> QED BY <2>1, <2>2 DEF CountersAccount
<1>2. CountInv /\ Typed /\ IInv /\ MeterInv /\ [Next]_vars => CountInv'
  BY CountInvNext
<1> QED BY <1>1, <1>2, InductiveMeter, CountInvInit, PTL DEF Spec

-----------------------------------------------------------------------------
(* The filter implements the contract *)

\* The variables of the contract, as the filter implements them.
MappedStage    == [c \in ContextIds |-> Stage[phase[c]]]
MappedFloor    == [c \in ContextIds |-> Floor(c)]
MappedReported == [c \in ContextIds |-> response[c].mode]
MappedTally    == [mode \in RecordingMode |-> counters[mode]]

LEMMA ContractInit == Init => Contract!Init
<1> SUFFICES ASSUME Init PROVE Contract!Init
  OBVIOUS
<1>1. MappedStage = [c \in ContextIds |-> "idle"]
  BY DEF Init, MappedStage, Stage
<1>2. MappedFloor = [c \in ContextIds |-> None]
  BY DEF Init, MappedFloor, Floor
<1>3. MappedReported = [c \in ContextIds |-> None]
  BY DEF Init, MappedReported, NoHeaders
<1>4. MappedTally = [mode \in RecordingMode |-> 0]
  BY DEF Init, MappedTally, MetricNames
<1> QED BY <1>1, <1>2, <1>3, <1>4
        DEF Contract!Init, MappedStage, MappedFloor, MappedReported, MappedTally

\* EvidenceFilter::new opens a stream under the accepted default_mode, or
\* panics and opens none.
LEMMA CreateOpens ==
  ASSUME Typed, NEW c \in ContextIds, CreateHttpContext(c)
  PROVE  Contract!Open(c) \/ UNCHANGED Contract!vars
<1>1. UNCHANGED <<MappedReported, MappedTally>>
  BY DEF CreateHttpContext, MappedReported, MappedTally
<1>2. CASE phase' = [phase EXCEPT ![c] = "created"]
  <2>1. MappedStage[c] = "idle"
    BY DEF CreateHttpContext, MappedStage, Stage
  <2>2. MappedStage' = [MappedStage EXCEPT ![c] = "open"]
    BY <1>2 DEF MappedStage, Stage, Typed, TypeOK
  <2>3. accepted \in Config /\ hist'[c].config = accepted
    BY DEF CreateHttpContext, Typed, TypeOK, History
  <2>4. MappedFloor' = [MappedFloor EXCEPT ![c] = accepted.default_mode]
    <3>1. \A s \in ContextIds \ {c} : Floor(s)' = Floor(s)
      BY <1>2 DEF CreateHttpContext, Floor, Typed, TypeOK
    <3>2. Floor(c)' = accepted.default_mode
      BY <1>2, <2>3 DEF Floor, Typed, TypeOK
    <3> QED BY <3>1, <3>2 DEF MappedFloor
  <2>5. accepted.default_mode \in RecordingMode
    BY <2>3 DEF Config
  <2> QED BY <1>1, <2>1, <2>2, <2>4, <2>5
          DEF Contract!Open, MappedStage, MappedFloor, MappedReported, MappedTally
<1>3. CASE phase' = [phase EXCEPT ![c] = "panicked"]
  <2>1. MappedStage' = MappedStage
    BY <1>3 DEF CreateHttpContext, MappedStage, Stage, Typed, TypeOK
  <2>2. \A s \in ContextIds : Floor(s)' = Floor(s)
    BY <1>3 DEF CreateHttpContext, Floor, Typed, TypeOK
  <2>3. MappedFloor' = MappedFloor
    BY <2>2 DEF MappedFloor
  <2> QED BY <1>1, <2>1, <2>3
          DEF Contract!vars, MappedStage, MappedFloor, MappedReported, MappedTally
<1> QED BY <1>2, <1>3 DEF CreateHttpContext

\* on_http_response_headers reports a stream once, at its floor or above it,
\* and counts it at most once.
LEMMA ResponseReports ==
  ASSUME Typed, IInv, MeterInv, NEW c \in ContextIds, NEW time \in ClockReadings,
         NEW upstream \in UpstreamHeaders,
         OnHttpResponseHeaders(c, time, upstream)
  PROVE  Contract!Report(c)
<1> DEFINE evidence == evidence_of(c, ctxs[c], time)
           mode     == evidence.recording_mode
<1>1. ctxs[c] \in FilterContext /\ Live(c)
  BY DEF OnHttpResponseHeaders, Live, Typed
<1>2. evidence \in Evidence
  BY <1>1, EvidenceType
<1>3. mode_rank(mode) >= mode_rank(ctxs[c].config.default_mode)
  BY <1>1, EvidenceFacts
<1>4. /\ counters' = counted(counters, ctxs[c], time, evidence)
      /\ response' = [response EXCEPT ![c] = response_headers(upstream, evidence)]
      /\ hist' = [hist EXCEPT ![c].clock = time, ![c].evidence = evidence]
      /\ phase' = [phase EXCEPT ![c] = "responded"]
      /\ phase[c] \in {"created", "requested"}
  BY DEF OnHttpResponseHeaders
<1>5. ctxs[c].config = hist[c].config /\ OwnIds(ctxs[c].metrics)
  BY <1>1 DEF IInv, StreamInv, Lifecycle, MeterInv, Metered
<1> HIDE DEF evidence
<1>6. mode \in RecordingMode
  BY <1>2 DEF Evidence
<1>7. MappedStage[c] = "open" /\ MappedStage' = [MappedStage EXCEPT ![c] = "reported"]
  <2>1. Stage[phase[c]] = "open" /\ Stage["responded"] = "reported"
    BY <1>4 DEF Stage
  <2> QED BY <1>4, <2>1 DEF MappedStage, Typed, TypeOK
<1>8. MappedFloor' = MappedFloor
  <2>1. \A s \in ContextIds : Floor(s)' = Floor(s)
    BY <1>4 DEF Floor, Typed, TypeOK, History
  <2> QED BY <2>1 DEF MappedFloor
<1>9. mode_rank(mode) >= mode_rank(MappedFloor[c])
  BY <1>3, <1>4, <1>5 DEF MappedFloor, Floor
<1>10. MappedReported' = [MappedReported EXCEPT ![c] = mode]
  BY <1>4 DEF MappedReported, response_headers, Typed, TypeOK
<1>11. MappedTally' \in {MappedTally, [MappedTally EXCEPT ![mode] = @ + 1]}
  <2>1. \A name \in RecordingMode :
            counters'[name] = IF name = mode /\ ctxs[c].metrics[name] # Refused
                              THEN counters[name] + 1 ELSE counters[name]
    <3>1. \A name \in RecordingMode : name \in MetricNames /\ name # "clock_failure"
      BY DEF RecordingMode, MetricNames
    <3> QED BY <1>1, <1>2, <1>4, <1>5, <3>1, CountedFacts
            DEF Counts, Typed, TypeOK
  <2>2. CASE ctxs[c].metrics[mode] = Refused
    BY <1>6, <2>1, <2>2 DEF MappedTally
  <2>3. CASE ctxs[c].metrics[mode] # Refused
    BY <1>6, <2>1, <2>3 DEF MappedTally
  <2> QED BY <2>2, <2>3
<1> HIDE DEF mode
<1> QED BY <1>6, <1>7, <1>8, <1>9, <1>10, <1>11
        DEF Contract!Report, MappedStage, MappedFloor, MappedReported, MappedTally

\* A dropped context closes its stream, reported or not.
LEMMA DropCloses ==
  ASSUME Typed, NEW c \in ContextIds, DropContext(c)
  PROVE  Contract!Close(c)
<1>1. UNCHANGED <<MappedReported, MappedTally>>
  BY DEF DropContext, MappedReported, MappedTally
<1>2. /\ MappedStage[c] \in {"open", "reported"}
      /\ MappedStage' = [MappedStage EXCEPT ![c] = "closed"]
  <2>1. Stage[phase[c]] \in {"open", "reported"} /\ Stage["deleted"] = "closed"
    BY DEF DropContext, Stage
  <2> QED BY <2>1 DEF DropContext, MappedStage, Typed, TypeOK
<1>3. \A s \in ContextIds : Floor(s)' = Floor(s)
  BY DEF DropContext, Floor, Typed, TypeOK
<1>4. MappedFloor' = MappedFloor
  BY <1>3 DEF MappedFloor
<1> QED BY <1>1, <1>2, <1>4
        DEF Contract!Close, MappedStage, MappedFloor, MappedReported, MappedTally

\* The other callbacks are invisible to the contract.
LEMMA ContractStutters ==
  ASSUME Typed, counters' = counters, response' = response,
         \A c \in ContextIds : /\ Stage[phase'[c]] = Stage[phase[c]]
                               /\ Floor(c)' = Floor(c)
  PROVE  UNCHANGED Contract!vars
<1>1. UNCHANGED <<MappedStage, MappedFloor, MappedReported, MappedTally>>
  BY DEF MappedStage, MappedFloor, MappedReported, MappedTally
<1> QED BY <1>1
        DEF Contract!vars, MappedStage, MappedFloor, MappedReported, MappedTally

LEMMA ContractNext ==
  Typed /\ IInv /\ MeterInv /\ [Next]_vars => [Contract!Next]_(Contract!vars)
<1> SUFFICES ASSUME Typed, IInv, MeterInv, [Next]_vars
             PROVE  Contract!Next \/ UNCHANGED Contract!vars
  OBVIOUS
<1>1. ASSUME NEW payload \in Payloads, NEW refusal \in Refusals,
             OnConfigure(payload, refusal)
      PROVE  UNCHANGED Contract!vars
  BY <1>1, ContractStutters DEF OnConfigure, Floor
<1>2. ASSUME NEW c \in ContextIds, CreateHttpContext(c)
      PROVE  Contract!Next \/ UNCHANGED Contract!vars
  BY <1>2, CreateOpens DEF Contract!Next
<1>3. ASSUME NEW c \in ContextIds, NEW req \in Requests, OnHttpRequestHeaders(c, req)
      PROVE  UNCHANGED Contract!vars
  <2>1. counters' = counters /\ response' = response
    BY <1>3 DEF OnHttpRequestHeaders
  <2>2. ASSUME NEW s \in ContextIds
        PROVE  Stage[phase'[s]] = Stage[phase[s]] /\ Floor(s)' = Floor(s)
    BY <1>3 DEF OnHttpRequestHeaders, Stage, Floor, Typed, TypeOK, History
  <2> QED BY <2>1, <2>2, ContractStutters
<1>4. ASSUME NEW c \in ContextIds, NEW time \in ClockReadings,
             NEW upstream \in UpstreamHeaders,
             OnHttpResponseHeaders(c, time, upstream)
      PROVE  Contract!Next
  BY <1>4, ResponseReports DEF Contract!Next
<1>5. ASSUME NEW c \in ContextIds, DropContext(c) PROVE Contract!Next
  BY <1>5, DropCloses DEF Contract!Next
<1>6. CASE UNCHANGED vars
  BY <1>6, ContractStutters DEF vars, Floor
<1> QED BY <1>1, <1>2, <1>3, <1>4, <1>5, <1>6 DEF Next

\* The filter implements the contract: whatever the host interleaves, a stream
\* gets at most one report, at its floor or above it, and at most one count.
THEOREM FilterKeepsContract == Spec => KeepsContract
<1> QED BY InductiveMeter, ContractInit, ContractNext,
           PTL DEF Spec, KeepsContract, Contract!Spec
=============================================================================
