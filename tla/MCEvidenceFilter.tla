-------------------------- MODULE MCEvidenceFilter ---------------------------
(***************************************************************************)
(* Small instances of EvidenceFilter, and of what is claimed of it, for    *)
(* TLC: concrete header values, requests, configurations and hosts.        *)
(***************************************************************************)
EXTENDS DocumentedClaims, TLC

Symmetry == Permutations(ContextIds)

Strings == STRING

-----------------------------------------------------------------------------
(* Header values *)

Value(op, prefix, runs, at, dot) ==
    [op |-> op, prefix |-> prefix, runs |-> runs, at |-> at, dot |-> dot]

Run(chars, bytes) == [chars |-> chars, bytes |-> bytes]

ToolsList == Value("tools/list", "none", {Run(5, 5), Run(4, 4)}, FALSE, FALSE)
ToolsCall == Value("tools/call", "none", {Run(5, 5), Run(4, 4)}, FALSE, FALSE)
Rename    == Value("other", "none", {Run(6, 6)}, FALSE, FALSE)
Token     == Value("other", "bearer ", {Run(6, 6), Run(40, 40)}, FALSE, TRUE)
Opaque    == Value("other", "none", {Run(32, 32)}, FALSE, FALSE)
Email     == Value("other", "none", {Run(3, 3), Run(7, 7)}, TRUE, TRUE)

\* Eleven letters of three bytes each.
Kana      == Value("other", "none", {Run(11, 33)}, FALSE, FALSE)

-----------------------------------------------------------------------------
(* Requests *)

Req(method, path, headers) ==
    [method |-> method, path |-> path, headers |-> headers]

NoFields == [name \in {} |-> None]

PlainGet  == Req("GET", {}, NoFields)
LowerGet  == Req("get", {}, "x-mcp-method" :> ToolsList @@ "mcp-method" :> ToolsCall)
CallByGet == Req("GET", {}, "mcp-method" :> ToolsCall @@ "mcp-name" :> Email)
ListByPut == Req("put", {"/webhook"},
                 "mcp-method" :> ToolsList @@ "mcp-name" :> Token)
PlainPost == Req("POST", {}, "x-mcp-name" :> Email @@ "x-agent-id" :> Rename)
ListByBrew == Req("BREW", {}, "x-mcp-method" :> ToolsList @@ "mcp-name" :> Opaque)
OddByHead == Req("HEAD", {"/network/"}, "x-mcp-method" :> Rename)
LeakByGet == Req("GET", {}, "mcp-method" :> Opaque @@ "mcp-name" :> Token)
NoPath    == Req("DELETE", None, "mcp-method" :> Opaque @@ "traceparent" :> Opaque)
KanaByGet == Req("GET", {}, "mcp-name" :> Kana)

AllRequests == {PlainGet, LowerGet, CallByGet, ListByPut, PlainPost,
                ListByBrew, OddByHead, LeakByGet, NoPath, KanaByGet}

SomeRequests == {PlainGet, CallByGet, ListByPut}

-----------------------------------------------------------------------------
(* Configurations *)

Json(fields) == [kind |-> "json", fields |-> fields]

SeedKey  == [hex_digits |-> TRUE,  len |-> 64]
EmptyKey == [hex_digits |-> TRUE,  len |-> 0]
TornKey  == [hex_digits |-> TRUE,  len |-> 63]
WordsKey == [hex_digits |-> FALSE, len |-> 64]

Empty     == [kind |-> "empty"]
Missing   == [kind |-> "missing"]
Malformed == [kind |-> "malformed"]

FullOfOne   == Json([default_mode |-> "full", max_evidence_buffer |-> 1,
                     signing_key_hex |-> SeedKey])
DeltaTraced == Json([default_mode |-> "delta", trace_id_header |-> "traceparent"])
ZeroBuffer  == Json([default_mode |-> "delta", max_evidence_buffer |-> 0])
HugeBuffer  == Json([max_evidence_buffer |-> 2147483647])
NoSecret    == Json([default_mode |-> "delta", signing_key_hex |-> EmptyKey])
HalfSecret  == Json([default_mode |-> "full", signing_key_hex |-> TornKey])
BadSecret   == Json([default_mode |-> "full", signing_key_hex |-> WordsKey])

AllPayloads == {Empty, Missing, Malformed, FullOfOne, DeltaTraced, ZeroBuffer,
                NoSecret, HalfSecret, BadSecret}

\* With the one that is accepted and traps the VM.
TrappingPayloads == AllPayloads \cup {HugeBuffer}

SomePayloads == {Empty, FullOfOne, ZeroBuffer}

-----------------------------------------------------------------------------
(* The host *)

SomeRefusals == {{}, {"full", "clock_failure"}}
NoRefusals   == {{}}
AnyRefusal   == SUBSET MetricNames

SomeReadings == {None, 1700}

\* A response straight from the service, or one another gateway has stamped.
NoUpstream   == {NoHeaders}
SomeUpstream == {NoHeaders, [mode |-> "validation", risk |-> "pii_leak"]}
=============================================================================
