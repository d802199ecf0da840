------------------------------ MODULE Recorder -------------------------------
(***************************************************************************)
(* How a request becomes a piece of evidence: the free functions of        *)
(* crates/proxy-wasm-evidence/src/recorder.rs.                             *)
(*                                                                         *)
(* A path is the set of the marker substrings it contains; a method is its *)
(* spelling.  A wall-clock reading is in milliseconds from the epoch.      *)
(***************************************************************************)
EXTENDS Integers, RecordingPolicy, McpHeaders

PathMarkers == {"/network/", "/webhook"}

\* str::to_uppercase, for the spellings that a method's match would miss.
UpperOf == [get |-> "GET", head |-> "HEAD", options |-> "OPTIONS",
            post |-> "POST", put |-> "PUT", patch |-> "PATCH",
            delete |-> "DELETE"]

to_uppercase(method) ==
    IF method \in DOMAIN UpperOf THEN UpperOf[method] ELSE method

ReadMethods  == {"GET", "HEAD", "OPTIONS"}
WriteMethods == {"POST", "PUT", "PATCH", "DELETE"}

\* Layer 1: what HTTP alone says.
infer_side_effect_class(method, path) ==
    CASE to_uppercase(method) \in ReadMethods  -> "read"
      [] to_uppercase(method) \in WriteMethods ->
             IF path \cap PathMarkers # {} THEN "network-egress"
                                           ELSE "mutate-external"
      [] OTHER -> "unknown"

\* Layer 2: what the client-controlled MCP-Method header says.
mcp_class(mcp_method) ==
    CASE mcp_method.op = "tools/call" -> "mutate-external"
      [] mcp_method.op \in ReadOps    -> "read"
      [] OTHER                        -> "unknown"

\* Mutant: what is unknown is the least severe.
severity_rank_UnknownLeast(class) ==
    CASE class = "unknown"         -> 0
      [] class = "read"            -> 1
      [] class = "mutate-local"    -> 2
      [] class = "mutate-external" -> 3
      [] class = "network-egress"  -> 4

severity_rank(class) ==
    CASE class = "read"            -> 0
      [] class = "unknown"         -> 1
      [] class = "mutate-local"    -> 2
      [] class = "mutate-external" -> 3
      [] class = "network-egress"  -> 4

max_severity(a, b) == IF severity_rank(b) > severity_rank(a) THEN b ELSE a

\* Mutant: the MCP-Method header takes precedence.
infer_side_effect_class_with_mcp_First(method, path, mcp_method) ==
    IF mcp_method = None
    THEN infer_side_effect_class(method, path)
    ELSE mcp_class(mcp_method)

infer_side_effect_class_with_mcp(method, path, mcp_method) ==
    IF mcp_method = None
    THEN infer_side_effect_class(method, path)
    ELSE max_severity(infer_side_effect_class(method, path),
                      mcp_class(mcp_method))

unix_millis_checked(time) == IF time < 0 THEN None ELSE time

unix_millis(time) == unwrap_or(unix_millis_checked(time), 0)

mode_rank(mode) ==
    CASE mode = "validation" -> 0
      [] mode = "delta"      -> 1
      [] mode = "full"       -> 2

\* Mutant: the comparison is the wrong way round.
max_recording_mode_Swapped(a, b) == IF mode_rank(b) < mode_rank(a) THEN b ELSE a

max_recording_mode(a, b) == IF mode_rank(b) > mode_rank(a) THEN b ELSE a

(***************************************************************************)
(* ActionEvidence as the filter fills it in: the fields it leaves None or  *)
(* empty are left out.  tool_name is the method and path it formats.       *)
(***************************************************************************)
build_evidence(action_id, tool_name, risk_ctx, timestamp_ms, mcp_header_risk) ==
    [action_id         |-> action_id,
     tool_name         |-> tool_name,
     state_changing    |-> risk_ctx.side_effect_class # "read",
     timestamp_ms      |-> timestamp_ms,
     recording_mode    |-> compile_recording_policy(risk_ctx),
     mcp_header_risk   |-> mcp_header_risk,
     side_effect_class |-> risk_ctx.side_effect_class]
=============================================================================
