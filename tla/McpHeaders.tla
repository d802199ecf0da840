----------------------------- MODULE McpHeaders ------------------------------
(***************************************************************************)
(* Leak classification of the MCP-Method and MCP-Name request headers      *)
(* (crates/aep-core/src/mcp_headers.rs).                                   *)
(*                                                                         *)
(* A header value is abstracted to what the gateway's code can tell of it: *)
(*   op       the MCP operation it spells exactly, or "other"              *)
(*   prefix   the credential prefix it starts with once case is folded,    *)
(*            or "none"                                                    *)
(*   runs     its maximal alphanumeric runs, each with its length in       *)
(*            characters and in UTF-8 bytes, at least one to a character   *)
(*   at, dot  whether it contains an '@', a '.'                            *)
(***************************************************************************)
EXTENDS Naturals, RustTypes

CREDENTIAL_PREFIXES ==
    {"ghp_", "ghb_", "sk-", "bearer ", "token ", "api_"}

MIN_HIGH_ENTROPY_LEN == 32

ReadOps == {"tools/list", "resources/list", "resources/read",
            "prompts/list", "prompts/get", "completion/complete"}

McpOps == ReadOps \cup {"tools/call"}

HeaderValue == [op     : McpOps \cup {"other"},
                prefix : CREDENTIAL_PREFIXES \cup {"none"},
                runs   : SUBSET {run \in [chars : Nat, bytes : Nat] :
                                    run.chars <= run.bytes},
                at     : BOOLEAN,
                dot    : BOOLEAN]

McpHeaderRisk == {"credential_leak", "high_entropy_value", "pii_leak"}

\* A name and a value are never None: None is the absence of a header.
ASSUME NoneAssumption == None \notin HeaderValue /\ None \notin McpHeaderRisk

starts_with_credential(val) == val.prefix \in CREDENTIAL_PREFIXES

\* str::len() counts bytes, so the longest run is measured in bytes.
is_high_entropy(val) ==
    \E run \in val.runs : run.bytes >= MIN_HIGH_ENTROPY_LEN

\* One turn of the loop over [mcp_method, mcp_name].flatten().
value_risk(val) ==
    IF val = None                      THEN None
    ELSE IF starts_with_credential(val) THEN "credential_leak"
    ELSE IF is_high_entropy(val)        THEN "high_entropy_value"
    ELSE None

\* Mutant: a name is only looked at when there is no method.
classify_mcp_headers_FirstOnly(mcp_method, mcp_name) ==
    IF value_risk(or_else(mcp_method, mcp_name)) # None
    THEN value_risk(or_else(mcp_method, mcp_name))
    ELSE IF mcp_name # None /\ mcp_name.at /\ mcp_name.dot
         THEN "pii_leak"
    ELSE None

\* The loop returns at the first value with a leak, whatever the second one
\* holds; only a name that survives it is examined for an e-mail address.
classify_mcp_headers(mcp_method, mcp_name) ==
    IF value_risk(mcp_method) # None    THEN value_risk(mcp_method)
    ELSE IF value_risk(mcp_name) # None THEN value_risk(mcp_name)
    ELSE IF mcp_name # None /\ mcp_name.at /\ mcp_name.dot
         THEN "pii_leak"
    ELSE None
=============================================================================
