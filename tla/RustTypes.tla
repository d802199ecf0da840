------------------------------- MODULE RustTypes ------------------------------
(***************************************************************************)
(* What the other modules take from Rust: Option, whose absent value is    *)
(* None, and String, left open but for the strings the code itself names.  *)
(***************************************************************************)
CONSTANTS None, String

ASSUME StringAssumption == {"", "x-b3-traceid", "x-agent-id"} \subseteq String

unwrap_or(opt, default) == IF opt = None THEN default ELSE opt

or_else(opt, other) == IF opt = None THEN other ELSE opt
=============================================================================
