-------------------------------- MODULE Rollup ---------------------------------
(***************************************************************************)
(* What a record says of its actions as a whole: the two rollups of        *)
(* crates/aep-core/src/evidence.rs over a slice of ActionEvidence.         *)
(***************************************************************************)
EXTENDS Integers, Sequences, RustTypes

\* Mutant: a class that is not known is the least of all.
class_order_UnlistedLeast(class) ==
    CASE class = "mutate-local"    -> 1
      [] class = "mutate-external" -> 2
      [] class = "network-egress"  -> 3
      [] class = "unknown"         -> 4
      [] OTHER                     -> 0

\* The place of a class in ORDER, where "unknown" comes last, and where a class
\* that is not in it shares its place.
class_order(class) ==
    CASE class = "read"            -> 0
      [] class = "mutate-local"    -> 1
      [] class = "mutate-external" -> 2
      [] class = "network-egress"  -> 3
      [] OTHER                     -> 4

mode_order(mode) ==
    CASE mode = "validation" -> 0
      [] mode = "delta"      -> 1
      [] mode = "full"       -> 2

\* Iterator::max_by_key: of the places with the greatest key, the last.
max_by_key(places, key) ==
    CHOOSE i \in places : \A j \in places : key[j] < key[i] \/ (key[j] = key[i] /\ j <= i)

\* Actions without a class are passed over.
run_side_effect_class_max(evidence) ==
    LET classed == {i \in DOMAIN evidence : evidence[i].side_effect_class # None}
        key     == [i \in classed |-> class_order(evidence[i].side_effect_class)]
    IN IF classed = {} THEN None
       ELSE evidence[max_by_key(classed, key)].side_effect_class

strictest_recording_mode(evidence) ==
    LET key == [i \in DOMAIN evidence |-> mode_order(evidence[i].recording_mode)]
    IN IF evidence = << >> THEN None
       ELSE evidence[max_by_key(DOMAIN evidence, key)].recording_mode
=============================================================================
