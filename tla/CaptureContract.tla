--------------------------- MODULE CaptureContract ---------------------------
(***************************************************************************)
(* What the gateway promises about capture, without saying how it decides: *)
(* a stream is opened under a floor that never moves, gets at most one     *)
(* report, at or above its floor and final, and at most one count for it.  *)
(* A stream may end at any time, reported or not.                          *)
(***************************************************************************)
EXTENDS Naturals

CONSTANTS Streams, Modes, Rank(_), None

VARIABLES stage,    \* "idle", "open", "reported" or "closed"
          floor,    \* the least mode the stream may be reported with
          reported, \* the mode it was reported with, or None
          tally     \* per mode, the reports that were counted

vars == <<stage, floor, reported, tally>>

Init ==
    /\ stage = [s \in Streams |-> "idle"]
    /\ floor = [s \in Streams |-> None]
    /\ reported = [s \in Streams |-> None]
    /\ tally = [mode \in Modes |-> 0]

Open(s) ==
    /\ stage[s] = "idle"
    /\ stage' = [stage EXCEPT ![s] = "open"]
    /\ \E mode \in Modes : floor' = [floor EXCEPT ![s] = mode]
    /\ UNCHANGED <<reported, tally>>

\* A count may be missing (its counter does not exist), never be doubled.
Report(s) ==
    /\ stage[s] = "open"
    /\ stage' = [stage EXCEPT ![s] = "reported"]
    /\ \E mode \in Modes :
        /\ Rank(mode) >= Rank(floor[s])
        /\ reported' = [reported EXCEPT ![s] = mode]
        /\ tally' \in {tally, [tally EXCEPT ![mode] = @ + 1]}
    /\ UNCHANGED floor

Close(s) ==
    /\ stage[s] \in {"open", "reported"}
    /\ stage' = [stage EXCEPT ![s] = "closed"]
    /\ UNCHANGED <<floor, reported, tally>>

Next == \E s \in Streams : Open(s) \/ Report(s) \/ Close(s)

Spec == Init /\ [][Next]_vars
=============================================================================
