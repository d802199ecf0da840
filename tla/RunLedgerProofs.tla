--------------------------- MODULE RunLedgerProofs ---------------------------
(***************************************************************************)
(* Theorems about the rollups of a record over what a buffer let through:  *)
(* for every capacity, every run of actions, and every order of calls.     *)
(***************************************************************************)
EXTENDS RunLedger, BufferLedgerProofs, WellFoundedInduction

-----------------------------------------------------------------------------
(* Iterator::max_by_key *)

\* A set of indices that is not empty has a last one.
LEMMA LastIndex ==
  ASSUME NEW n \in Nat, NEW S \in SUBSET (1..n), S # {}
  PROVE  \E last \in S : \A i \in S : i <= last
<1> DEFINE T == {n - i : i \in S}
<1>1. T \subseteq Nat /\ T # {}
  <2>1. \A i \in S : n - i \in Nat
    OBVIOUS
  <2> QED BY <2>1
<1>2. PICK x \in T : \A y \in T : ~ (<<y, x>> \in OpToRel(<, Nat))
  BY <1>1, NatLessThanWellFounded, WFMin
<1>3. \A y \in T : ~ (y < x)
  BY <1>1, <1>2 DEF OpToRel
<1>4. PICK last \in S : x = n - last
  OBVIOUS
<1>5. ASSUME NEW i \in S PROVE i <= last
  <2>1. ~ (n - i < n - last)
    BY <1>3, <1>4
  <2> QED BY <2>1
<1> QED BY <1>5

\* There is a place of the greatest key, and max_by_key returns one.
LEMMA MaxByKey ==
  ASSUME NEW n \in Nat, NEW places \in SUBSET (1..n), places # {},
         NEW key \in [places -> 0..4]
  PROVE  /\ max_by_key(places, key) \in places
         /\ \A j \in places : key[j] <= key[max_by_key(places, key)]
<1>1. PICK top \in places : \A j \in places : key[j] <= key[top]
  <2> DEFINE keys == {key[j] + 1 : j \in places}
  <2>1. keys \in SUBSET (1..5) /\ keys # {}
    <3>1. \A j \in places : key[j] + 1 \in 1..5
      OBVIOUS
    <3> QED BY <3>1
  <2>2. PICK greatest \in keys : \A k \in keys : k <= greatest
    BY <2>1, LastIndex
  <2>3. PICK top \in places : greatest = key[top] + 1
    OBVIOUS
  <2>4. ASSUME NEW j \in places PROVE key[j] <= key[top]
    <3>1. key[j] + 1 \in keys
      OBVIOUS
    <3>2. key[j] + 1 <= key[top] + 1
      BY <2>2, <2>3, <3>1
    <3>3. key[j] \in Int /\ key[top] \in Int
      OBVIOUS
    <3> QED BY <3>2, <3>3
  <2> QED BY <2>4
<1> DEFINE tied == {i \in places : key[i] = key[top]}
<1>2. PICK last \in tied : \A i \in tied : i <= last
  BY LastIndex
<1>3. \A j \in places : key[j] < key[last] \/ (key[j] = key[last] /\ j <= last)
  <2>1. \A j \in places : key[j] \in Int
    OBVIOUS
  <2> QED BY <1>1, <1>2, <2>1
<1>4. \A j \in places : \/ key[j] < key[max_by_key(places, key)]
                        \/ /\ key[j] = key[max_by_key(places, key)]
                           /\ j <= max_by_key(places, key)
  BY <1>2, <1>3 DEF max_by_key
<1>5. max_by_key(places, key) \in places
  BY <1>2, <1>3 DEF max_by_key
<1>6. \A j \in places : key[j] \in Int
  OBVIOUS
<1> SUFFICES ASSUME NEW j \in places
             PROVE  key[j] <= key[max_by_key(places, key)]
  BY <1>5
<1>7. \/ key[j] < key[max_by_key(places, key)]
      \/ key[j] = key[max_by_key(places, key)]
  BY <1>4
<1>8. key[j] \in Int /\ key[max_by_key(places, key)] \in Int
  BY <1>5, <1>6
<1> QED BY <1>7, <1>8

-----------------------------------------------------------------------------
(* The rollups *)

Classed(evidence) == {i \in DOMAIN evidence : evidence[i].side_effect_class # None}

\* The rollup of the classes is one of them, and none is above it.
LEMMA ClassRollup ==
  ASSUME NEW evidence \in Seq(ActionEvidence)
  PROVE  LET class == run_side_effect_class_max(evidence)
         IN /\ Classed(evidence) = {} => class = None
            /\ Classed(evidence) # {} =>
                   /\ \E i \in Classed(evidence) : class = evidence[i].side_effect_class
                   /\ \A i \in Classed(evidence) :
                          class_order(evidence[i].side_effect_class) <= class_order(class)
<1> DEFINE key == [i \in Classed(evidence) |-> class_order(evidence[i].side_effect_class)]
<1>1. CASE Classed(evidence) = {}
  BY <1>1 DEF run_side_effect_class_max, Classed
<1>2. CASE Classed(evidence) # {}
  <2> DEFINE top == max_by_key(Classed(evidence), key)
  <2>1. Classed(evidence) \in SUBSET (1..Len(evidence)) /\ Len(evidence) \in Nat
    BY DEF Classed
  <2>2. key \in [Classed(evidence) -> 0..4]
    <3>1. \A class : class_order(class) \in 0..4
      BY DEF class_order
    <3> QED BY <3>1
  <2>3. /\ top \in Classed(evidence)
        /\ \A i \in Classed(evidence) : key[i] <= key[top]
    <3> HIDE DEF key
    <3> QED BY <1>2, <2>1, <2>2, MaxByKey
  <2>4. run_side_effect_class_max(evidence) = evidence[top].side_effect_class
    BY <1>2 DEF run_side_effect_class_max, Classed
  <2> HIDE DEF top
  <2> QED BY <1>2, <2>3, <2>4
<1> QED BY <1>1, <1>2

\* The rollup of the modes is one of them, and none is above it.
LEMMA ModeRollup ==
  ASSUME NEW evidence \in Seq(ActionEvidence)
  PROVE  LET mode == strictest_recording_mode(evidence)
         IN /\ evidence = << >> => mode = None
            /\ evidence # << >> =>
                   /\ \E i \in DOMAIN evidence : mode = evidence[i].recording_mode
                   /\ \A i \in DOMAIN evidence :
                          mode_order(evidence[i].recording_mode) <= mode_order(mode)
<1> DEFINE key == [i \in DOMAIN evidence |-> mode_order(evidence[i].recording_mode)]
<1>1. CASE evidence = << >>
  BY <1>1 DEF strictest_recording_mode
<1>2. CASE evidence # << >>
  <2> DEFINE top == max_by_key(DOMAIN evidence, key)
  <2>1. /\ DOMAIN evidence \in SUBSET (1..Len(evidence)) /\ Len(evidence) \in Nat
        /\ DOMAIN evidence # {}
    BY <1>2
  <2>2. key \in [DOMAIN evidence -> 0..4]
    <3>1. \A i \in DOMAIN evidence : evidence[i].recording_mode \in RecordingMode
      <4>1. \A i \in DOMAIN evidence : evidence[i] \in ActionEvidence
        OBVIOUS
      <4> QED BY <4>1 DEF ActionEvidence
    <3>2. \A mode \in RecordingMode : mode_order(mode) \in 0..4
      BY DEF mode_order, RecordingMode
    <3> QED BY <3>1, <3>2
  <2>3. /\ top \in DOMAIN evidence
        /\ \A i \in DOMAIN evidence : key[i] <= key[top]
    <3> HIDE DEF key
    <3> QED BY <2>1, <2>2, MaxByKey
  <2>4. strictest_recording_mode(evidence) = evidence[top].recording_mode
    BY <1>2 DEF strictest_recording_mode
  <2> HIDE DEF top
  <2> QED BY <1>2, <2>3, <2>4
<1> QED BY <1>1, <1>2

-----------------------------------------------------------------------------
(* The inductive invariant *)

\* What the buffer keeps of any work: the books of BufferLedger, and no number
\* beyond the actions of the run.
RunInv ==
    /\ IInv
    /\ OrderInv
    /\ work \in GatewayRuns \cup MixedRuns
    /\ pushed <= Len(work)

LEMMA RunInvInit == RunInit => RunInv
<1> SUFFICES ASSUME RunInit PROVE RunInv
  OBVIOUS
<1>1. Len(work) \in Nat
  BY RunsAssumption DEF RunInit
<1>2. pushed <= Len(work)
  BY <1>1 DEF RunInit, Init
<1> QED BY <1>2, IInvInit, OrderInvInit DEF RunInit, RunInv

LEMMA RunInvNext == RunInv /\ [RunNext]_run_vars => RunInv'
<1> SUFFICES ASSUME RunInv, [RunNext]_run_vars PROVE RunInv'
  OBVIOUS
<1>1. [Next]_vars /\ work' = work
  BY DEF RunNext, RunPush, RunDrain, Next, run_vars
<1>2. IInv' /\ OrderInv'
  BY <1>1, IInvNext, OrderInvNext DEF RunInv
<1>3. pushed' <= Len(work')
  <2>1. pushed \in Nat /\ Len(work) \in Nat
    BY RunsAssumption DEF RunInv, IInv, TypeOK
  <2>2. CASE RunPush
    BY <1>1, <2>1, <2>2 DEF RunPush, Push
  <2>3. CASE RunDrain
    BY <1>1, <2>3 DEF RunDrain, Drain, RunInv
  <2>4. CASE UNCHANGED run_vars
    BY <1>1, <2>4 DEF run_vars, vars, RunInv
  <2> QED BY <2>2, <2>3, <2>4 DEF RunNext
<1> QED BY <1>1, <1>2, <1>3 DEF RunInv

LEMMA InductiveRun == RunSpec => []RunInv
<1> QED BY RunInvInit, RunInvNext, PTL DEF RunSpec

\* What the client holds is some of what was done, each action at the place of
\* its number; with no drop and nothing buffered, it is all of it.
LEMMA RecordedOfPerformed ==
  ASSUME RunInv
  PROVE  /\ Recorded \in Seq(ActionEvidence) /\ Performed \in Seq(ActionEvidence)
         /\ DOMAIN Recorded = DOMAIN delivered
         /\ \A i \in DOMAIN Recorded :
                /\ delivered[i] \in DOMAIN Performed
                /\ Recorded[i] = Performed[delivered[i]]
                /\ delivered[i] \in DOMAIN work /\ Recorded[i] = work[delivered[i]]
         /\ buf.entries = << >> /\ buf.dropped_total = 0 => Recorded = Performed
<1>1. /\ pushed \in Nat /\ gone \in Nat /\ gone <= pushed
      /\ delivered \in Seq(Nat) /\ evicted \in Seq(Nat)
  BY EntriesIncrease DEF RunInv, IInv, TypeOK
<1>2. work \in Seq(ActionEvidence) /\ pushed <= Len(work)
  BY RunsAssumption DEF RunInv
<1>3. /\ Performed \in Seq(ActionEvidence)
      /\ DOMAIN Performed = 1..pushed
      /\ \A i \in 1..pushed : Performed[i] = work[i]
  <2>1. /\ Len(work) \in Nat /\ 1 \in Nat
        /\ \A i \in 1..pushed : i \in 1..Len(work)
    BY <1>1, <1>2
  <2> QED BY <1>1, <1>2, <2>1, SubSeqProperties DEF Performed
<1>4. \A i \in DOMAIN delivered : delivered[i] \in 1..pushed
  <2>1. \A i \in 1..Len(delivered) : delivered[i] \in 1..gone
    BY DEF RunInv, OrderInv
  <2> QED BY <1>1, <2>1
<1>5. Recorded \in Seq(ActionEvidence)
  <2>1. \A i \in 1..Len(delivered) : work[delivered[i]] \in ActionEvidence
    BY <1>1, <1>2, <1>4
  <2>2. Recorded \in [1..Len(delivered) -> ActionEvidence]
    BY <1>1, <2>1 DEF Recorded
  <2>3. Len(delivered) \in Nat
    BY <1>1
  <2> QED BY <2>2, <2>3, SeqDef
<1>6. ASSUME buf.entries = << >>, buf.dropped_total = 0 PROVE Recorded = Performed
  <2>1. evicted = << >> /\ pushed = Len(delivered)
    <3>1. Len(buf.entries) = 0
      BY <1>6
    <3>2. Len(evicted) = 0 /\ pushed = Len(delivered) + Len(evicted) + 0
      BY <1>6, <3>1 DEF RunInv, IInv, NothingLostSilently
    <3> QED BY <1>1, <3>2
  <2>2. DOMAIN Recorded = 1..pushed
    BY <1>1, <2>1 DEF Recorded
  <2>3. \A i \in 1..pushed : Recorded[i] = work[i]
    BY <1>1, <2>1 DEF Recorded, RunInv, OrderInv
  <2>4. Len(Recorded) = Len(Performed) /\ Len(Recorded) = pushed
    BY <1>1, <1>3, <1>5, <2>2, LenProperties
  <2> QED BY <1>3, <1>5, <2>3, <2>4, SeqEqual
<1> QED BY <1>1, <1>2, <1>3, <1>4, <1>5, <1>6 DEF Recorded

\* A record rolls up to no more than the run does, and to the same if nothing
\* was dropped and all was drained.
THEOREM RollupsAlwaysCover == RunSpec => []RollupsCoverTheRun
<1>1. RunInv => RollupsCoverTheRun
  <2> SUFFICES ASSUME RunInv PROVE RollupsCoverTheRun
    OBVIOUS
  <2> DEFINE class == run_side_effect_class_max(Recorded)
             mode  == strictest_recording_mode(Recorded)
  <2>1. ASSUME class # None
        PROVE  class_order(class) <= class_order(run_side_effect_class_max(Performed))
    <3>1. PICK i \in Classed(Recorded) : class = Recorded[i].side_effect_class
      BY <2>1, RecordedOfPerformed, ClassRollup
    <3>2. /\ delivered[i] \in Classed(Performed)
          /\ class = Performed[delivered[i]].side_effect_class
      BY <3>1, RecordedOfPerformed DEF Classed
    <3> QED BY <3>2, RecordedOfPerformed, ClassRollup
  <2>2. ASSUME mode # None
        PROVE  mode_order(mode) <= mode_order(strictest_recording_mode(Performed))
    <3>1. PICK i \in DOMAIN Recorded : mode = Recorded[i].recording_mode
      BY <2>2, RecordedOfPerformed, ModeRollup
    <3>2. /\ delivered[i] \in DOMAIN Performed
          /\ mode = Performed[delivered[i]].recording_mode
      BY <3>1, RecordedOfPerformed
    <3>3. Performed # << >>
      BY <3>2
    <3> QED BY <3>2, <3>3, RecordedOfPerformed, ModeRollup
  <2>3. buf.entries = << >> /\ buf.dropped_total = 0 => Recorded = Performed
    BY RecordedOfPerformed
  <2> QED BY <2>1, <2>2, <2>3 DEF RollupsCoverTheRun
<1> QED BY <1>1, InductiveRun, PTL

\* A class that is unknown, or foreign, is never rolled up to a known one.
THEOREM UnknownAlwaysForcesReview == RunSpec => []UnknownForcesReview
<1>1. RunInv => UnknownForcesReview
  <2> SUFFICES ASSUME RunInv, NEW i \in DOMAIN Recorded,
                      Recorded[i].side_effect_class # None,
                      Recorded[i].side_effect_class \notin SideEffectClass \ {"unknown"}
               PROVE  run_side_effect_class_max(Recorded)
                          \notin SideEffectClass \ {"unknown"}
    BY DEF UnknownForcesReview
  <2>1. class_order(Recorded[i].side_effect_class) = 4
    BY DEF class_order, SideEffectClass
  <2>2. 4 <= class_order(run_side_effect_class_max(Recorded))
    BY <2>1, RecordedOfPerformed, ClassRollup DEF Classed
  <2>3. \A class \in SideEffectClass \ {"unknown"} : class_order(class) \in 0..3
    BY DEF class_order, SideEffectClass
  <2> QED BY <2>2, <2>3
<1> QED BY <1>1, InductiveRun, PTL

-----------------------------------------------------------------------------
(* The runs of the gateway *)

\* Evidence of the gateway has a class, says that it changes state unless the
\* class is "read", and goes below "full" for two classes only.
LEMMA GatewayFacts ==
  ASSUME NEW evidence \in ActionEvidence, MadeByGateway(evidence)
  PROVE  LET class == evidence.side_effect_class
             mode  == evidence.recording_mode
         IN /\ class \in SideEffectClass
            /\ evidence.state_changing = (class # "read")
            /\ mode_order(mode) < 2 => class \in {"read", "mutate-local"}
            /\ mode_order(mode) < 1 => class = "read"
<1>1. PICK ctx \in Contexts, default_mode \in RecordingMode :
          evidence = [build_evidence(evidence.action_id, evidence.tool_name, ctx,
                                     evidence.timestamp_ms, evidence.mcp_header_risk)
                         EXCEPT !.recording_mode = max_recording_mode(@, default_mode)]
  BY DEF MadeByGateway
<1>2. /\ evidence.side_effect_class = ctx.side_effect_class
      /\ evidence.state_changing = (ctx.side_effect_class # "read")
      /\ evidence.recording_mode =
             max_recording_mode(compile_recording_policy(ctx), default_mode)
  BY <1>1 DEF build_evidence
<1>3. ctx.side_effect_class \in SideEffectClass
  BY ContextsAssumption DEF RiskContext
<1> DEFINE policy == compile_recording_policy(ctx)
<1>4. /\ policy \in RecordingMode
      /\ policy # "full" => ctx.side_effect_class \in {"read", "mutate-local"}
      /\ policy = "validation" => ctx.side_effect_class = "read"
  BY <1>3 DEF compile_recording_policy, ForcesFull, RecordingMode, SideEffectClass
<1> HIDE DEF policy
<1>5. mode_order(policy) <= mode_order(max_recording_mode(policy, default_mode))
  BY <1>4 DEF max_recording_mode, mode_rank, mode_order, RecordingMode
<1>6. /\ mode_order(evidence.recording_mode) \in Nat
      /\ mode_order(policy) < 2 => policy # "full"
      /\ mode_order(policy) < 1 => policy = "validation"
  BY <1>4 DEF mode_order, RecordingMode, ActionEvidence
<1>7. mode_order(policy) \in Nat
  BY <1>4 DEF mode_order, RecordingMode
<1>8. mode_order(policy) <= mode_order(evidence.recording_mode)
  BY <1>2, <1>5 DEF policy
<1> QED BY <1>2, <1>3, <1>4, <1>6, <1>7, <1>8

\* The class and the mode that a record of the gateway rolls up to never
\* contradict each other, nor what its actions say of themselves.
THEOREM GatewayRollupsAgree == RunSpec => []RollupsAgree
<1>1. RunInv => RollupsAgree
  <2> DEFINE class == run_side_effect_class_max(Recorded)
             mode  == strictest_recording_mode(Recorded)
  <2> SUFFICES ASSUME RunInv, work \in GatewayRuns, delivered # << >>
               PROVE  /\ mode # "full" => class \in {"read", "mutate-local"}
                      /\ mode = "validation" => class = "read"
                      /\ class = "read" =>
                             \A i \in DOMAIN Recorded : ~Recorded[i].state_changing
    BY DEF RollupsAgree
  <2>1. Recorded \in Seq(ActionEvidence) /\ DOMAIN Recorded = DOMAIN delivered
    BY RecordedOfPerformed
  <2>2. \A i \in DOMAIN Recorded :
            Recorded[i] \in ActionEvidence /\ MadeByGateway(Recorded[i])
    BY <2>1, RecordedOfPerformed, GatewayAssumption
  <2>3. Recorded # << >> /\ DOMAIN Recorded # {}
    <3>1. delivered \in Seq(Nat)
      BY DEF RunInv, IInv, TypeOK
    <3>2. DOMAIN delivered # {}
      BY <3>1, EmptySeq, LenProperties
    <3> QED BY <2>1, <3>2
  <2>4. \A i \in DOMAIN Recorded : i \in Classed(Recorded)
    BY <2>2, GatewayFacts, NoClassAssumption DEF Classed
  <2>5. /\ \E i \in DOMAIN Recorded : class = Recorded[i].side_effect_class
        /\ \A i \in DOMAIN Recorded :
               class_order(Recorded[i].side_effect_class) <= class_order(class)
    BY <2>1, <2>3, <2>4, ClassRollup DEF Classed
  <2>6. /\ mode \in RecordingMode
        /\ \A i \in DOMAIN Recorded :
               mode_order(Recorded[i].recording_mode) <= mode_order(mode)
    BY <2>1, <2>2, <2>3, ModeRollup DEF ActionEvidence
  <2> HIDE DEF class, mode
  <2>7. PICK i \in DOMAIN Recorded : class = Recorded[i].side_effect_class
    BY <2>5
  <2>8. mode_order(Recorded[i].recording_mode) \in Nat /\ mode_order(mode) \in Nat
    BY <2>2, <2>6 DEF mode_order, RecordingMode, ActionEvidence
  <2>9. ASSUME mode # "full" PROVE class \in {"read", "mutate-local"}
    <3>1. mode_order(mode) < 2
      BY <2>6, <2>9 DEF mode_order, RecordingMode
    <3>2. mode_order(Recorded[i].recording_mode) < 2
      BY <2>6, <2>8, <3>1
    <3> QED BY <2>2, <2>7, <3>2, GatewayFacts
  <2>10. ASSUME mode = "validation" PROVE class = "read"
    <3>1. mode_order(mode) < 1
      BY <2>10 DEF mode_order
    <3>2. mode_order(Recorded[i].recording_mode) < 1
      BY <2>6, <2>8, <3>1
    <3> QED BY <2>2, <2>7, <3>2, GatewayFacts
  <2>11. ASSUME class = "read", NEW j \in DOMAIN Recorded
         PROVE  ~Recorded[j].state_changing
    <3>1. class_order(Recorded[j].side_effect_class) <= 0
      BY <2>5, <2>11 DEF class_order
    <3>2. Recorded[j].side_effect_class \in SideEffectClass
      BY <2>2, GatewayFacts
    <3>3. Recorded[j].side_effect_class = "read"
      BY <3>1, <3>2 DEF class_order, SideEffectClass
    <3> QED BY <2>2, <3>3, GatewayFacts
  <2> QED BY <2>9, <2>10, <2>11
<1> QED BY <1>1, InductiveRun, PTL
=============================================================================
