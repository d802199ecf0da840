--------------------------- MODULE MCSignedRecords ---------------------------
(* Small instances of SignedRecords, and of what is claimed of it, for TLC. *)
EXTENDS RecordClaims

SomeSlices == {<< >>, <<"POST /pay">>}

SomeIdentities == {[trace_id |-> trace, agent_id |-> "agent"] : trace \in {"t1", "  "}}

Plain == bare("aep/v0.3", <<"r1">>, <<"POST /pay">>)

graded(floor, observed) ==
    [Plain EXCEPT !.run_attribution_backing_floor = floor,
                  !.run_attribution_backing_observed = observed]

Mixed == <<"principal_key_signed", "operator_asserted">>

\* Records with every state of the floor and of the observed grades, one of
\* them with a grade outside the vocabulary.
SomeRecords ==
    {graded(None, None), graded(None, Mixed), graded("none", None),
     graded("none", << >>), graded("none", Mixed),
     graded("operator_asserted", Mixed), graded("principal_key_signed", Mixed),
     graded("operator_asserted", <<"self_asserted", "subject_consented">>)}

\* Signed in a way that is no longer verified; with a number in extra that
\* only this code writes as it does.
OneRecord == {[Plain EXCEPT !.signature = "legacy", !.extra = [cost |-> WholeFloat]]}

ContentEdits ==
    {[field |-> "actions", value |-> << >>],
     [field |-> "identity_source", value |-> "verified"]}

GradeEdits ==
    {[field |-> "run_attribution_backing_floor", value |-> "subject_consented"],
     [field |-> "run_attribution_backing_observed", value |-> None]}

\* Records with fields the struct does not model: a null, and numbers.
ForeignDoc(cost) ==
    [schema_version |-> "aep/v0.5", run_id |-> <<"r2">>, actions |-> <<"tool_call">>,
     user_id |-> "dana", prev_record_hash |-> JsonNull, cost |-> cost]

OneDoc == {ForeignDoc("5")}

NumberDocs == {ForeignDoc(cost) : cost \in {"5", WholeFloat, LongFloat}}

\* A floor that no observed grade supports: this code would not sign it.
UngradedDoc ==
    {[schema_version |-> "aep/v0.5", run_id |-> <<"r2">>, actions |-> <<"tool_call">>,
      run_attribution_backing_floor |-> "subject_consented"]}
=============================================================================
