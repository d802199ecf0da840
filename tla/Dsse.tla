--------------------------------- MODULE Dsse ----------------------------------
(***************************************************************************)
(* AepRecord and its JSON (crates/aep-core/src/evidence.rs), and signing   *)
(* and verifying it as a DSSE envelope (dsse.rs, signing.rs), as operators.*)
(*                                                                         *)
(* Bytes are symbolic: canonical_json, SHA-256, PAE and Ed25519 are        *)
(* constructors, so they are injective and only a key's owner signs with   *)
(* it.  A JSON object is a function, which has no order of keys: that      *)
(* order is what canonicalization takes away.  A text put together with    *)
(* format! is the sequence of its pieces.  Of the JSON null and of numbers *)
(* the model has those that serde_json treats in a way of its own.         *)
(***************************************************************************)
EXTENDS Integers, Sequences

CONSTANTS
    None,        \* an Option without a value
    JsonNull,    \* the JSON null
    WholeFloat,  \* a float without a fraction: 5.0, which RFC 8785 writes as 5
    LongFloat,   \* a float of 17 digits that is read as its neighbour,
    NextFloat    \* which is this one

-----------------------------------------------------------------------------
(* Records and their JSON *)

AEP_SCHEMA_VERSION == "aep/v0.5"

Required == {"schema_version", "run_id", "actions"}

Optional == {"trace_id", "user_id", "identity_source",
             "run_attribution_backing_floor",
             "run_attribution_backing_observed", "signature", "dsse_envelope"}

\* A struct with nothing in its optional fields.
bare(schema_version, run_id, actions) ==
    [schema_version |-> schema_version, run_id |-> run_id, actions |-> actions,
     trace_id |-> None, user_id |-> None, identity_source |-> None,
     run_attribution_backing_floor |-> None,
     run_attribution_backing_observed |-> None,
     signature |-> None, dsse_envelope |-> None,
     extra |-> << >>]

\* serde_json::to_value: fields that are None are left out, and the
\* flattened extra comes last, so it wins over a field of its name.
to_value(record) ==
    LET present == {name \in Required \cup Optional : record[name] # None}
    IN [name \in present \cup DOMAIN record.extra |->
            IF name \in DOMAIN record.extra THEN record.extra[name]
                                            ELSE record[name]]

\* Mutant: extra is not flattened, so unmodelled fields are dropped.
from_value_NoExtra(doc) ==
    [name \in Required \cup Optional \cup {"extra"} |->
        IF name = "extra" THEN << >>
        ELSE IF name \in DOMAIN doc THEN doc[name] ELSE None]

\* Mutant: extra keeps the fields the struct models, too.
from_value_AllExtra(doc) ==
    [name \in Required \cup Optional \cup {"extra"} |->
        IF name = "extra" THEN doc
        ELSE IF name \in DOMAIN doc THEN doc[name] ELSE None]

\* What serde_json makes of the text of a value.
parsed(value) == IF value = LongFloat THEN NextFloat ELSE value

\* Deserialization: what the struct does not model goes to extra, nulls and
\* numbers included; a null in an optional field is the same as no field.
from_value(doc) ==
    [name \in Required \cup Optional \cup {"extra"} |->
        IF name = "extra"
        THEN [other \in DOMAIN doc \ (Required \cup Optional) |-> parsed(doc[other])]
        ELSE IF name \in DOMAIN doc /\ doc[name] # JsonNull THEN doc[name]
        ELSE None]

\* The fields of the struct that extra holds as well.
doubled(record) ==
    {name \in Required \cup Optional : record[name] # None} \cap DOMAIN record.extra

\* serde_json::to_string: the struct writes its fields, and then extra its own,
\* so that a text, other than a value, may have a key twice: "twice" holds the
\* first value of such a key, json the second, and the others.
to_string(record) ==
    [json |-> to_value(record), twice |-> [name \in doubled(record) |-> record[name]]]

\* The text of an object that has each key once.
text_of(doc) == [json |-> doc, twice |-> [name \in {} |-> None]]

\* A second value for a field of the struct is an error, "duplicate field".
refused(text) == DOMAIN text.twice # {}

\* Mutant: of a key that comes twice, the first value is taken.
from_str_FirstWins(text) ==
    from_value([name \in DOMAIN text.json |->
                    IF name \in DOMAIN text.twice THEN text.twice[name]
                                                  ELSE text.json[name]])

\* serde_json::from_str, with None for its Err.
from_str(text) == IF refused(text) THEN None ELSE from_value(text.json)

stripped(record) == [record EXCEPT !.signature = None, !.dsse_envelope = None]

\* What is signed of a record: everything but the signing fields.
predicate_of(record) == to_value(stripped(record))

\* The JSON of a record with its envelope attached.
enveloped(doc, envelope) ==
    [name \in DOMAIN doc \cup {"dsse_envelope"} |->
        IF name = "dsse_envelope" THEN envelope ELSE doc[name]]

-----------------------------------------------------------------------------
(* Signing *)

\* Two producers write the same bytes, but for a number of their own form.
serialized(value, producer) ==
    [jcs     |-> value,
     numbers |-> IF \E name \in DOMAIN value : value[name] = WholeFloat
                 THEN producer ELSE "any"]

\* Keys are sorted as RFC 8785 says; numbers are left to serde_json.
canonical_json(value) == serialized(value, "serde_json")

\* The canonical bytes of producers that follow RFC 8785 throughout.
rfc8785(value) == serialized(value, "RFC 8785")

sha256_hex(bytes) == [sha256 |-> bytes]

IN_TOTO_PAYLOAD_TYPE == "application/vnd.in-toto+json"
IN_TOTO_STATEMENT_TYPE == "https://in-toto.io/Statement/v1"
AEP_PREDICATE_TYPE == "https://wasmagent.dev/attestations/aep/v0.4"

pae_encode(payload_type, payload) == <<payload_type, payload>>

ed25519(key, message) == [by |-> key, over |-> message]

\* STANDARD takes the padded standard alphabet only; the lenient decoder of
\* signatures takes the URL-safe one, and a missing padding, as well.
encode(bytes) == [base64 |-> "standard", bytes |-> bytes]

decode(text) == IF text.base64 = "standard" THEN text.bytes ELSE None

\* Mutant: signatures are decoded as strictly as the payload is.
decode_base64_lenient_Strict(text) == decode(text)

decode_base64_lenient(text) ==
    IF text.base64 \in {"standard", "url_safe", "unpadded"} THEN text.bytes ELSE None

subject_name(run_id) == <<"urn:wasmagent:run:">> \o run_id

wrap_in_toto_statement(predicate, run_id, payload_digest) ==
    [type          |-> IN_TOTO_STATEMENT_TYPE,
     subject       |-> <<[name   |-> subject_name(run_id),
                          digest |-> [sha256 |-> payload_digest]]>>,
     predicateType |-> AEP_PREDICATE_TYPE,
     predicate     |-> predicate]

statement_of(doc, bytes) ==
    wrap_in_toto_statement(doc, doc["run_id"], sha256_hex(bytes))

envelope_of(statement, key) ==
    LET bytes == canonical_json(statement)
    IN [payload_type |-> IN_TOTO_PAYLOAD_TYPE,
        payload      |-> encode(bytes),
        signatures   |-> <<encode(ed25519(key, pae_encode(IN_TOTO_PAYLOAD_TYPE, bytes)))>>]

\* A grade outside the vocabulary ranks with the weakest.
grade_rank(grade) ==
    CASE grade = "operator_asserted"     -> 1
      [] grade = "principal_key_signed"  -> 2
      [] grade = "organization_attested" -> 3
      [] grade = "subject_consented"     -> 4
      [] OTHER                           -> 0

\* Mutant: one observed grade as strong as the floor is enough.
floor_consistent_Any(record) ==
    LET floor    == record.run_attribution_backing_floor
        observed == record.run_attribution_backing_observed
    IN IF floor = None THEN observed = None
       ELSE observed # None /\ \E i \in DOMAIN observed :
                grade_rank(floor) <= grade_rank(observed[i])

\* The checks before anything is touched: a floor and observed grades come
\* together, and the floor is not stronger than the weakest of them.
floor_consistent(record) ==
    LET floor    == record.run_attribution_backing_floor
        observed == record.run_attribution_backing_observed
    IN IF floor = None THEN observed = None
       ELSE /\ observed # None /\ observed # << >>
            /\ \A i \in DOMAIN observed :
                   grade_rank(floor) <= grade_rank(observed[i])

\* The record with a new envelope, the signing fields it had cleared.
signed(record, key) ==
    LET doc == predicate_of(record)
    IN [stripped(record) EXCEPT
            !.dsse_envelope = envelope_of(statement_of(doc, canonical_json(doc)), key)]

\* Mutant: the signing fields are cleared before the checks.
sign_record_dsse_StripsFirst(record, key) ==
    IF floor_consistent(record) THEN signed(record, key) ELSE stripped(record)

\* The record after the call; one that is refused is as it was.
sign_record_dsse(record, key) ==
    IF floor_consistent(record) THEN signed(record, key) ELSE record

-----------------------------------------------------------------------------
(* Verification *)

signature_verifies(envelope, key) ==
    /\ envelope.payload_type = IN_TOTO_PAYLOAD_TYPE
    /\ Len(envelope.signatures) = 1
    /\ decode(envelope.payload) # None
    /\ decode_base64_lenient(envelope.signatures[1]) # None
    /\ decode_base64_lenient(envelope.signatures[1]) =
           ed25519(key, pae_encode(IN_TOTO_PAYLOAD_TYPE, decode(envelope.payload)))

\* Mutant: the type of the predicate is not looked at.
names_record_AnyPredicate(statement, record) ==
    /\ statement.type = IN_TOTO_STATEMENT_TYPE
    /\ statement.subject # << >>
    /\ statement.subject[1].name = subject_name(record.run_id)
    /\ statement.subject[1].digest # None

\* The statement is one of this profile, and its first subject this run.
names_record(statement, record) ==
    /\ statement.type = IN_TOTO_STATEMENT_TYPE
    /\ statement.predicateType = AEP_PREDICATE_TYPE
    /\ statement.subject # << >>
    /\ statement.subject[1].name = subject_name(record.run_id)
    /\ statement.subject[1].digest # None

\* "ok", "err", or "panic": indexing a serde_json Map by a key it does not
\* have is no Err.
verify_record_dsse(record, key) ==
    LET envelope  == record.dsse_envelope
        statement == decode(envelope.payload).jcs
        digests   == statement.subject[1].digest
        expected  == sha256_hex(canonical_json(predicate_of(record)))
    IN IF \/ envelope = None
          \/ ~signature_verifies(envelope, key)
          \/ ~names_record(statement, record)      THEN "err"
       ELSE IF "sha256" \notin DOMAIN digests       THEN "panic"
       ELSE IF digests["sha256"] = expected         THEN "ok"
       ELSE "err"

Accepts(record, key) == verify_record_dsse(record, key) = "ok"
=============================================================================
