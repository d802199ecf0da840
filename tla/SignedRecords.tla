---------------------------- MODULE SignedRecords -----------------------------
(***************************************************************************)
(* The life of AEP records: assembled and signed by the gateway            *)
(* (crates/proxy-wasm-evidence/src/emitter.rs), signed and verified by any *)
(* caller of crates/aep-core/src/dsse.rs, handed to a sink, read back,     *)
(* changed on the way, and met by the records of other producers, which    *)
(* share the format and the signing profile but not the code.              *)
(*                                                                         *)
(* Verifying reads a record and changes nothing, so it is no action: the   *)
(* properties ask for the verdict in every state, under every key.         *)
(***************************************************************************)
EXTENDS Dsse, FiniteSets

CONSTANTS
    EmitterKeys,      \* keys used through assemble_and_sign only
    ClientKeys,       \* keys used with sign_record_dsse directly
    ForeignKeys,      \* keys of producers that are not this code
    Slices,           \* the slices of evidence assemble_and_sign is given
    Identities,       \* the EmitterIdentity it is given
    ClientRecords,    \* records that callers build themselves
    Edits,            \* changes of a field of a record: [field, value]
    ForeignDocs,      \* the JSON of records of other producers, unsigned
    MaxSigned,        \* bound on the envelopes made
    MaxPublished      \* bound on the records that sinks hold

\* A key is used in one of the three ways.
ASSUME KeysAssumption ==
    /\ EmitterKeys \cap (ClientKeys \cup ForeignKeys) = {}
    /\ ClientKeys \cap ForeignKeys = {}

\* What a field that is always there holds: not a null, and not nothing.
IsValue(value) == value \notin {None, JsonNull}

\* The gateway's inputs are Rust strings and vectors.
ASSUME GatewayAssumption ==
    /\ IsValue(AEP_SCHEMA_VERSION) /\ IsValue("self_asserted")
    /\ \A actions \in Slices : IsValue(actions)
    /\ \A identity \in Identities : IsValue(identity.trace_id)

\* Callers build whole records, which they have yet to sign.
ASSUME ClientRecordsAssumption ==
    \A record \in ClientRecords :
        /\ DOMAIN record = Required \cup Optional \cup {"extra"}
        /\ DOMAIN record.extra \cap (Required \cup Optional) = {}
        /\ \A name \in Required : IsValue(record[name])
        /\ record.dsse_envelope = None

\* A field that is not an Option is never changed to nothing; envelopes are
\* changed by ChangeEnvelope.
ASSUME EditsAssumption ==
    \A edit \in Edits :
        /\ edit.field \in (Required \cup Optional) \ {"dsse_envelope"}
        /\ edit.field \in Required => IsValue(edit.value)

\* Other producers write every required field, and nothing signed as yet.
ASSUME ForeignDocsAssumption ==
    \A doc \in ForeignDocs :
        /\ doc = [name \in DOMAIN doc |-> doc[name]]
        /\ Required \subseteq DOMAIN doc
        /\ \A name \in Required : IsValue(doc[name])
        /\ \A name \in DOMAIN doc : doc[name] # None
        /\ {"signature", "dsse_envelope"} \cap DOMAIN doc = {}

\* The runs that records are about, an edited run_id included.
RunIds ==
    {record.run_id : record \in ClientRecords} \cup {doc.run_id : doc \in ForeignDocs}
    \cup {<<"gw-", identity.trace_id>> : identity \in Identities}
    \cup {edit.value : edit \in {e \in Edits : e.field = "run_id"}}

\* The subject of an odd statement is that of none of these runs.
ASSUME RunIdsAssumption ==
    \A run_id \in RunIds :
        /\ IsValue(run_id)
        /\ subject_name(run_id) \notin {None, subject_name(<<"another">>)}

VARIABLES
    rec,         \* the AepRecord in hand, or None
    published,   \* texts that sinks hold, and the keys they verified under then
    attested     \* history: who signed what, and the envelope it got

vars == <<rec, published, attested>>

Keys == EmitterKeys \cup ClientKeys \cup ForeignKeys

Init ==
    /\ rec = None
    /\ published = {}
    /\ attested = {}

\* What a signature of this code's profile attests.
attest(key, record) ==
    attested' = attested \cup {[key       |-> key,
                                predicate |-> predicate_of(record),
                                envelope  |-> record.dsse_envelope]}

-----------------------------------------------------------------------------
(* The gateway *)

\* A trace id of white space only binds to no run.
blank(trace_id) == trace_id \in {"", "  "}

\* Mutant: the agent is recorded as the user.
assembled_AgentIsUser(actions, identity) ==
    [bare(AEP_SCHEMA_VERSION, <<"gw-", identity.trace_id>>, actions) EXCEPT
        !.trace_id = identity.trace_id,
        !.user_id  = identity.agent_id]

\* The agent was observed, not authenticated, so it goes to extra.
assembled(actions, identity) ==
    [bare(AEP_SCHEMA_VERSION, <<"gw-", identity.trace_id>>, actions) EXCEPT
        !.trace_id = identity.trace_id,
        !.extra    = [claimed_agent_id |-> identity.agent_id,
                      identity_source  |-> "self_asserted"]]

\* It fails closed: without evidence, or a run to bind it to, no record.
AssembleAndSign(actions, identity, key) ==
    /\ Cardinality(attested) < MaxSigned
    /\ actions # << >>
    /\ ~blank(identity.trace_id)
    /\ rec' = sign_record_dsse(assembled(actions, identity), key)
    /\ attest(key, rec')
    /\ UNCHANGED published

\* EvidenceSink::emit: a sink writes the record as text, whether or not that can
\* be read again; a sink that fails has stored nothing.
Emit ==
    /\ rec # None
    /\ Cardinality(published) < MaxPublished
    /\ published' = published \cup
           {[text |-> to_string(rec), by |-> {key \in Keys : Accepts(rec, key)}]}
    /\ UNCHANGED <<rec, attested>>

-----------------------------------------------------------------------------
(* Other callers of aep-core, and what happens to a record on its way *)

BuildRecord ==
    /\ rec' \in ClientRecords
    /\ UNCHANGED <<published, attested>>

SignRecord(key) ==
    /\ rec # None
    /\ Cardinality(attested) < MaxSigned
    /\ rec' = sign_record_dsse(rec, key)
    /\ IF floor_consistent(rec) THEN attest(key, rec') ELSE UNCHANGED attested
    /\ UNCHANGED published

\* A reader that is refused is left with the record it had, or none.
ReadBack ==
    /\ \E entry \in published :
           rec' = IF refused(entry.text) THEN rec ELSE from_str(entry.text)
    /\ UNCHANGED <<published, attested>>

EditRecord ==
    /\ rec # None
    /\ \E edit \in Edits : rec' = [rec EXCEPT ![edit.field] = edit.value]
    /\ UNCHANGED <<published, attested>>

\* The same signature, in another alphabet of base64.
Recoded(envelope) ==
    {[envelope EXCEPT !.signatures[1].base64 = form] :
        form \in {"standard", "url_safe", "unpadded"}}

\* What a damaged or rewritten envelope may look like.
Damaged(envelope) ==
    {[envelope EXCEPT !.payload_type = "text/plain"],
     [envelope EXCEPT !.payload.base64 = "url_safe"],
     [envelope EXCEPT !.signatures = << >>],
     [envelope EXCEPT !.signatures = @ \o @],
     [envelope EXCEPT !.signatures[1].base64 = "not_base64"]}

\* The envelope gets changed, or one made for another record takes its
\* place, changed or not.
ChangeEnvelope ==
    /\ rec # None
    /\ \E made \in attested :
           \E envelope \in Recoded(made.envelope) \cup Damaged(made.envelope) :
               rec' = [rec EXCEPT !.dsse_envelope = envelope]
    /\ UNCHANGED <<published, attested>>

\* Statements another producer may sign that are not of this profile.
OddStatements(statement) ==
    {[statement EXCEPT !.type = "https://in-toto.io/Statement/v0.1"],
     [statement EXCEPT !.predicateType = "https://wasmagent.dev/attestations/aep/v0.3"],
     [statement EXCEPT !.subject = << >>],
     [statement EXCEPT !.subject[1].name = None],
     [statement EXCEPT !.subject[1].name = subject_name(<<"another">>)],
     [statement EXCEPT !.subject[1].digest = None],
     [statement EXCEPT !.subject[1].digest = << >>],
     [statement EXCEPT !.subject[1].digest = [sha256 |-> sha256_hex(canonical_json(<< >>))]]}

\* Another producer publishes a record, signed as this code would sign it.
ForeignRecord(doc, key) ==
    /\ Cardinality(published) < MaxPublished
    /\ Cardinality(attested) < MaxSigned
    /\ LET made == envelope_of(statement_of(doc, rfc8785(doc)), key)
       IN /\ attested' = attested \cup
                 {[key |-> key, predicate |-> doc, envelope |-> made]}
          /\ published' = published \cup
                 {[text |-> text_of(enveloped(doc, made)), by |-> {key}]}
    /\ UNCHANGED rec

\* Another producer publishes a record under some other attestation.
OddRecord(doc, key) ==
    /\ Cardinality(published) < MaxPublished
    /\ \E statement \in OddStatements(statement_of(doc, rfc8785(doc))) :
           published' = published \cup
               {[text |-> text_of(enveloped(doc, envelope_of(statement, key))), by |-> {}]}
    /\ UNCHANGED <<rec, attested>>

Next ==
    \/ \E actions \in Slices, identity \in Identities, key \in EmitterKeys :
           AssembleAndSign(actions, identity, key)
    \/ Emit
    \/ BuildRecord
    \/ \E key \in ClientKeys : SignRecord(key)
    \/ ReadBack
    \/ EditRecord
    \/ ChangeEnvelope
    \/ \E doc \in ForeignDocs, key \in ForeignKeys :
           ForeignRecord(doc, key) \/ OddRecord(doc, key)

Spec == Init /\ [][Next]_vars

-----------------------------------------------------------------------------

\* Where assemble_and_sign puts identity_source: the field of the struct that
\* extra then hides holds nothing that is signed.
SelfAsserted(object) ==
    /\ "claimed_agent_id" \in DOMAIN object
    /\ object["identity_source"] = "self_asserted"

\* A record has the fields of the struct, and extra holds none of those that
\* the struct models: but for identity_source, which it holds, and hides, in a
\* record of assemble_and_sign that has not been read back, with one value.
TypeOK ==
    /\ rec # None =>
        /\ DOMAIN rec = Required \cup Optional \cup {"extra"}
        /\ DOMAIN rec.extra \cap (Required \cup Optional) \subseteq {"identity_source"}
        /\ "identity_source" \in DOMAIN rec.extra => SelfAsserted(rec.extra)
    /\ \A entry \in published : entry.by \subseteq Keys
    /\ \A made \in attested : made.key \in Keys

\* A record verifies under a key only if the key's owner signed exactly its
\* contents, under this profile: whatever was edited, re-encoded or put in the
\* place of something else on the way.
AcceptsOnlyTheSigned ==
    rec # None =>
        \A key \in Keys : Accepts(rec, key) =>
            \E made \in attested :
                made.key = key /\ made.predicate = predicate_of(rec)

\* Both sides write the same text: a number that serde_json and RFC 8785
\* write differently is no part of another producer's record.
SameText(doc, key) ==
    key \in ForeignKeys => \A name \in DOMAIN doc : doc[name] # WholeFloat

\* ... and whenever it did: a record with the contents that were signed, and
\* the envelope made for them, verifies, in whichever base64 the signature is.
AcceptsAllTheSigned ==
    rec # None =>
        \A made \in attested :
            /\ rec.dsse_envelope \in Recoded(made.envelope)
            /\ predicate_of(rec) = made.predicate
            /\ SameText(made.predicate, made.key)
            => Accepts(rec, made.key)

\* The JSON reads back as it was: what serde_json takes for something else is
\* a number of 17 digits, and a null in a field the struct models.
Portable(doc) ==
    \A name \in DOMAIN doc :
        doc[name] # LongFloat /\ (name \in Optional => doc[name] # JsonNull)

\* "Foreign producers' extra fields must survive a deserialize -> serialize
\* round trip": what verified when a sink got it, by whomever it was signed,
\* verifies for whoever can read it back, and is sent on with the same keys and
\* values, each once; a null or a number of an extra field included, within these
\* two conditions.  Whose text cannot be read, the next property says.
SurvivesTheWire ==
    \A entry \in published : \A key \in entry.by :
        LET text == entry.text
        IN Portable(text.json) /\ SameText(text.json, key) /\ from_str(text) # None =>
               /\ Accepts(from_str(text), key)
               /\ to_string(from_str(text)) = text

\* The text of a record that verified is refused only where a record of the
\* gateway had its field identity_source set, which extra hides and no digest
\* covers, so that the key is there twice; and a value set there never arrives: what
\* verified under a key of the gateway says of its identity, to everybody who
\* can read it, that it is self-asserted.
SetIdentityNeverArrives ==
    \A entry \in published : \A key \in entry.by :
        LET text == entry.text
        IN /\ refused(text) => /\ DOMAIN text.twice = {"identity_source"}
                               /\ SelfAsserted(text.json)
           /\ key \in EmitterKeys /\ from_str(text) # None =>
                  from_str(text).identity_source = "self_asserted"

\* A record that verifies under a key of this code never has a floor that
\* masks a weaker grade, nor grades or a floor alone, although verification
\* looks at neither: the checks of sign_record_dsse, kept by the digest.
NoMaskedGrades ==
    rec # None =>
        \A key \in EmitterKeys \cup ClientKeys : Accepts(rec, key) =>
            LET floor    == rec.run_attribution_backing_floor
                observed == rec.run_attribution_backing_observed
            IN /\ (floor = None) <=> (observed = None)
               /\ floor # None => observed # << >>
               /\ floor # None => \A i \in DOMAIN observed :
                      ~(grade_rank(observed[i]) < grade_rank(floor))

\* A record that verifies under a key the gateway keeps to itself is about
\* some evidence, belongs to the run of its trace, and claims no user: the
\* promises of assemble_and_sign, for whoever holds the record later.
GatewayPromises ==
    rec # None =>
        \A key \in EmitterKeys : Accepts(rec, key) =>
            LET doc == to_value(rec)
            IN /\ doc["actions"] # << >>
               /\ doc["run_id"] = <<"gw-", doc["trace_id"]>>
               /\ ~blank(doc["trace_id"])
               /\ "user_id" \notin DOMAIN doc
               /\ doc["identity_source"] = "self_asserted"

\* Signing again is safe: a call that is refused leaves a record under the
\* envelope it had, and one that is not replaces it, so no call takes a record
\* that verifies and leaves one that does not.
SigningNeverUnsigns ==
    [][\A key \in ClientKeys :
           SignRecord(key) /\ (\E other \in Keys : Accepts(rec, other))
               => \E other \in Keys : Accepts(rec', other)]_vars
=============================================================================
