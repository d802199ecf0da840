-------------------------- MODULE SignedRecordsProofs --------------------------
(***************************************************************************)
(* What holds of every record in circulation, whatever the inputs, the     *)
(* keys and the number of records signed and published: where an envelope  *)
(* comes from is kept, as an invariant, from signing through sinks, edits  *)
(* and re-encoding, and a verdict of "ok" leads back along it.             *)
(***************************************************************************)
EXTENDS SignedRecords, DsseProofs

-----------------------------------------------------------------------------
(* Records and their JSON *)

\* What the fields of a record that was read hold.
LEMMA ReadFields ==
  ASSUME NEW doc
  PROVE  /\ DOMAIN from_value(doc) = Fields
         /\ \A name \in Required \cup Optional :
                from_value(doc)[name] =
                    IF name \in DOMAIN doc /\ doc[name] # JsonNull THEN doc[name] ELSE None
         /\ from_value(doc).extra =
                [other \in DOMAIN doc \ (Required \cup Optional) |-> parsed(doc[other])]
<1>1. "extra" \notin Required \cup Optional
  BY DEF Required, Optional
<1> QED BY <1>1 DEF from_value, Fields

\* What the JSON of a record holds.
LEMMA WrittenFields ==
  ASSUME NEW record
  PROVE  LET doc == to_value(record)
         IN /\ DOMAIN doc = {name \in Required \cup Optional : record[name] # None}
                                \cup DOMAIN record.extra
            /\ \A name \in DOMAIN doc :
                   doc[name] = IF name \in DOMAIN record.extra THEN record.extra[name]
                                                               ELSE record[name]
            /\ doc = [name \in DOMAIN doc |-> doc[name]]
  BY DEF to_value

\* The JSON of a record is what is signed of it, but for the signing fields.
LEMMA WrittenAsSigned ==
  ASSUME NEW record, DOMAIN record = Fields, NEW name, name \notin SigningFields
  PROVE  /\ name \in DOMAIN to_value(record) <=> name \in DOMAIN predicate_of(record)
         /\ name \in DOMAIN to_value(record) =>
                to_value(record)[name] = predicate_of(record)[name]
<1>1. stripped(record).extra = record.extra
  BY DEF stripped, Fields, Required, Optional
<1>2. ASSUME name \in Required \cup Optional
      PROVE  stripped(record)[name] = record[name]
  BY <1>2 DEF stripped, Fields, SigningFields
<1> QED BY <1>1, <1>2, WrittenFields DEF predicate_of, to_value

\* Reading what was written, and writing it, gives the same JSON.
LEMMA RoundTrip ==
  ASSUME NEW doc, doc = [name \in DOMAIN doc |-> doc[name]],
         Required \subseteq DOMAIN doc, \A name \in Required : IsValue(doc[name]),
         \A name \in DOMAIN doc \cap Optional : doc[name] # None,
         Portable(doc)
  PROVE  to_value(from_value(doc)) = doc
<1> DEFINE record == from_value(doc)
           struct == Required \cup Optional
<1>1. record.extra = [other \in DOMAIN doc \ struct |-> doc[other]]
  BY ReadFields DEF parsed, Portable
<1>2. \A name \in struct : record[name] = IF name \in DOMAIN doc THEN doc[name] ELSE None
  BY ReadFields DEF Portable, IsValue
<1>3. {name \in struct : record[name] # None} = struct \cap DOMAIN doc
  BY <1>2 DEF IsValue
<1>4. DOMAIN to_value(record) = DOMAIN doc
  BY <1>1, <1>3, WrittenFields
<1>5. \A name \in DOMAIN doc : to_value(record)[name] = doc[name]
  <2> SUFFICES ASSUME NEW name \in DOMAIN doc
               PROVE  to_value(record)[name] = doc[name]
    OBVIOUS
  <2>1. to_value(record)[name] = IF name \in DOMAIN record.extra THEN record.extra[name]
                                                                ELSE record[name]
    BY <1>4, WrittenFields
  <2> HIDE DEF record
  <2>2. CASE name \in struct
    BY <1>1, <1>2, <2>1, <2>2
  <2>3. CASE name \notin struct
    BY <1>1, <2>1, <2>3
  <2> QED BY <2>2, <2>3
<1>6. to_value(record) = [name \in DOMAIN doc |-> to_value(record)[name]]
  BY <1>4, WrittenFields
<1> HIDE DEF record
<1>7. to_value(record) = [name \in DOMAIN doc |-> doc[name]]
  BY <1>5, <1>6
<1> QED BY <1>7 DEF record

-----------------------------------------------------------------------------
(* Envelopes *)

\* Re-encoding a signature changes neither what it covers nor who made it.
LEMMA RecodedOpens ==
  ASSUME NEW statement, NEW signer,
         NEW envelope \in Recoded(envelope_of(statement, signer))
  PROVE  LET bytes == canonical_json(statement)
         IN /\ envelope.payload_type = IN_TOTO_PAYLOAD_TYPE
            /\ decode(envelope.payload) = bytes
            /\ bytes.jcs = statement
            /\ Len(envelope.signatures) = 1
            /\ decode_base64_lenient(envelope.signatures[1]) =
                   ed25519(signer, pae_encode(IN_TOTO_PAYLOAD_TYPE, bytes))
            /\ \A key : signature_verifies(envelope, key) => key = signer
<1> DEFINE bytes == canonical_json(statement)
           signature == ed25519(signer, pae_encode(IN_TOTO_PAYLOAD_TYPE, bytes))
           made == envelope_of(statement, signer)
<1>1. made = [payload_type |-> IN_TOTO_PAYLOAD_TYPE, payload |-> encode(bytes),
              signatures |-> <<encode(signature)>>]
  BY DEF envelope_of
<1>2. bytes.jcs = statement
  BY DEF canonical_json, serialized
<1>3. PICK form \in {"standard", "url_safe", "unpadded"} :
          envelope = [made EXCEPT !.signatures[1].base64 = form]
  BY DEF Recoded
<1> HIDE DEF bytes, signature, made
<1>4. /\ envelope.payload_type = IN_TOTO_PAYLOAD_TYPE
      /\ envelope.payload = encode(bytes)
      /\ envelope.signatures = <<[base64 |-> form, bytes |-> signature]>>
  BY <1>1, <1>3 DEF encode
<1>5. decode(envelope.payload) = bytes
  BY <1>4 DEF decode, encode
<1>6. Len(envelope.signatures) = 1 /\ envelope.signatures[1] = [base64 |-> form, bytes |-> signature]
  BY <1>4
<1>7. decode_base64_lenient(envelope.signatures[1]) = signature
  BY <1>6 DEF decode_base64_lenient
<1>8. \A key : signature_verifies(envelope, key) => key = signer
  BY <1>7 DEF signature_verifies, ed25519, signature
<1> QED BY <1>2, <1>4, <1>5, <1>6, <1>7, <1>8 DEF bytes, signature

\* The standard alphabet is the one signatures are made in.
LEMMA RecodedSelf ==
  ASSUME NEW statement, NEW signer
  PROVE  envelope_of(statement, signer) \in Recoded(envelope_of(statement, signer))
<1> DEFINE envelope == envelope_of(statement, signer)
<1>1. PICK payload, signature :
          envelope = [payload_type |-> IN_TOTO_PAYLOAD_TYPE, payload |-> payload,
                      signatures |-> <<[base64 |-> "standard", bytes |-> signature]>>]
  BY DEF envelope_of, encode
<1> HIDE DEF envelope
<1>2. envelope = [envelope EXCEPT !.signatures[1].base64 = "standard"]
  BY <1>1
<1>3. envelope \in Recoded(envelope)
  BY <1>2 DEF Recoded
<1> QED BY <1>3 DEF envelope

\* A damaged envelope verifies under no key.
LEMMA DamagedFails ==
  ASSUME NEW statement, NEW signer, NEW key,
         NEW envelope \in Damaged(envelope_of(statement, signer))
  PROVE  ~signature_verifies(envelope, key)
<1> DEFINE made == envelope_of(statement, signer)
<1>1. PICK bytes, signature :
          made = [payload_type |-> IN_TOTO_PAYLOAD_TYPE, payload |-> encode(bytes),
                  signatures |-> <<encode(signature)>>]
  BY DEF envelope_of
<1> HIDE DEF made
<1>2. CASE envelope = [made EXCEPT !.payload_type = "text/plain"]
  BY <1>1, <1>2 DEF signature_verifies, IN_TOTO_PAYLOAD_TYPE
<1>3. CASE envelope = [made EXCEPT !.payload.base64 = "url_safe"]
  <2>1. envelope.payload = [base64 |-> "url_safe", bytes |-> bytes]
    BY <1>1, <1>3 DEF encode
  <2>2. decode(envelope.payload) = None
    BY <2>1 DEF decode
  <2> QED BY <2>2 DEF signature_verifies
<1>4. CASE envelope = [made EXCEPT !.signatures = << >>]
  BY <1>1, <1>4 DEF signature_verifies
<1>5. CASE envelope = [made EXCEPT !.signatures = @ \o @]
  <2>1. envelope.signatures = <<encode(signature)>> \o <<encode(signature)>>
    BY <1>1, <1>5
  <2>2. Len(envelope.signatures) = 2
    BY <2>1
  <2> QED BY <2>2 DEF signature_verifies
<1>6. CASE envelope = [made EXCEPT !.signatures[1].base64 = "not_base64"]
  <2>1. envelope.signatures = <<[base64 |-> "not_base64", bytes |-> signature]>>
    BY <1>1, <1>6 DEF encode
  <2>2. decode_base64_lenient(envelope.signatures[1]) = None
    BY <2>1 DEF decode_base64_lenient
  <2> QED BY <2>2 DEF signature_verifies
<1> QED BY <1>2, <1>3, <1>4, <1>5, <1>6 DEF Damaged, made

-----------------------------------------------------------------------------
(* The inductive invariant *)

OwnKeys == EmitterKeys \cup ClientKeys

\* The floor of a record in its JSON, as the checks of sign_record_dsse let it.
SoundGrades(doc) ==
    LET floor    == "run_attribution_backing_floor"
        observed == "run_attribution_backing_observed"
    IN /\ floor \in DOMAIN doc <=> observed \in DOMAIN doc
       /\ floor \in DOMAIN doc =>
              /\ doc[observed] # << >>
              /\ \A i \in DOMAIN doc[observed] :
                     grade_rank(doc[floor]) <= grade_rank(doc[observed][i])

\* A record of assemble_and_sign in its JSON.
OfGateway(doc) ==
    /\ {"actions", "run_id", "trace_id", "identity_source"} \subseteq DOMAIN doc
    /\ doc["actions"] # << >>
    /\ doc["run_id"] = <<"gw-", doc["trace_id"]>>
    /\ ~blank(doc["trace_id"])
    /\ "user_id" \notin DOMAIN doc
    /\ doc["identity_source"] = "self_asserted"

\* What the history says of an envelope: it is the one that was made for these
\* contents, which the signer's own checks let pass.
TrueMade(made) ==
    /\ made.key \in Keys
    /\ \E producer \in {"serde_json", "RFC 8785"} :
           /\ made.key \in OwnKeys => producer = "serde_json"
           /\ made.envelope =
                  envelope_of(statement_of(made.predicate, serialized(made.predicate, producer)),
                              made.key)
    /\ made.key \in OwnKeys => SoundGrades(made.predicate)
    /\ made.key \in EmitterKeys => OfGateway(made.predicate)

\* An envelope of another producer, of none of this profile's statements.
IsOdd(envelope) ==
    \E doc \in ForeignDocs, key \in ForeignKeys :
        \E statement \in OddStatements(statement_of(doc, rfc8785(doc))) :
            envelope = envelope_of(statement, key)

\* Where an envelope comes from: it is one of the history's, its signature
\* perhaps re-encoded, or one that binds nothing to anything.
Traced(envelope, history) ==
    \/ envelope = None
    \/ \E made \in history : envelope \in Recoded(made.envelope)
    \/ \A key \in Keys : ~signature_verifies(envelope, key)
    \/ IsOdd(envelope)

HeldRecord(record, history) ==
    /\ DOMAIN record = Fields
    /\ DOMAIN record.extra \cap (Required \cup Optional) \subseteq {"identity_source"}
    /\ "identity_source" \in DOMAIN record.extra => SelfAsserted(record.extra)
    /\ \A name \in Required : IsValue(record[name])
    /\ record.run_id \in RunIds
    /\ Traced(record.dsse_envelope, history)

HeldDoc(doc, history) ==
    /\ Required \subseteq DOMAIN doc
    /\ \A name \in Required : IsValue(doc[name])
    /\ doc["run_id"] \in RunIds
    /\ "dsse_envelope" \in DOMAIN doc => Traced(doc["dsse_envelope"], history)

SignedInv ==
    /\ rec # None => HeldRecord(rec, attested)
    /\ \A entry \in published : entry.by \subseteq Keys /\ HeldDoc(entry.text.json, attested)
    /\ \A made \in attested : TrueMade(made)

-----------------------------------------------------------------------------
(* What a verdict of "ok" leads back to *)

\* Of the envelope of an odd statement, nothing in circulation is accepted.
LEMMA OddRefused ==
  ASSUME NEW record, NEW key, DOMAIN record = Fields, record.run_id \in RunIds,
         "run_id" \notin DOMAIN record.extra, IsOdd(record.dsse_envelope)
  PROVE  ~Accepts(record, key)
<1> SUFFICES ASSUME Accepts(record, key)
             PROVE  FALSE
  OBVIOUS
<1>0. PICK doc \in ForeignDocs, signer \in ForeignKeys :
          \E statement \in OddStatements(statement_of(doc, rfc8785(doc))) :
              record.dsse_envelope = envelope_of(statement, signer)
  BY DEF IsOdd
<1>1. PICK statement \in OddStatements(statement_of(doc, rfc8785(doc))) :
          record.dsse_envelope = envelope_of(statement, signer)
  BY <1>0
<1>2. /\ names_record(statement, record)
      /\ "sha256" \in DOMAIN statement.subject[1].digest
      /\ statement.subject[1].digest["sha256"] =
             sha256_hex(canonical_json(predicate_of(record)))
  BY <1>1, AcceptsMeans, EnvelopeOpens
<1>3. subject_name(record.run_id) \notin {None, subject_name(<<"another">>)}
  BY RunIdsAssumption
<1>4. "run_id" \in DOMAIN predicate_of(record)
  BY PredicateField, RunIdsAssumption DEF IsValue, Required, SigningFields
<1> DEFINE plain == statement_of(doc, rfc8785(doc))
<1>5. PICK name, digest :
          plain = [type |-> IN_TOTO_STATEMENT_TYPE,
                   subject |-> <<[name |-> name, digest |-> digest]>>,
                   predicateType |-> AEP_PREDICATE_TYPE, predicate |-> doc]
  BY DEF statement_of, wrap_in_toto_statement
<1> HIDE DEF plain
<1>6. CASE statement = [plain EXCEPT !.type = "https://in-toto.io/Statement/v0.1"]
  BY <1>2, <1>5, <1>6 DEF names_record, IN_TOTO_STATEMENT_TYPE
<1>7. CASE statement =
          [plain EXCEPT !.predicateType = "https://wasmagent.dev/attestations/aep/v0.3"]
  BY <1>2, <1>5, <1>7 DEF names_record, AEP_PREDICATE_TYPE
<1>8. CASE statement = [plain EXCEPT !.subject = << >>]
  BY <1>2, <1>5, <1>8 DEF names_record
<1>9. CASE \/ statement = [plain EXCEPT !.subject[1].name = None]
           \/ statement = [plain EXCEPT !.subject[1].name = subject_name(<<"another">>)]
  <2>1. statement.subject[1].name \in {None, subject_name(<<"another">>)}
    BY <1>5, <1>9
  <2> QED BY <2>1, <1>2, <1>3 DEF names_record
<1>10. CASE statement = [plain EXCEPT !.subject[1].digest = None]
  <2>1. statement.subject[1].digest = None
    BY <1>5, <1>10
  <2> QED BY <2>1, <1>2 DEF names_record
<1>11. CASE statement = [plain EXCEPT !.subject[1].digest = << >>]
  <2>1. statement.subject[1].digest = << >>
    BY <1>5, <1>11
  <2> QED BY <2>1, <1>2
<1>12. CASE statement =
           [plain EXCEPT !.subject[1].digest = [sha256 |-> sha256_hex(canonical_json(<< >>))]]
  <2>1. statement.subject[1].digest = [sha256 |-> sha256_hex(canonical_json(<< >>))]
    BY <1>5, <1>12
  <2>2. sha256_hex(canonical_json(<< >>)) = sha256_hex(canonical_json(predicate_of(record)))
    BY <2>1, <1>2
  <2>3. predicate_of(record) = << >>
    BY <2>2, HashInjective
  <2> QED BY <2>3, <1>4
<1> QED
  BY <1>6, <1>7, <1>8, <1>9, <1>10, <1>11, <1>12 DEF OddStatements, plain

\* A record that is accepted was signed: its contents, under this key.
LEMMA AcceptedWasMade ==
  ASSUME NEW record, NEW key \in Keys, NEW history,
         \A made \in history : TrueMade(made),
         HeldRecord(record, history), Accepts(record, key)
  PROVE  \E made \in history : made.key = key /\ made.predicate = predicate_of(record)
<1> DEFINE envelope == record.dsse_envelope
<1>1. signature_verifies(envelope, key) /\ envelope # None
  BY AcceptsMeans
<1>2. ~IsOdd(envelope)
  BY OddRefused DEF HeldRecord, Required
<1>3. PICK made \in history : envelope \in Recoded(made.envelope)
  BY <1>1, <1>2 DEF HeldRecord, Traced
<1>4. PICK producer \in {"serde_json", "RFC 8785"} :
          made.envelope =
              envelope_of(statement_of(made.predicate, serialized(made.predicate, producer)),
                          made.key)
  BY DEF TrueMade
<1> DEFINE bytes == serialized(made.predicate, producer)
           statement == statement_of(made.predicate, bytes)
<1>5. made.key = key /\ decode(envelope.payload).jcs = statement
  <2>1. envelope \in Recoded(envelope_of(statement, made.key))
    BY <1>3, <1>4
  <2> HIDE DEF statement, envelope
  <2>2. /\ decode(envelope.payload) = canonical_json(statement)
        /\ canonical_json(statement).jcs = statement
        /\ signature_verifies(envelope, key) => key = made.key
    BY <2>1, RecodedOpens
  <2> QED BY <1>1, <2>2
<1>6. statement.subject[1].digest["sha256"] = sha256_hex(bytes)
  BY StatementDigest
<1>7. sha256_hex(bytes) = sha256_hex(canonical_json(predicate_of(record)))
  BY <1>5, <1>6, AcceptsMeans
<1>8. bytes.jcs = predicate_of(record) /\ bytes.jcs = made.predicate
  BY <1>7 DEF sha256_hex, canonical_json, serialized
<1> QED BY <1>5, <1>8

-----------------------------------------------------------------------------
(* The invariant is kept *)

\* What an envelope goes back to is never taken away.
LEMMA TracedGrows ==
  ASSUME NEW envelope, NEW history, NEW later, history \subseteq later,
         Traced(envelope, history)
  PROVE  Traced(envelope, later)
  BY DEF Traced

LEMMA HeldGrows ==
  ASSUME NEW history, NEW later, history \subseteq later
  PROVE  /\ \A record : HeldRecord(record, history) => HeldRecord(record, later)
         /\ \A doc : HeldDoc(doc, history) => HeldDoc(doc, later)
  BY TracedGrows DEF HeldRecord, HeldDoc

\* A record that is read back, and one that is written.
LEMMA ReadHeld ==
  ASSUME NEW doc, NEW history, HeldDoc(doc, history)
  PROVE  HeldRecord(from_value(doc), history)
<1> DEFINE record == from_value(doc)
<1>1. DOMAIN record = Fields
  BY ReadFields
<1>2. DOMAIN record.extra \cap (Required \cup Optional) = {}
  <2>1. record.extra = [other \in DOMAIN doc \ (Required \cup Optional) |-> parsed(doc[other])]
    BY ReadFields
  <2> HIDE DEF record
  <2> QED BY <2>1
<1>3. \A name \in Required : record[name] = doc[name]
  BY ReadFields DEF HeldDoc, IsValue
<1>4. Traced(record.dsse_envelope, history)
  <2>1. "dsse_envelope" \in Required \cup Optional
    BY DEF Optional
  <2>2. record["dsse_envelope"] =
            IF "dsse_envelope" \in DOMAIN doc /\ doc["dsse_envelope"] # JsonNull
            THEN doc["dsse_envelope"] ELSE None
    BY <2>1, ReadFields
  <2> QED BY <2>2 DEF HeldDoc, Traced
<1>5. record.run_id = doc["run_id"]
  BY <1>3 DEF Required
<1>6. "identity_source" \notin DOMAIN record.extra
  BY <1>2 DEF Optional
<1> HIDE DEF record
<1> QED BY <1>1, <1>2, <1>3, <1>4, <1>5, <1>6 DEF HeldRecord, HeldDoc, record

LEMMA HeldFields ==
  ASSUME NEW record, NEW history, HeldRecord(record, history)
  PROVE  /\ DOMAIN record = Fields
         /\ record.run_id # None
         /\ "run_id" \notin DOMAIN record.extra
         /\ SigningFields \cap DOMAIN record.extra = {}
<1>1. record["run_id"] # None
  BY DEF HeldRecord, IsValue, Required
<1>2. "run_id" \notin DOMAIN record.extra
  BY DEF HeldRecord, Required
<1>3. SigningFields \cap DOMAIN record.extra = {}
  BY DEF HeldRecord, Optional, SigningFields
<1> QED BY <1>1, <1>2, <1>3 DEF HeldRecord

LEMMA WrittenHeld ==
  ASSUME NEW record, NEW history, HeldRecord(record, history)
  PROVE  HeldDoc(to_value(record), history)
<1> DEFINE doc == to_value(record)
<1>1. Required \cap DOMAIN record.extra = {} /\ "dsse_envelope" \notin DOMAIN record.extra
  BY DEF HeldRecord, Required, Optional
<1>2. \A name \in Required : name \in DOMAIN doc /\ doc[name] = record[name]
  <2> TAKE name \in Required
  <2>1. record[name] # None /\ name \notin DOMAIN record.extra
    BY <1>1 DEF HeldRecord, IsValue
  <2> QED BY <2>1, WrittenFields
<1>3. "dsse_envelope" \in DOMAIN doc => doc["dsse_envelope"] = record.dsse_envelope
  BY <1>1, WrittenFields
<1>4. doc["run_id"] = record.run_id
  BY <1>2 DEF Required
<1> HIDE DEF doc
<1> QED BY <1>2, <1>3, <1>4 DEF HeldRecord, HeldDoc, doc

\* What passes the checks has sound grades in what is signed of it.
LEMMA CheckedIsSound ==
  ASSUME NEW record, NEW history, HeldRecord(record, history), floor_consistent(record)
  PROVE  SoundGrades(predicate_of(record))
<1> DEFINE floor    == "run_attribution_backing_floor"
           observed == "run_attribution_backing_observed"
           doc      == predicate_of(record)
<1>1. \A name \in {floor, observed} :
          /\ name \in DOMAIN doc <=> record[name] # None
          /\ record[name] # None => doc[name] = record[name]
  <2> TAKE name \in {floor, observed}
  <2>1. /\ name \in (Required \cup Optional) \ SigningFields
        /\ name # "identity_source"
    BY DEF Optional, SigningFields
  <2> QED BY <2>1, PredicateField DEF HeldRecord
<1>2. \/ record[floor] = None /\ record[observed] = None
      \/ /\ record[floor] # None /\ record[observed] # None /\ record[observed] # << >>
         /\ \A i \in DOMAIN record[observed] :
                grade_rank(record[floor]) <= grade_rank(record[observed][i])
  BY DEF floor_consistent
<1> HIDE DEF doc
<1> QED BY <1>1, <1>2 DEF SoundGrades, doc

\* One record signed.  The history gets an entry for it, and it is traced.
LEMMA SigningIsTraced ==
  ASSUME NEW record, NEW history, HeldRecord(record, history), floor_consistent(record),
         NEW key \in OwnKeys,
         key \in EmitterKeys => OfGateway(predicate_of(record))
  PROVE  LET result == sign_record_dsse(record, key)
             made   == [key |-> key, predicate |-> predicate_of(result),
                        envelope |-> result.dsse_envelope]
         IN TrueMade(made) /\ HeldRecord(result, history \cup {made})
<1> DEFINE result == sign_record_dsse(record, key)
           doc    == predicate_of(record)
           made   == [key |-> key, predicate |-> predicate_of(result),
                      envelope |-> result.dsse_envelope]
<1>1. /\ DOMAIN result = Fields
      /\ \A name \in Fields \ SigningFields : result[name] = record[name]
      /\ predicate_of(result) = doc
  BY SigningKeepsContents DEF HeldRecord
<1>2. result.dsse_envelope = envelope_of(statement_of(doc, serialized(doc, "serde_json")), key)
  BY SigningAttaches DEF HeldRecord, made_for, canonical_json
<1>3. SoundGrades(doc)
  BY CheckedIsSound
<1>4. TrueMade(made)
  <2>1. made.key = key /\ made.predicate = doc /\ made.envelope = result.dsse_envelope
    BY <1>1
  <2> HIDE DEF made, result, doc
  <2> QED BY <2>1, <1>2, <1>3 DEF TrueMade, OwnKeys, Keys, doc
<1>5. result.dsse_envelope \in Recoded(result.dsse_envelope)
  BY <1>2, RecodedSelf
<1>6. Traced(result.dsse_envelope, history \cup {made})
  <2>1. made \in history \cup {made} /\ made.envelope = result.dsse_envelope
    OBVIOUS
  <2> HIDE DEF made, result
  <2> QED BY <2>1, <1>5 DEF Traced
<1>7. /\ result.extra = record.extra
      /\ \A name \in Required : result[name] = record[name]
      /\ result.run_id = record.run_id
  BY <1>1 DEF Fields, SigningFields, Required
<1> HIDE DEF result, made, doc
<1>8. HeldRecord(result, history \cup {made})
  BY <1>1, <1>6, <1>7 DEF HeldRecord
<1> QED BY <1>4, <1>8 DEF result, made

\* What the gateway assembles passes the checks, and is as it promises.
LEMMA AssembledIsSound ==
  ASSUME NEW history, NEW actions \in Slices, NEW identity \in Identities,
         actions # << >>, ~blank(identity.trace_id)
  PROVE  LET record == assembled(actions, identity)
         IN /\ HeldRecord(record, history)
            /\ floor_consistent(record)
            /\ OfGateway(predicate_of(record))
<1> DEFINE record == assembled(actions, identity)
           run_id == <<"gw-", identity.trace_id>>
<1>1. /\ DOMAIN record = Fields
      /\ record.schema_version = AEP_SCHEMA_VERSION
      /\ record.run_id = run_id
      /\ record.actions = actions
      /\ record.trace_id = identity.trace_id
      /\ record.user_id = None
      /\ record.run_attribution_backing_floor = None
      /\ record.run_attribution_backing_observed = None
      /\ record.dsse_envelope = None
      /\ record.extra = [claimed_agent_id |-> identity.agent_id,
                         identity_source  |-> "self_asserted"]
  BY DEF assembled, bare, Fields, Required, Optional
<1>2. run_id \in RunIds
  BY DEF RunIds
<1>3. \A name \in Required : IsValue(record[name])
  BY <1>1, <1>2, GatewayAssumption, RunIdsAssumption DEF Required
<1>4. IsValue("self_asserted") /\ IsValue(identity.trace_id)
  BY GatewayAssumption
<1> HIDE DEF record
<1>5. /\ DOMAIN record.extra = {"claimed_agent_id", "identity_source"}
      /\ record.extra["identity_source"] = "self_asserted"
  BY <1>1
<1>6. HeldRecord(record, history)
  <2>1. "claimed_agent_id" \notin Required \cup Optional
    BY DEF Required, Optional
  <2>2. Traced(record.dsse_envelope, history)
    BY <1>1 DEF Traced
  <2> QED BY <1>1, <1>2, <1>3, <1>5, <2>1, <2>2 DEF HeldRecord, SelfAsserted
<1>7. floor_consistent(record)
  BY <1>1 DEF floor_consistent
<1>8. OfGateway(predicate_of(record))
  <2> DEFINE doc == predicate_of(record)
  <2>1. \A name \in {"actions", "run_id", "trace_id", "user_id"} :
            /\ name \in DOMAIN doc <=> record[name] # None
            /\ record[name] # None => doc[name] = record[name]
    <3> TAKE name \in {"actions", "run_id", "trace_id", "user_id"}
    <3>1. name \in (Required \cup Optional) \ SigningFields /\ name \notin DOMAIN record.extra
      BY <1>5 DEF Required, Optional, SigningFields
    <3> QED BY <1>1, <3>1, PredicateField
  <2>2. record.actions # None /\ record.run_id # None /\ record.trace_id # None
    BY <1>1, <1>3, <1>4 DEF IsValue, Required
  <2>3. "identity_source" \in DOMAIN doc /\ doc["identity_source"] = "self_asserted"
    BY <1>1, <1>5, PredicateExtra
  <2> HIDE DEF doc
  <2>4. doc["actions"] = actions /\ doc["run_id"] = run_id /\ doc["trace_id"] = identity.trace_id
    BY <1>1, <2>1, <2>2
  <2>5. {"actions", "run_id", "trace_id"} \subseteq DOMAIN doc /\ "user_id" \notin DOMAIN doc
    BY <1>1, <2>1, <2>2
  <2> QED BY <2>3, <2>4, <2>5 DEF OfGateway, doc
<1> QED BY <1>6, <1>7, <1>8 DEF record

LEMMA SignedInit == Init => SignedInv
  BY DEF Init, SignedInv

LEMMA SignedNext == SignedInv /\ [Next]_vars => SignedInv'
<1> SUFFICES ASSUME SignedInv, [Next]_vars
             PROVE  SignedInv'
  OBVIOUS
<1>1. ASSUME NEW actions \in Slices, NEW identity \in Identities, NEW key \in EmitterKeys,
             AssembleAndSign(actions, identity, key)
      PROVE  SignedInv'
  <2> DEFINE record == assembled(actions, identity)
             made   == [key |-> key, predicate |-> predicate_of(rec'),
                        envelope |-> rec'.dsse_envelope]
  <2>1. /\ rec' = sign_record_dsse(record, key)
        /\ attested' = attested \cup {made}
        /\ published' = published
    BY <1>1 DEF AssembleAndSign, attest
  <2>2. TrueMade(made) /\ HeldRecord(rec', attested \cup {made})
    <3>1. key \in OwnKeys
      BY DEF OwnKeys
    <3>2. /\ HeldRecord(record, attested) /\ floor_consistent(record)
          /\ OfGateway(predicate_of(record))
      BY <1>1, AssembledIsSound DEF AssembleAndSign
    <3> HIDE DEF record
    <3> QED BY <2>1, <3>1, <3>2, SigningIsTraced
  <2> HIDE DEF made
  <2> QED BY <2>1, <2>2, HeldGrows DEF SignedInv
<1>2. CASE Emit
  <2>1. /\ rec' = rec /\ attested' = attested /\ rec # None
        /\ \E by \in SUBSET Keys :
               published' = published \cup {[text |-> to_string(rec), by |-> by]}
    BY <1>2 DEF Emit
  <2>2. HeldDoc(to_string(rec).json, attested)
    BY <2>1, WrittenHeld DEF SignedInv, to_string
  <2> QED BY <2>1, <2>2 DEF SignedInv
<1>3. CASE BuildRecord
  <2>1. rec' \in ClientRecords /\ published' = published /\ attested' = attested
    BY <1>3 DEF BuildRecord
  <2>2. HeldRecord(rec', attested)
    <3>1. /\ DOMAIN rec' = Fields
          /\ DOMAIN (rec').extra \cap (Required \cup Optional) = {}
          /\ \A name \in Required : IsValue(rec'[name])
          /\ rec'.dsse_envelope = None
      BY <2>1, ClientRecordsAssumption DEF Fields
    <3>2. "identity_source" \in Optional /\ rec'.run_id \in RunIds
      BY <2>1 DEF Optional, RunIds
    <3> QED BY <3>1, <3>2 DEF HeldRecord, Traced
  <2> QED BY <2>1, <2>2 DEF SignedInv
<1>4. ASSUME NEW key \in ClientKeys, SignRecord(key)
      PROVE  SignedInv'
  <2> DEFINE made == [key |-> key, predicate |-> predicate_of(rec'),
                      envelope |-> rec'.dsse_envelope]
  <2>1. /\ rec # None /\ rec' = sign_record_dsse(rec, key) /\ published' = published
        /\ attested' = IF floor_consistent(rec) THEN attested \cup {made} ELSE attested
    BY <1>4 DEF SignRecord, attest
  <2>2. CASE floor_consistent(rec)
    <3>1. key \in OwnKeys /\ key \notin EmitterKeys
      BY KeysAssumption DEF OwnKeys
    <3>2. TrueMade(made) /\ HeldRecord(rec', attested \cup {made})
      BY <2>1, <2>2, <3>1, SigningIsTraced DEF SignedInv
    <3> HIDE DEF made
    <3> QED BY <2>1, <2>2, <3>2, HeldGrows DEF SignedInv
  <2>3. CASE ~floor_consistent(rec)
    <3>1. rec' = rec /\ attested' = attested
      BY <2>1, <2>3 DEF sign_record_dsse
    <3> QED BY <2>1, <3>1 DEF SignedInv
  <2> QED BY <2>2, <2>3
<1>5. CASE ReadBack
  <2>1. PICK entry \in published :
            rec' = IF refused(entry.text) THEN rec ELSE from_str(entry.text)
    BY <1>5 DEF ReadBack
  <2>2. CASE refused(entry.text)
    BY <1>5, <2>1, <2>2 DEF ReadBack, SignedInv
  <2>3. CASE ~refused(entry.text)
    <3>1. rec' = from_value(entry.text.json)
      BY <2>1, <2>3 DEF from_str
    <3>2. HeldRecord(rec', attested)
      BY <3>1, ReadHeld DEF SignedInv
    <3> QED BY <1>5, <3>2 DEF ReadBack, SignedInv
  <2> QED BY <2>2, <2>3
<1>6. CASE EditRecord
  <2>1. PICK edit \in Edits : rec' = [rec EXCEPT ![edit.field] = edit.value]
    BY <1>6 DEF EditRecord
  <2>2. rec # None /\ HeldRecord(rec, attested)
    BY <1>6 DEF EditRecord, SignedInv
  <2>3. /\ edit.field \in Fields \ {"dsse_envelope", "extra"}
        /\ edit.field \in Required => IsValue(edit.value)
    BY EditsAssumption DEF Fields, Required, Optional
  <2>4. /\ DOMAIN rec' = Fields
        /\ rec'.extra = rec.extra
        /\ rec'.dsse_envelope = rec.dsse_envelope
        /\ \A name \in Required : rec'[name] = IF name = edit.field THEN edit.value ELSE rec[name]
    BY <2>1, <2>2, <2>3 DEF HeldRecord, Fields, Optional
  <2>5. rec'.run_id \in RunIds
    <3>1. edit.field = "run_id" => edit.value \in RunIds
      BY DEF RunIds
    <3> QED BY <2>2, <2>4, <3>1 DEF HeldRecord, Required
  <2>6. HeldRecord(rec', attested)
    BY <2>2, <2>3, <2>4, <2>5 DEF HeldRecord
  <2> QED BY <1>6, <2>6 DEF EditRecord, SignedInv
<1>7. CASE ChangeEnvelope
  <2>1. PICK made \in attested :
            \E envelope \in Recoded(made.envelope) \cup Damaged(made.envelope) :
                rec' = [rec EXCEPT !.dsse_envelope = envelope]
    BY <1>7 DEF ChangeEnvelope
  <2>2. PICK envelope \in Recoded(made.envelope) \cup Damaged(made.envelope) :
            rec' = [rec EXCEPT !.dsse_envelope = envelope]
    BY <2>1
  <2>3. rec # None /\ HeldRecord(rec, attested)
    BY <1>7 DEF ChangeEnvelope, SignedInv
  <2>4. Traced(envelope, attested)
    <3>1. CASE envelope \in Recoded(made.envelope)
      BY <3>1 DEF Traced
    <3>2. CASE envelope \in Damaged(made.envelope)
      <4>1. PICK statement : made.envelope = envelope_of(statement, made.key)
        BY DEF SignedInv, TrueMade
      <4> QED BY <3>2, <4>1, DamagedFails DEF Traced
    <3> QED BY <3>1, <3>2
  <2>5. /\ DOMAIN rec' = Fields
        /\ rec'.dsse_envelope = envelope
        /\ \A name \in Fields \ {"dsse_envelope"} : rec'[name] = rec[name]
    BY <2>2, <2>3 DEF HeldRecord, Fields, Optional
  <2>6. /\ rec'.extra = rec.extra /\ rec'.run_id = rec.run_id
        /\ \A name \in Required : rec'[name] = rec[name]
    BY <2>5 DEF Fields, Required
  <2>7. HeldRecord(rec', attested)
    BY <2>3, <2>4, <2>5, <2>6 DEF HeldRecord
  <2> QED BY <1>7, <2>7 DEF ChangeEnvelope, SignedInv
<1>8. ASSUME NEW doc \in ForeignDocs, NEW key \in ForeignKeys,
             ForeignRecord(doc, key) \/ OddRecord(doc, key)
      PROVE  SignedInv'
  <2>1. ASSUME NEW envelope, NEW history, attested \subseteq history, Traced(envelope, history)
        PROVE  HeldDoc(enveloped(doc, envelope), history)
    <3>1. /\ DOMAIN enveloped(doc, envelope) = DOMAIN doc \cup {"dsse_envelope"}
          /\ enveloped(doc, envelope)["dsse_envelope"] = envelope
          /\ \A name \in Required : enveloped(doc, envelope)[name] = doc[name]
      BY ForeignDocsAssumption DEF enveloped, Required
    <3>2. doc["run_id"] \in RunIds
      BY DEF RunIds
    <3> QED
      BY <2>1, <3>1, <3>2, ForeignDocsAssumption DEF HeldDoc, Required
  <2>2. CASE ForeignRecord(doc, key)
    <3> DEFINE envelope == envelope_of(statement_of(doc, rfc8785(doc)), key)
               made == [key |-> key, predicate |-> doc, envelope |-> envelope]
    <3>1. /\ rec' = rec /\ attested' = attested \cup {made}
          /\ published' = published \cup
                 {[text |-> text_of(enveloped(doc, envelope)), by |-> {key}]}
      BY <2>2 DEF ForeignRecord
    <3>2. TrueMade(made)
      <4>1. key \in Keys /\ key \notin OwnKeys
        BY KeysAssumption DEF Keys, OwnKeys
      <4>2. made.envelope = envelope_of(statement_of(doc, serialized(doc, "RFC 8785")), key)
        BY DEF rfc8785
      <4> QED BY <4>1, <4>2 DEF TrueMade, OwnKeys
    <3>3. Traced(envelope, attested')
      <4>1. made \in attested' /\ made.envelope = envelope
        BY <3>1
      <4>2. envelope \in Recoded(envelope)
        BY RecodedSelf
      <4> HIDE DEF made, envelope
      <4> QED BY <4>1, <4>2 DEF Traced
    <3> HIDE DEF made, envelope
    <3>4. HeldDoc(text_of(enveloped(doc, envelope)).json, attested')
      BY <2>1, <3>1, <3>3 DEF text_of
    <3>5. key \in Keys
      BY DEF Keys
    <3> QED BY <3>1, <3>2, <3>4, <3>5, HeldGrows DEF SignedInv
  <2>3. CASE OddRecord(doc, key)
    <3>1. PICK statement \in OddStatements(statement_of(doc, rfc8785(doc))) :
              published' = published \cup
                  {[text |-> text_of(enveloped(doc, envelope_of(statement, key))), by |-> {}]}
      BY <2>3 DEF OddRecord
    <3>2. HeldDoc(text_of(enveloped(doc, envelope_of(statement, key))).json, attested)
      BY <2>1, <3>1 DEF Traced, IsOdd, text_of
    <3> QED BY <2>3, <3>1, <3>2 DEF OddRecord, SignedInv
  <2> QED BY <1>8, <2>2, <2>3
<1>9. CASE UNCHANGED vars
  BY <1>9 DEF vars, SignedInv
<1> QED BY <1>1, <1>2, <1>3, <1>4, <1>5, <1>6, <1>7, <1>8, <1>9 DEF Next

LEMMA SignedAlways == Spec => []SignedInv
  BY SignedInit, SignedNext, PTL DEF Spec

-----------------------------------------------------------------------------
(* The properties *)

\* TypeOK: records keep the fields of their struct, signed, edited, sent and
\* read; extra hides none of them but identity_source, which it does hide in
\* what assemble_and_sign made, always with the gateway's own value.
THEOREM SignedTypeCorrect == Spec => []TypeOK
<1>1. SignedInv => TypeOK
  BY DEF SignedInv, HeldRecord, TrueMade, TypeOK, Fields
<1> QED BY <1>1, SignedAlways, PTL

\* AcceptsOnlyTheSigned: verify_record_dsse says yes only to the contents the
\* key's owner signed, whatever was edited, re-encoded or put in their place.
THEOREM OnlyTheSignedIsAccepted == Spec => []AcceptsOnlyTheSigned
<1>1. SignedInv => AcceptsOnlyTheSigned
  BY AcceptedWasMade DEF SignedInv, AcceptsOnlyTheSigned
<1> QED BY <1>1, SignedAlways, PTL

LEMMA RankIsNumber == \A grade : grade_rank(grade) \in Int
  BY DEF grade_rank

\* NoMaskedGrades: what verifies under a key of this code went through the
\* checks of sign_record_dsse, and the digest holds it to what they let pass.
THEOREM GradesAreNeverMasked == Spec => []NoMaskedGrades
<1>1. SignedInv => NoMaskedGrades
  <2> SUFFICES ASSUME SignedInv, rec # None, NEW key \in OwnKeys, Accepts(rec, key)
               PROVE  LET floor    == rec.run_attribution_backing_floor
                          observed == rec.run_attribution_backing_observed
                      IN /\ (floor = None) <=> (observed = None)
                         /\ floor # None => observed # << >>
                         /\ floor # None => \A i \in DOMAIN observed :
                                ~(grade_rank(observed[i]) < grade_rank(floor))
    BY DEF NoMaskedGrades, OwnKeys
  <2> DEFINE floor    == "run_attribution_backing_floor"
             observed == "run_attribution_backing_observed"
             doc      == predicate_of(rec)
  <2>1. HeldRecord(rec, attested)
    BY DEF SignedInv
  <2>2. SoundGrades(doc)
    <3>1. key \in Keys
      BY DEF Keys, OwnKeys
    <3>2. PICK made \in attested : made.key = key /\ made.predicate = doc
      BY <2>1, <3>1, AcceptedWasMade DEF SignedInv
    <3> HIDE DEF doc
    <3> QED BY <3>2 DEF SignedInv, TrueMade
  <2>3. \A name \in {floor, observed} :
            /\ name \in DOMAIN doc <=> rec[name] # None
            /\ rec[name] # None => doc[name] = rec[name]
    <3> TAKE name \in {floor, observed}
    <3>1. /\ name \in (Required \cup Optional) \ SigningFields
          /\ name # "identity_source"
      BY DEF Optional, SigningFields
    <3> QED BY <2>1, <3>1, PredicateField DEF HeldRecord
  <2> HIDE DEF doc
  <2>4. /\ rec[floor] = None <=> rec[observed] = None
        /\ rec[floor] # None =>
               /\ rec[observed] # << >>
               /\ \A i \in DOMAIN rec[observed] :
                      grade_rank(rec[floor]) <= grade_rank(rec[observed][i])
    BY <2>2, <2>3 DEF SoundGrades
  <2> QED BY <2>4, RankIsNumber
<1> QED BY <1>1, SignedAlways, PTL

\* What verifies under a key that only assemble_and_sign uses is its work.
LEMMA AcceptedIsOfGateway ==
  ASSUME SignedInv, rec # None, NEW key \in EmitterKeys, Accepts(rec, key)
  PROVE  OfGateway(predicate_of(rec))
<1> DEFINE plain == predicate_of(rec)
<1>1. HeldRecord(rec, attested) /\ key \in Keys
  BY DEF SignedInv, Keys
<1>2. PICK made \in attested : made.key = key /\ made.predicate = plain
  BY <1>1, AcceptedWasMade DEF SignedInv
<1> HIDE DEF plain
<1>3. OfGateway(plain)
  BY <1>2 DEF SignedInv, TrueMade
<1> QED BY <1>3 DEF plain

\* GatewayPromises: what verifies under a key that only assemble_and_sign uses
\* is about some evidence, of the run of its trace, and claims no user.
THEOREM GatewayKeepsPromises == Spec => []GatewayPromises
<1>1. SignedInv => GatewayPromises
  <2> SUFFICES ASSUME SignedInv, rec # None, NEW key \in EmitterKeys, Accepts(rec, key)
               PROVE  LET doc == to_value(rec)
                      IN /\ doc["actions"] # << >>
                         /\ doc["run_id"] = <<"gw-", doc["trace_id"]>>
                         /\ ~blank(doc["trace_id"])
                         /\ "user_id" \notin DOMAIN doc
                         /\ doc["identity_source"] = "self_asserted"
    BY DEF GatewayPromises
  <2> DEFINE doc   == to_value(rec)
             plain == predicate_of(rec)
  <2>1. HeldRecord(rec, attested)
    BY DEF SignedInv
  <2>2. OfGateway(plain)
    BY AcceptedIsOfGateway
  <2>3. \A name : name \notin SigningFields =>
            /\ name \in DOMAIN doc <=> name \in DOMAIN plain
            /\ name \in DOMAIN doc => doc[name] = plain[name]
    BY <2>1, WrittenAsSigned DEF HeldRecord
  <2>4. {"actions", "run_id", "trace_id", "identity_source", "user_id"} \cap SigningFields = {}
    BY DEF SigningFields
  <2> HIDE DEF doc, plain
  <2>5. /\ doc["actions"] = plain["actions"] /\ doc["run_id"] = plain["run_id"]
        /\ doc["trace_id"] = plain["trace_id"]
        /\ doc["identity_source"] = plain["identity_source"]
        /\ "user_id" \notin DOMAIN doc
    BY <2>2, <2>3, <2>4 DEF OfGateway
  <2>6. /\ doc["actions"] # << >> /\ doc["run_id"] = <<"gw-", doc["trace_id"]>>
        /\ ~blank(doc["trace_id"]) /\ doc["identity_source"] = "self_asserted"
    BY <2>2, <2>5 DEF OfGateway
  <2> QED BY <2>5, <2>6 DEF doc
<1> QED BY <1>1, SignedAlways, PTL

-----------------------------------------------------------------------------
(* What is accepted *)

\* The Option without a value is none of the structs and bytes of the code,
\* which no finite enumeration of them could check.
NoneIsNoStruct ==
    /\ \A payload_type, payload, signatures :
           [payload_type |-> payload_type, payload |-> payload,
            signatures |-> signatures] # None
    /\ \A value, form : [jcs |-> value, numbers |-> form] # None
    /\ \A key, message : [by |-> key, over |-> message] # None
    /\ \A digest : [sha256 |-> digest] # None

\* An envelope made for what a record holds is accepted on it, by the signer's
\* key, its signature re-encoded or not.
LEMMA OwnIsAccepted ==
  ASSUME NoneIsNoStruct, NEW record, DOMAIN record = Fields, record.run_id # None,
         "run_id" \notin DOMAIN record.extra, NEW key,
         record.dsse_envelope \in
             Recoded(envelope_of(statement_of(predicate_of(record),
                                              canonical_json(predicate_of(record))), key))
  PROVE  Accepts(record, key)
<1> DEFINE doc       == predicate_of(record)
           digest    == sha256_hex(canonical_json(doc))
           statement == statement_of(doc, canonical_json(doc))
           bytes     == canonical_json(statement)
           envelope  == record.dsse_envelope
<1>1. doc["run_id"] = record.run_id
  BY PredicateField DEF Required, SigningFields
<1>2. /\ statement.type = IN_TOTO_STATEMENT_TYPE
      /\ statement.predicateType = AEP_PREDICATE_TYPE
      /\ statement.subject = <<[name   |-> subject_name(record.run_id),
                               digest |-> [sha256 |-> digest]]>>
  BY <1>1 DEF statement_of, wrap_in_toto_statement
<1> HIDE DEF doc
<1>3. /\ statement.subject # << >>
      /\ statement.subject[1].name = subject_name(record.run_id)
      /\ statement.subject[1].digest = [sha256 |-> digest]
  <2> HIDE DEF statement, digest
  <2> QED BY <1>2
<1> HIDE DEF statement, digest
<1>4. names_record(statement, record)
  BY <1>2, <1>3 DEF names_record, NoneIsNoStruct
<1>5. envelope \in Recoded(envelope_of(statement, key))
  BY DEF statement, doc
<1>6. /\ envelope.payload_type = IN_TOTO_PAYLOAD_TYPE
      /\ decode(envelope.payload) = bytes
      /\ bytes.jcs = statement
      /\ Len(envelope.signatures) = 1
      /\ decode_base64_lenient(envelope.signatures[1]) =
             ed25519(key, pae_encode(IN_TOTO_PAYLOAD_TYPE, bytes))
  BY <1>5, RecodedOpens
<1>7. bytes # None
  BY DEF canonical_json, serialized, NoneIsNoStruct
<1>8. ed25519(key, pae_encode(IN_TOTO_PAYLOAD_TYPE, bytes)) # None
  BY DEF ed25519, NoneIsNoStruct
<1>9. envelope # None
  <2>1. PICK form : envelope = [envelope_of(statement, key) EXCEPT !.signatures[1].base64 = form]
    BY <1>5 DEF Recoded
  <2>2. \E payload_type, payload, signatures :
            envelope = [payload_type |-> payload_type, payload |-> payload,
                        signatures |-> signatures]
    BY <2>1 DEF envelope_of
  <2> HIDE DEF envelope
  <2> QED BY <2>2 DEF NoneIsNoStruct
<1> HIDE DEF envelope, bytes
<1>10. signature_verifies(envelope, key)
  BY <1>6, <1>7, <1>8 DEF signature_verifies
<1>11. /\ "sha256" \in DOMAIN statement.subject[1].digest
       /\ statement.subject[1].digest["sha256"] = digest
  BY <1>3
<1>12. verify_record_dsse(record, key) = "ok"
  BY <1>4, <1>6, <1>9, <1>10, <1>11 DEF verify_record_dsse, envelope, digest, doc
<1> QED BY <1>12 DEF Accepts

\* Without a number that they write differently, producers write the same.
LEMMA SameBytes ==
  ASSUME NEW doc, NEW producer, \A name \in DOMAIN doc : doc[name] # WholeFloat
  PROVE  serialized(doc, producer) = canonical_json(doc)
  BY DEF serialized, canonical_json

\* AcceptsAllTheSigned: contents that were signed verify under the envelope
\* made for them, in whichever base64 its signature has come to be.
THEOREM AllTheSignedIsAccepted ==
  ASSUME NoneIsNoStruct
  PROVE  Spec => []AcceptsAllTheSigned
<1>1. SignedInv => AcceptsAllTheSigned
  <2> SUFFICES ASSUME SignedInv, rec # None, NEW made \in attested,
                      rec.dsse_envelope \in Recoded(made.envelope),
                      predicate_of(rec) = made.predicate,
                      SameText(made.predicate, made.key)
               PROVE  Accepts(rec, made.key)
    BY DEF AcceptsAllTheSigned
  <2> DEFINE doc == predicate_of(rec)
  <2>1. HeldRecord(rec, attested) /\ TrueMade(made)
    BY DEF SignedInv
  <2>2. PICK producer \in {"serde_json", "RFC 8785"} :
            /\ made.key \in OwnKeys => producer = "serde_json"
            /\ made.envelope = envelope_of(statement_of(doc, serialized(doc, producer)), made.key)
    BY <2>1 DEF TrueMade
  <2>3. serialized(doc, producer) = canonical_json(doc)
    <3>1. CASE made.key \in OwnKeys
      BY <2>2, <3>1 DEF canonical_json
    <3>2. CASE made.key \notin OwnKeys
      <4>1. made.key \in ForeignKeys
        BY <2>1, <3>2 DEF TrueMade, Keys, OwnKeys
      <4>2. \A name \in DOMAIN doc : doc[name] # WholeFloat
        BY <4>1 DEF SameText
      <4> QED BY <4>2, SameBytes
    <3> QED BY <3>1, <3>2
  <2>4. DOMAIN rec = Fields /\ rec.run_id # None /\ "run_id" \notin DOMAIN rec.extra
    BY <2>1, HeldFields
  <2>5. rec.dsse_envelope \in
            Recoded(envelope_of(statement_of(doc, canonical_json(doc)), made.key))
    BY <2>2, <2>3
  <2> QED BY <2>4, <2>5, OwnIsAccepted
<1> QED BY <1>1, SignedAlways, PTL

\* SigningNeverUnsigns: sign_record_dsse leaves a record that verifies with an
\* envelope that does: its new one, or, when it refuses, the one it had.
THEOREM SigningKeepsVerifying ==
  ASSUME NoneIsNoStruct
  PROVE  Spec => SigningNeverUnsigns
<1>1. ASSUME SignedInv, NEW key \in ClientKeys, SignRecord(key),
             NEW other \in Keys, Accepts(rec, other)
      PROVE  \E verifier \in Keys : Accepts(rec', verifier)
  <2>1. rec' = sign_record_dsse(rec, key) /\ HeldRecord(rec, attested)
    BY <1>1 DEF SignRecord, SignedInv
  <2>2. CASE floor_consistent(rec)
    <3> DEFINE doc == predicate_of(rec)
    <3>1. /\ DOMAIN rec' = Fields
          /\ \A name \in Fields \ SigningFields : rec'[name] = rec[name]
          /\ predicate_of(rec') = doc
      BY <2>1, SigningKeepsContents DEF HeldRecord
    <3>2. rec'.dsse_envelope = envelope_of(statement_of(doc, canonical_json(doc)), key)
      BY <2>1, <2>2, SigningAttaches DEF HeldRecord, made_for
    <3>3. rec'.dsse_envelope \in
              Recoded(envelope_of(statement_of(doc, canonical_json(doc)), key))
      BY <3>2, RecodedSelf
    <3>4. rec'.run_id # None /\ "run_id" \notin DOMAIN (rec').extra
      BY <2>1, <3>1 DEF HeldRecord, Fields, SigningFields, Required, IsValue
    <3> HIDE DEF doc
    <3>5. Accepts(rec', key)
      BY <3>1, <3>3, <3>4, OwnIsAccepted DEF doc
    <3> QED BY <3>5 DEF Keys
  <2>3. CASE ~floor_consistent(rec)
    BY <1>1, <2>1, <2>3 DEF sign_record_dsse
  <2> QED BY <2>2, <2>3
<1>2. SignedInv /\ [Next]_vars =>
          [\A key \in ClientKeys :
               SignRecord(key) /\ (\E other \in Keys : Accepts(rec, other))
                   => \E other \in Keys : Accepts(rec', other)]_vars
  BY <1>1
<1> QED BY <1>2, SignedAlways, PTL DEF Spec, SigningNeverUnsigns

-----------------------------------------------------------------------------
(* The wire *)

\* What is signed of a record is the rest of its JSON.
LEMMA SignedIsTheRest ==
  ASSUME NEW record, DOMAIN record = Fields, SigningFields \cap DOMAIN record.extra = {}
  PROVE  LET doc == to_value(record)
         IN predicate_of(record) = [name \in DOMAIN doc \ SigningFields |-> doc[name]]
<1> DEFINE doc   == to_value(record)
           plain == predicate_of(record)
<1>1. /\ stripped(record).extra = record.extra
      /\ stripped(record).signature = None
      /\ stripped(record).dsse_envelope = None
  BY DEF stripped, Fields, Required, Optional
<1>2. DOMAIN plain \cap SigningFields = {}
  <2>1. DOMAIN plain = {name \in Required \cup Optional : stripped(record)[name] # None}
                           \cup DOMAIN record.extra
    BY <1>1, WrittenFields DEF predicate_of
  <2> HIDE DEF plain
  <2> QED BY <1>1, <2>1 DEF SigningFields
<1>3. \A name : name \notin SigningFields =>
          /\ name \in DOMAIN doc <=> name \in DOMAIN plain
          /\ name \in DOMAIN doc => doc[name] = plain[name]
  BY WrittenAsSigned
<1>4. plain = [name \in DOMAIN plain |-> plain[name]]
  BY WrittenFields DEF predicate_of
<1> HIDE DEF plain, doc
<1>5. DOMAIN plain = DOMAIN doc \ SigningFields
  BY <1>2, <1>3
<1>6. plain = [name \in DOMAIN doc \ SigningFields |-> doc[name]]
  BY <1>3, <1>4, <1>5
<1> QED BY <1>6 DEF plain, doc

\* The verdict is about the contents, the run and the envelope.
LEMMA SameVerdict ==
  ASSUME NEW a, NEW b, NEW key, predicate_of(a) = predicate_of(b),
         a.run_id = b.run_id, a.dsse_envelope = b.dsse_envelope
  PROVE  Accepts(a, key) <=> Accepts(b, key)
  BY DEF Accepts, verify_record_dsse, names_record

Survives(doc, key) ==
    /\ Accepts(from_value(doc), key)
    /\ to_value(from_value(doc)) = doc

\* A record in hand that verifies, sent and read.
LEMMA EmittedSurvives ==
  ASSUME NEW record, NEW history, HeldRecord(record, history), NEW key,
         Accepts(record, key), Portable(to_value(record))
  PROVE  Survives(to_value(record), key)
<1> DEFINE doc  == to_value(record)
           back == from_value(doc)
<1>1. /\ doc = [name \in DOMAIN doc |-> doc[name]]
      /\ DOMAIN doc = {name \in Required \cup Optional : record[name] # None}
                          \cup DOMAIN record.extra
      /\ \A name \in DOMAIN doc :
             doc[name] = IF name \in DOMAIN record.extra THEN record.extra[name]
                                                         ELSE record[name]
  BY WrittenFields
<1>2. HeldDoc(doc, history)
  BY WrittenHeld
<1> HIDE DEF doc
<1>3. \A name \in DOMAIN doc \cap Optional : doc[name] # None
  <2> TAKE name \in DOMAIN doc \cap Optional
  <2>1. CASE name \in DOMAIN record.extra
    BY <1>1, <2>1, GatewayAssumption DEF HeldRecord, SelfAsserted, IsValue
  <2>2. CASE name \notin DOMAIN record.extra
    BY <1>1, <2>2
  <2> QED BY <2>1, <2>2
<1>4. to_value(back) = doc
  BY <1>1, <1>2, <1>3, RoundTrip DEF HeldDoc, doc
<1>5. HeldRecord(back, history)
  BY <1>2, ReadHeld
<1>6. ASSUME NEW held, HeldRecord(held, history)
      PROVE  predicate_of(held) =
                 [name \in DOMAIN to_value(held) \ SigningFields |-> to_value(held)[name]]
  <2>1. DOMAIN held = Fields /\ SigningFields \cap DOMAIN held.extra = {}
    BY <1>6, HeldFields
  <2> QED BY <2>1, SignedIsTheRest
<1>7. predicate_of(back) = predicate_of(record)
  <2>1. predicate_of(record) = [name \in DOMAIN doc \ SigningFields |-> doc[name]]
    BY <1>6 DEF doc
  <2> HIDE DEF back
  <2>2. predicate_of(back) = [name \in DOMAIN doc \ SigningFields |-> doc[name]]
    BY <1>4, <1>5, <1>6
  <2> QED BY <2>1, <2>2
<1>8. \A name \in {"run_id", "dsse_envelope"} : name \in DOMAIN doc => back[name] = doc[name]
  <2> TAKE name \in {"run_id", "dsse_envelope"}
  <2>1. name \in Required \cup Optional
    BY DEF Required, Optional
  <2>2. name \in DOMAIN doc => doc[name] # JsonNull
    BY <1>2 DEF HeldDoc, Portable, IsValue, Required, Optional, doc
  <2> QED BY <2>1, <2>2, ReadFields
<1>9. record.dsse_envelope # None /\ record.run_id # None
  BY AcceptsMeans DEF HeldRecord, IsValue, Required
<1>10. \A name \in {"run_id", "dsse_envelope"} :
           record[name] # None => name \in DOMAIN doc /\ doc[name] = record[name]
  <2> TAKE name \in {"run_id", "dsse_envelope"}
  <2>1. name \in Required \cup Optional /\ name \notin DOMAIN record.extra
    BY DEF HeldRecord, Required, Optional
  <2> QED BY <1>1, <2>1
<1> HIDE DEF back
<1>11. back.run_id = record.run_id /\ back.dsse_envelope = record.dsse_envelope
  BY <1>8, <1>9, <1>10
<1>12. Accepts(back, key)
  BY <1>7, <1>11, SameVerdict
<1> QED BY <1>4, <1>12 DEF Survives, back, doc

\* The record of another producer, read by this code.
LEMMA ForeignSurvives ==
  ASSUME NoneIsNoStruct, NEW doc \in ForeignDocs, NEW key \in ForeignKeys,
         NEW made, made = envelope_of(statement_of(doc, rfc8785(doc)), key),
         Portable(enveloped(doc, made)), SameText(enveloped(doc, made), key)
  PROVE  Survives(enveloped(doc, made), key)
<1> DEFINE sent == enveloped(doc, made)
           back == from_value(sent)
<1>1. /\ DOMAIN sent = DOMAIN doc \cup {"dsse_envelope"}
      /\ sent["dsse_envelope"] = made
      /\ \A name \in DOMAIN sent \ {"dsse_envelope"} : sent[name] = doc[name]
      /\ sent = [name \in DOMAIN sent |-> sent[name]]
  BY DEF enveloped
<1>2. /\ doc = [name \in DOMAIN doc |-> doc[name]]
      /\ Required \subseteq DOMAIN doc
      /\ \A name \in Required : IsValue(doc[name])
      /\ \A name \in DOMAIN doc : doc[name] # None
      /\ SigningFields \cap DOMAIN doc = {}
  BY ForeignDocsAssumption DEF SigningFields
<1>3. "dsse_envelope" \in Optional /\ "dsse_envelope" \notin Required
  BY DEF Required, Optional
<1>4. made # None
  BY DEF envelope_of, NoneIsNoStruct
<1> HIDE DEF sent
<1>5. to_value(back) = sent
  <2>1. \A name \in Required : IsValue(sent[name])
    BY <1>1, <1>2, <1>3
  <2>2. \A name \in DOMAIN sent \cap Optional : sent[name] # None
    BY <1>1, <1>2, <1>4
  <2> QED BY <1>1, <1>2, <2>1, <2>2, RoundTrip DEF sent
<1>6. DOMAIN back = Fields /\ SigningFields \cap DOMAIN back.extra = {}
  <2>1. back.extra = [other \in DOMAIN sent \ (Required \cup Optional) |-> parsed(sent[other])]
    BY ReadFields
  <2> HIDE DEF back
  <2>2. SigningFields \cap DOMAIN back.extra = {}
    BY <2>1 DEF SigningFields, Optional
  <2>3. DOMAIN back = Fields
    BY ReadFields DEF back
  <2> QED BY <2>2, <2>3
<1>7. predicate_of(back) = doc
  <2> HIDE DEF back
  <2>1. predicate_of(back) = [name \in DOMAIN sent \ SigningFields |-> sent[name]]
    BY <1>5, <1>6, SignedIsTheRest
  <2>2. DOMAIN sent \ SigningFields = DOMAIN doc
    BY <1>1, <1>2 DEF SigningFields
  <2>3. \A name \in DOMAIN doc : sent[name] = doc[name]
    BY <1>1, <2>2 DEF SigningFields
  <2> QED BY <1>2, <2>1, <2>2, <2>3
<1>8. back.run_id # None /\ "run_id" \notin DOMAIN back.extra
  <2>1. "run_id" \in Required
    BY DEF Required
  <2>2. IsValue(sent["run_id"]) /\ "run_id" \in DOMAIN sent
    BY <1>1, <1>2, <1>3, <2>1
  <2>3. back["run_id"] = sent["run_id"]
    BY <2>1, <2>2, ReadFields DEF IsValue
  <2>4. back.extra = [other \in DOMAIN sent \ (Required \cup Optional) |-> parsed(sent[other])]
    BY ReadFields
  <2> HIDE DEF back
  <2> QED BY <2>1, <2>2, <2>3, <2>4 DEF IsValue
<1>9. back.dsse_envelope = made
  <2>1. sent["dsse_envelope"] # JsonNull
    BY <1>1, <1>3 DEF Portable, sent
  <2>2. back["dsse_envelope"] = sent["dsse_envelope"]
    BY <1>1, <1>3, <2>1, ReadFields
  <2> QED BY <1>1, <2>2
<1>10. rfc8785(doc) = canonical_json(doc)
  <2>1. \A name \in DOMAIN doc : doc[name] # WholeFloat
    BY <1>1, <1>2 DEF SameText, SigningFields, sent
  <2> QED BY <2>1, SameBytes DEF rfc8785
<1>11. made \in Recoded(envelope_of(statement_of(doc, canonical_json(doc)), key))
  BY <1>10, RecodedSelf
<1> HIDE DEF back
<1>12. Accepts(back, key)
  BY <1>6, <1>7, <1>8, <1>9, <1>11, OwnIsAccepted
<1> QED BY <1>5, <1>12 DEF Survives, back, sent

\* What was read holds no field twice.
LEMMA ReadOnce ==
  ASSUME NEW doc
  PROVE  doubled(from_value(doc)) = {}
<1> DEFINE record == from_value(doc)
<1>1. record.extra = [other \in DOMAIN doc \ (Required \cup Optional) |-> parsed(doc[other])]
  BY ReadFields
<1> HIDE DEF record
<1>2. DOMAIN record.extra = DOMAIN doc \ (Required \cup Optional)
  BY <1>1
<1> QED BY <1>2 DEF doubled, record

\* The text of a record that holds no field twice.
LEMMA WrittenOnce ==
  ASSUME NEW record, doubled(record) = {}
  PROVE  to_string(record) = text_of(to_value(record))
BY DEF to_string, text_of

\* What can be read of a text, and its text, is as the JSON value says.
LEMMA TextSurvives ==
  ASSUME NEW doc, NEW key, Survives(doc, key)
  PROVE  LET text == text_of(doc)
         IN /\ ~refused(text)
            /\ Accepts(from_str(text), key)
            /\ to_string(from_str(text)) = text
<1>1. ~refused(text_of(doc)) /\ text_of(doc).json = doc
  BY DEF refused, text_of
<1>2. from_str(text_of(doc)) = from_value(doc)
  BY <1>1 DEF from_str
<1>3. to_string(from_value(doc)) = text_of(to_value(from_value(doc)))
  BY ReadOnce, WrittenOnce
<1> QED BY <1>1, <1>2, <1>3 DEF Survives

\* What a sink gets is the text of the record in hand, or that of another
\* producer's record.
LEMMA PublishedText ==
  ASSUME [Next]_vars, NEW entry \in published', entry \notin published
  PROVE  \/ /\ rec # None /\ entry.text = to_string(rec)
            /\ \A key \in entry.by : key \in Keys /\ Accepts(rec, key)
         \/ \E doc \in ForeignDocs, key \in ForeignKeys :
                /\ entry.text = text_of(enveloped(doc, envelope_of(statement_of(doc, rfc8785(doc)), key)))
                /\ entry.by = {key}
         \/ entry.by = {}
<1>1. CASE Emit
  BY <1>1 DEF Emit
<1>2. ASSUME NEW doc \in ForeignDocs, NEW key \in ForeignKeys, ForeignRecord(doc, key)
      PROVE  \E d \in ForeignDocs, k \in ForeignKeys :
                 /\ entry.text = text_of(enveloped(d, envelope_of(statement_of(d, rfc8785(d)), k)))
                 /\ entry.by = {k}
  <2>1. entry = [text |-> text_of(enveloped(doc, envelope_of(statement_of(doc, rfc8785(doc)), key))),
                 by   |-> {key}]
    BY <1>2 DEF ForeignRecord
  <2> QED BY <2>1
<1>3. ASSUME NEW doc \in ForeignDocs, NEW key \in ForeignKeys, OddRecord(doc, key)
      PROVE  entry.by = {}
  BY <1>3 DEF OddRecord
<1>4. \/ Emit
      \/ \E doc \in ForeignDocs, key \in ForeignKeys :
             ForeignRecord(doc, key) \/ OddRecord(doc, key)
  BY DEF Next, vars, AssembleAndSign, BuildRecord, SignRecord, ReadBack, EditRecord,
         ChangeEnvelope
<1> QED BY <1>1, <1>2, <1>3, <1>4

\* SurvivesTheWire: what a sink got and verified, from this code or another,
\* verifies once from_str can read it, and is sent on as the text it came as.
THEOREM TheWireIsSafe ==
  ASSUME NoneIsNoStruct
  PROVE  Spec => []SurvivesTheWire
<1> DEFINE Safe(entry) ==
        \A key \in entry.by :
            /\ Portable(entry.text.json) /\ SameText(entry.text.json, key)
            /\ from_str(entry.text) # None
            => /\ Accepts(from_str(entry.text), key)
               /\ to_string(from_str(entry.text)) = entry.text
<1>1. SurvivesTheWire <=> \A entry \in published : Safe(entry)
  BY DEF SurvivesTheWire
<1>2. Init => SurvivesTheWire
  BY DEF Init, SurvivesTheWire
<1>3. SignedInv /\ SurvivesTheWire /\ [Next]_vars => SurvivesTheWire'
  <2> SUFFICES ASSUME SignedInv, SurvivesTheWire, [Next]_vars,
                      NEW entry \in published', entry \notin published
               PROVE  Safe(entry)
    BY <1>1 DEF SurvivesTheWire
  <2> SUFFICES ASSUME NEW key \in entry.by,
                      Portable(entry.text.json), SameText(entry.text.json, key),
                      from_str(entry.text) # None
               PROVE  /\ Accepts(from_str(entry.text), key)
                      /\ to_string(from_str(entry.text)) = entry.text
    OBVIOUS
  <2>1. CASE rec # None /\ entry.text = to_string(rec) /\ Accepts(rec, key)
    <3>1. HeldRecord(rec, attested)
      BY <2>1 DEF SignedInv
    <3>2. entry.text = text_of(to_value(rec))
      <4>1. ~refused(entry.text)
        BY DEF from_str
      <4>2. doubled(rec) = {}
        BY <2>1, <4>1 DEF refused, to_string
      <4> QED BY <2>1, <4>2, WrittenOnce
    <3>3. Portable(to_value(rec))
      BY <3>2 DEF text_of
    <3>4. Survives(to_value(rec), key)
      BY <2>1, <3>1, <3>3, EmittedSurvives
    <3> QED BY <3>2, <3>4, TextSurvives
  <2>2. ASSUME NEW doc \in ForeignDocs, key \in ForeignKeys,
               entry.text = text_of(enveloped(doc, envelope_of(statement_of(doc, rfc8785(doc)), key)))
        PROVE  /\ Accepts(from_str(entry.text), key)
               /\ to_string(from_str(entry.text)) = entry.text
    <3> DEFINE sent == enveloped(doc, envelope_of(statement_of(doc, rfc8785(doc)), key))
    <3>1. Portable(sent) /\ SameText(sent, key)
      BY <2>2 DEF text_of
    <3>2. Survives(sent, key)
      BY <2>2, <3>1, ForeignSurvives
    <3> HIDE DEF sent
    <3>3. entry.text = text_of(sent)
      BY <2>2 DEF sent
    <3> QED BY <3>2, <3>3, TextSurvives
  <2> QED BY <2>1, <2>2, PublishedText
<1> QED BY <1>2, <1>3, SignedAlways, PTL DEF Spec

\* SetIdentityNeverArrives: of what verified, a text is refused only where the
\* gateway's extra hides an identity_source that was set, and whoever reads
\* what the gateway signed finds self_asserted.
THEOREM SetIdentityIsNeverRead == Spec => []SetIdentityNeverArrives
<1> DEFINE Honest(entry) ==
        \A key \in entry.by :
            /\ refused(entry.text) => /\ DOMAIN entry.text.twice = {"identity_source"}
                                      /\ SelfAsserted(entry.text.json)
            /\ key \in EmitterKeys /\ from_str(entry.text) # None =>
                   from_str(entry.text).identity_source = "self_asserted"
<1>1. SetIdentityNeverArrives <=> \A entry \in published : Honest(entry)
  BY DEF SetIdentityNeverArrives
<1>2. Init => SetIdentityNeverArrives
  BY DEF Init, SetIdentityNeverArrives
<1>3. SignedInv /\ SetIdentityNeverArrives /\ [Next]_vars => SetIdentityNeverArrives'
  <2> SUFFICES ASSUME SignedInv, SetIdentityNeverArrives, [Next]_vars,
                      NEW entry \in published', entry \notin published
               PROVE  Honest(entry)
    BY <1>1 DEF SetIdentityNeverArrives
  <2>1. ASSUME rec # None, entry.text = to_string(rec), NEW key \in entry.by, Accepts(rec, key)
        PROVE  /\ refused(entry.text) => /\ DOMAIN entry.text.twice = {"identity_source"}
                                         /\ SelfAsserted(entry.text.json)
               /\ key \in EmitterKeys /\ from_str(entry.text) # None =>
                      from_str(entry.text).identity_source = "self_asserted"
    <3>0. HeldRecord(rec, attested)
      BY <2>1 DEF SignedInv
    <3>1. /\ entry.text.json = to_value(rec)
          /\ DOMAIN entry.text.twice = doubled(rec)
      BY <2>1 DEF to_string
    <3>2. ASSUME refused(entry.text)
          PROVE  DOMAIN entry.text.twice = {"identity_source"} /\ SelfAsserted(entry.text.json)
      <4>1. doubled(rec) = {"identity_source"} /\ "identity_source" \in DOMAIN rec.extra
        BY <3>0, <3>1, <3>2 DEF refused, doubled, HeldRecord
      <4>2. SelfAsserted(to_value(rec))
        BY <3>0, <4>1, WrittenFields DEF HeldRecord, SelfAsserted
      <4> QED BY <3>1, <4>1, <4>2
    <3>3. ASSUME key \in EmitterKeys, from_str(entry.text) # None
          PROVE  from_str(entry.text).identity_source = "self_asserted"
      <4>1. from_str(entry.text) = from_value(to_value(rec))
        BY <3>1, <3>3 DEF from_str
      <4>2. OfGateway(predicate_of(rec))
        BY <2>1, <3>3, AcceptedIsOfGateway
      <4>3. /\ "identity_source" \in DOMAIN to_value(rec)
            /\ to_value(rec)["identity_source"] = "self_asserted"
        BY <3>0, <4>2, WrittenAsSigned DEF OfGateway, HeldRecord, SigningFields
      <4>4. "identity_source" \in Required \cup Optional
        BY DEF Optional
      <4>5. from_value(to_value(rec))["identity_source"] = "self_asserted"
        BY <4>3, <4>4, ReadFields, GatewayAssumption DEF IsValue
      <4> QED BY <4>1, <4>5
    <3> QED BY <3>2, <3>3
  <2>2. ASSUME NEW doc, entry.text = text_of(doc), NEW key \in ForeignKeys, entry.by = {key}
        PROVE  Honest(entry)
    BY <2>2, KeysAssumption DEF refused, text_of
  <2>3. CASE entry.by = {}
    BY <2>3
  <2> QED BY <2>1, <2>2, <2>3, PublishedText
<1> QED BY <1>2, <1>3, SignedAlways, PTL DEF Spec
=============================================================================
