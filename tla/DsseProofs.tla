----------------------------- MODULE DsseProofs ------------------------------
(***************************************************************************)
(* Lemmas about signing and verifying records, for every record and key:   *)
(* what a signature covers, and what a verdict of "ok" means.              *)
(***************************************************************************)
EXTENDS Dsse, TLAPS

Fields == Required \cup Optional \cup {"extra"}

SigningFields == {"signature", "dsse_envelope"}

\* The signing fields are no part of what is signed.
LEMMA PredicateOfContents ==
  ASSUME NEW a, NEW b, DOMAIN a = Fields, DOMAIN b = Fields,
         \A name \in Fields \ SigningFields : a[name] = b[name]
  PROVE  predicate_of(a) = predicate_of(b)
<1>1. stripped(a).extra = stripped(b).extra
  BY DEF stripped, Fields, SigningFields
<1>2. \A name \in Required \cup Optional : stripped(a)[name] = stripped(b)[name]
  BY DEF stripped, Fields, SigningFields
<1> QED BY <1>1, <1>2 DEF predicate_of, to_value

\* A field whose name extra does not take is signed as it is, or left out.
LEMMA PredicateField ==
  ASSUME NEW record, DOMAIN record = Fields,
         NEW name \in (Required \cup Optional) \ SigningFields,
         name \notin DOMAIN record.extra
  PROVE  /\ name \in DOMAIN predicate_of(record) <=> record[name] # None
         /\ record[name] # None => predicate_of(record)[name] = record[name]
<1>1. stripped(record)[name] = record[name] /\ stripped(record).extra = record.extra
  BY DEF stripped, Fields, SigningFields, Required, Optional
<1> QED BY <1>1 DEF predicate_of, to_value

\* A field of extra is signed whatever its value, a null included.
LEMMA PredicateExtra ==
  ASSUME NEW record, DOMAIN record = Fields, NEW name \in DOMAIN record.extra
  PROVE  /\ name \in DOMAIN predicate_of(record)
         /\ predicate_of(record)[name] = record.extra[name]
<1>1. stripped(record).extra = record.extra
  BY DEF stripped, Fields, Required, Optional
<1> QED BY <1>1 DEF predicate_of, to_value

\* Signing changes the signing fields and no other.
LEMMA SigningKeepsContents ==
  ASSUME NEW record, NEW key, DOMAIN record = Fields
  PROVE  /\ DOMAIN sign_record_dsse(record, key) = Fields
         /\ \A name \in Fields \ SigningFields :
                sign_record_dsse(record, key)[name] = record[name]
         /\ predicate_of(sign_record_dsse(record, key)) = predicate_of(record)
<1>1. /\ DOMAIN sign_record_dsse(record, key) = Fields
      /\ \A name \in Fields \ SigningFields :
             sign_record_dsse(record, key)[name] = record[name]
  <2>1. DOMAIN signed(record, key) = Fields
    BY DEF signed, stripped
  <2>2. \A name \in Fields \ SigningFields : signed(record, key)[name] = record[name]
    BY DEF signed, stripped, SigningFields
  <2> QED BY <2>1, <2>2 DEF sign_record_dsse
<1> QED BY <1>1, PredicateOfContents

\* The envelope of a record that was signed.
made_for(record, key) ==
    LET doc == predicate_of(record)
    IN envelope_of(statement_of(doc, canonical_json(doc)), key)

LEMMA SigningAttaches ==
  ASSUME NEW record, NEW key, DOMAIN record = Fields
  PROVE  sign_record_dsse(record, key).dsse_envelope =
             IF floor_consistent(record) THEN made_for(record, key)
                                         ELSE record.dsse_envelope
<1>1. signed(record, key).dsse_envelope = made_for(record, key)
  BY DEF signed, made_for, stripped, Fields, Optional
<1> QED BY <1>1 DEF sign_record_dsse

\* A signature verifies under the key that made it only, and covers the
\* statement that was signed.
LEMMA EnvelopeOpens ==
  ASSUME NEW statement, NEW signer, NEW key
  PROVE  LET envelope == envelope_of(statement, signer)
         IN /\ signature_verifies(envelope, key) => key = signer
            /\ decode(envelope.payload).jcs = statement
<1> DEFINE bytes == canonical_json(statement)
           envelope == envelope_of(statement, signer)
<1>1. /\ envelope.payload = encode(bytes)
      /\ envelope.signatures[1] =
             encode(ed25519(signer, pae_encode(IN_TOTO_PAYLOAD_TYPE, bytes)))
  BY DEF envelope_of
<1>2. decode(envelope.payload) = bytes /\ bytes.jcs = statement
  BY <1>1 DEF decode, encode, canonical_json, serialized
<1>3. decode_base64_lenient(envelope.signatures[1]) =
          ed25519(signer, pae_encode(IN_TOTO_PAYLOAD_TYPE, bytes))
  BY <1>1 DEF decode_base64_lenient, encode
<1> HIDE DEF envelope, bytes
<1>4. signature_verifies(envelope, key) => key = signer
  BY <1>3 DEF signature_verifies, ed25519
<1> QED BY <1>2, <1>4 DEF envelope

\* Equal hashes are hashes of equal contents.
LEMMA HashInjective ==
  ASSUME NEW a, NEW b, sha256_hex(canonical_json(a)) = sha256_hex(canonical_json(b))
  PROVE  a = b
<1>1. canonical_json(a) = canonical_json(b)
  BY DEF sha256_hex
<1> QED BY <1>1 DEF canonical_json, serialized

\* The digest of a statement of this profile is that of its predicate.
LEMMA StatementDigest ==
  ASSUME NEW doc, NEW bytes
  PROVE  statement_of(doc, bytes).subject[1].digest["sha256"] = sha256_hex(bytes)
  BY DEF statement_of, wrap_in_toto_statement

\* What a verdict of "ok" means.
LEMMA AcceptsMeans ==
  ASSUME NEW record, NEW key, Accepts(record, key)
  PROVE  LET statement == decode(record.dsse_envelope.payload).jcs
         IN /\ record.dsse_envelope # None
            /\ signature_verifies(record.dsse_envelope, key)
            /\ names_record(statement, record)
            /\ "sha256" \in DOMAIN statement.subject[1].digest
            /\ statement.subject[1].digest["sha256"] =
                   sha256_hex(canonical_json(predicate_of(record)))
  BY DEF Accepts, verify_record_dsse

\* A record under the envelope made for another is accepted only if both have
\* the same contents, and under the signer's key.
LEMMA AcceptsOnlyItsContents ==
  ASSUME NEW record, NEW key, Accepts(record, key), NEW other, NEW signer,
         record.dsse_envelope = made_for(other, signer)
  PROVE  key = signer /\ predicate_of(record) = predicate_of(other)
<1> DEFINE doc == predicate_of(other)
           statement == statement_of(doc, canonical_json(doc))
<1>1. record.dsse_envelope = envelope_of(statement, signer)
  BY DEF made_for
<1>2. statement.subject[1].digest["sha256"] = sha256_hex(canonical_json(doc))
  BY StatementDigest
<1> HIDE DEF statement
<1>3. /\ key = signer
      /\ decode(record.dsse_envelope.payload).jcs = statement
  BY <1>1, AcceptsMeans, EnvelopeOpens
<1>4. sha256_hex(canonical_json(predicate_of(record))) = sha256_hex(canonical_json(doc))
  BY <1>2, <1>3, AcceptsMeans
<1> QED BY <1>3, <1>4, HashInjective
=============================================================================
