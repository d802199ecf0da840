---------------------------- MODULE RecordClaims ------------------------------
(***************************************************************************)
(* What comments and documents of the repository say of signed records and *)
(* the code does not do: each is stated as they say it, and a run shows a  *)
(* behaviour of SignedRecords that breaks it.                              *)
(***************************************************************************)
EXTENDS SignedRecords

\* dsse.rs:321-323: a statement without a digest is meant to be the error
\* "subject[0].digest.sha256 missing"; verify_record_dsse returns a Result.
VerifierReturns ==
    rec # None => \A key \in Keys : verify_record_dsse(rec, key) # "panic"

\* dsse.rs:3-12, envelopes of other producers that canonicalize by RFC 8785
\* verify here, and evidence.rs:146-149, their "extra fields must survive a
\* deserialize->serialize round trip" so that their digests are
\* reproducible: what such a producer signed verifies when it is read.
ForeignRecordsVerify ==
    \A entry \in published : \A key \in entry.by \cap ForeignKeys :
        Accepts(from_str(entry.text), key)
=============================================================================
