# wasmagent-proxy in TLA+

This directory models the evidence gateway of the repository: a Proxy-Wasm
filter that classifies every HTTP (and MCP) request that passes an Envoy-based
gateway, records one piece of *action evidence* for it, and the library
`aep-core` that decides how much is recorded and signs the result. The modules
are checked with TLC on small instances; the ones named `...Proofs` prove their
main theorems with TLAPS for every value of the constants.

## 1. Inventory

| Part | Source | State it keeps | Operations |
| --- | --- | --- | --- |
| Proxy-Wasm filter | `crates/proxy-wasm-evidence/src/filter.rs` | root: `config`, metric ids; per stream: a copy of both, request fields, an `EvidenceBuffer` | `on_configure`, `create_http_context`, `on_http_request_headers`, `on_http_response_headers`, and the drop of a context |
| Evidence recorder | `.../recorder.rs` | `EvidenceBuffer`: a ring of evidences, its capacity, `dropped_total` | `push`, `drain`; the classifiers `infer_side_effect_class*`, `max_recording_mode`, `build_evidence`, `unix_millis*` |
| Plugin configuration | `.../config.rs` | none | serde defaults, `validate` |
| Recording policy | `crates/aep-core/src/recording.rs` | none | `compile_recording_policy` |
| MCP header classifier | `crates/aep-core/src/mcp_headers.rs` | none | `classify_mcp_headers` |
| Evidence records | `crates/aep-core/src/evidence.rs` | the record under construction; its JSON | `run_side_effect_class_max`, `strictest_recording_mode` |
| Emitter | `crates/proxy-wasm-evidence/src/emitter.rs` | none | `assemble_and_sign`; the port `EvidenceSink::emit` |
| DSSE | `crates/aep-core/src/dsse.rs`, `signing.rs` | none | `sign_record_dsse`, `verify_record_dsse`, `canonical_json` |
| Provenance graph | `crates/aep-core/src/prov.rs` | `ProvGraph`: maps of activities, entities and agents | `ancestors`, the only one |
| Record chains | `crates/aep-core/tests/protocol_corpus.rs` | none | `chain_status`: tampering, forks, gaps |

How they interact. The host (Envoy, outside `src/`) loads the plugin in a VM,
calls `on_configure` on the root context, and then, for each stream, creates
an HTTP context and calls it back at the request headers, at the response
headers and when the stream goes away. A VM is single-threaded, but the
callbacks of different streams, and reconfigurations, interleave freely. The
HTTP context gets *clones* of the root's configuration and metric ids, so a
stream keeps those it was created with. In `on_http_response_headers` the
filter calls the recorder, which calls the policy and the header classifier;
the resulting mode goes to three places: the buffered evidence, a counter of
the host, and a response header.

The emitter, DSSE, the rollups and the provenance graph are library code: no code of the
filter calls them (see the findings). A caller assembles the evidences of a run
into a record, signs it, and hands it to
a sink; a verifier checks the envelope against the record.

What is hard here, and what must be true of it:

* *Filter*: a reconfiguration, or a refused one, while streams are in flight;
  a response without a request (a local reply of the host); a clock or a metric
  that fails; a capacity that validation accepts and an allocation does not.
  Whatever happens, no stream may be recorded below the accepted
  `default_mode`, no header of the client may make its evidence cheaper than
  its HTTP method does, and header, counter and evidence must tell the same.
* *Recorder*: the ring at its capacity: the newest entries survive, in order,
  and what is given up is counted.
* *Classifiers*: two orders (severity and mode) that disagree about `unknown`, two
  headers and three layers of leak detection whose order decides what is reported.
* *Rollups*: two orders again, and a vocabulary that other producers may leave.
* *DSSE*: which parts of a record the envelope binds, and what a verifier
  accepts about the evidence grade and the assurance floor; whether a digest is
  reproduced from JSON by a reader whose library has its own view of nulls and numbers.
* *Record chains*: records that arrive out of order, twice or not at all, restarts and
  forks, changes, and a verdict that depends on the order of early returns.
* *Provenance*: an iterative walk over graphs with cycles and diamonds, which
  must find every ancestor once and end.

## 2. Modules

| Module | What it is | Source |
| --- | --- | --- |
| `RustTypes` | `Option` and `String` as the other modules use them | |
| `RecordingPolicy` | `compile_recording_policy`: the rules that force full capture | `recording.rs` |
| `McpHeaders` | `classify_mcp_headers` over abstract header values | `mcp_headers.rs` |
| `EvidenceBuffer` | the ring buffer as operators on a record with the struct's fields | `recorder.rs` |
| `Recorder` | class inference, the two orders, `build_evidence`, the clock | `recorder.rs` |
| `PluginConfig` | fields, defaults, `validate`, what serde accepts | `config.rs`, `filter.rs` |
| `EvidenceFilter` | **the filter**: one VM, its root context, its streams | `filter.rs` |
| `CaptureContract` | abstract: what the gateway promises about a stream | (specification) |
| `DocumentedClaims` | what comments and documents say of the filter that it does not do | (properties) |
| `BufferLedger` | any client of `EvidenceBuffer` that keeps books | `recorder.rs` |
| `Rollup` | the two rollups of a slice of evidence | `evidence.rs` |
| `RunLedger` | **a run through a buffer**: `BufferLedger` with the evidence behind its numbers, what was drained rolled up | `recorder.rs`, `evidence.rs` |
| `ProvGraph` | `ProvGraph::ancestors`, one action per turn of its loops | `prov.rs` |
| `Dsse` | a record, its JSON, signing it and verifying it, as operators | `evidence.rs`, `dsse.rs`, `signing.rs` |
| `SignedRecords` | **the life of records**: the emitter, other callers, a sink, the wire | `emitter.rs`, `dsse.rs` |
| `RecordChain` | **chains of records** and their reader: `chain_status` | `protocol_corpus.rs`, `dsse.rs` |
| `RecordClaims` | what comments and documents say of signed records that they do not do | (properties) |
| `MC...` | small instances for TLC | |
| `EvidenceFilterProofs`, `EvidenceCountProofs` | theorems about the filter; about its counters and the contract | |
| `BufferLedgerProofs`, `RunLedgerProofs` | theorems about the buffer; about the rollups of what was drained | |
| `ProvGraphProofs` | theorems about the walk | |
| `DsseProofs`, `SignedRecordsProofs`, `RecordChainProofs` | lemmas about signing and verifying; theorems about records in circulation; about chains | |

`EvidenceFilter` EXTENDS `Recorder` (which EXTENDS `RecordingPolicy` and
`McpHeaders`), `PluginConfig` and `EvidenceBuffer`, and implements
`CaptureContract`, which it INSTANCEs with a refinement mapping. `RunLedger` composes
`BufferLedger`, `Recorder` and `Rollup`; `SignedRecords` and `RecordChain` EXTEND `Dsse`. A definition keeps the name it has in the code. One whose comment
begins with "Mutant:" is a plausible mistake in the definition after it, kept to
show that the properties would notice; no specification uses it.

### EvidenceFilter

| Variable | In the code |
| --- | --- |
| `root` | `EvidenceRoot`: its configuration and metric ids |
| `ctxs` | the `EvidenceFilter` of each live stream, with the fields of the struct |
| `counters` | the host's counter metrics (external) |
| `phase` | which callback the host has reached for each stream (external) |
| `response` | the `x-aep-*` headers of the response that left |
| `accepted`, `hist` | history, read by properties only: the last configuration `on_configure` said yes to; what each stream was given and what it captured |

| Action | Callback |
| --- | --- |
| `OnConfigure` | `on_configure`: metrics are redefined first, then the payload is parsed and validated, and only then does the configuration change |
| `CreateHttpContext` | `create_http_context` and `EvidenceFilter::new`, with the panics of `EvidenceBuffer::new` |
| `OnHttpRequestHeaders` | `on_http_request_headers`: fields are read through the stream's own header names |
| `OnHttpResponseHeaders` | `on_http_response_headers` in one piece: classification, policy, floor, clock, both counters, both headers, the push |
| `DropContext` | the host deletes the context; the filter has no `on_done` or `on_log`, so this is `Drop` |

A callback is one action because a VM is single-threaded and no callback yields;
the actions of different streams and of the root interleave freely. What is
outside `src/` is modelled from the way the filter uses it: the order of the
callbacks of a stream (a response may come without a request, a stream may end
at any time), a metric registry that may refuse a metric (id 0, on which an
increment does nothing), a clock that may fail, a response that already carries
`x-aep-*` headers, and a VM in which nothing runs after a panic.

Data is reduced to what the code can tell apart. A path is the set of the two
markers it may contain; a header value is the MCP operation it spells, its
credential prefix, its alphanumeric runs (each with a length in characters and one
in bytes, since the code measures bytes), and whether it has an `@` and a `.`; a signing key is
whether it is made of hex digits, and its length. `String` is a constant set of
which only the strings named in the code are known. A stream has at most one response, as HTTP has.

### BufferLedger and RunLedger

`buf` is the `EvidenceBuffer`; the client numbers what it pushes and keeps what
`push` returns (`evicted`) and what `drain` returns (`delivered`). `Push` and `Drain`
come in any order. The filter uses a buffer for one push; the ledger uses it as long
as its bound was made for. In `RunLedger` the number of an entry stands for an action,
`work` is the evidence of each, made in a gateway run by `build_evidence` from one of the
`Contexts`, its mode then raised to some `default_mode`, and by anyone in a mixed run, and the client rolls up what it has drained. No code of `src/` calls the
rollups (the JS emitter they mirror does), so the client is the one the API asks for.

### ProvGraph

The variables are the locals of `ancestors`, with `used` for what is left of the
inner loop's iterator. `Skip` is a turn of the outer loop that ends in one of its
three `continue`s, `Discover` one that finds a new activity and enters the inner
loop, `Use` a turn of the inner loop. The reference is declarative: the least set
of entities that holds the start and is closed under "was used to produce".

### Dsse and SignedRecords

Bytes are symbolic. `canonical_json`, SHA-256, PAE and Ed25519 are constructors: they
are injective, and no action makes a signature without its key. A JSON object is
a function, so it has no order of keys, which is what canonicalization is for; a
text made by `format!` is the sequence of its pieces. A base64 text is its bytes and
its alphabet. A record has the fields that matter to the code's decisions and to
the flattening of `extra` (of those that behave alike, one stands for all), and
`to_value` and `from_value` are what serde does with them: absent optional fields are left
out, unknown ones go to `extra`, and `extra` wins when it is written back. That is the value which is signed
and verified. What a sink gets and a reader reads is a text (`to_string`, `from_str`), as the example and
the tests write it, and there is a difference: a value has a key once, a text has it twice if the struct and its `extra` both hold
it, and `from_str` refuses the second value for a field of the struct. The order of keys in a text is not modelled. The model
has the JSON values of which serde_json has a view of its own: a null is an absent field where
the struct models it and a null elsewhere (`JsonNull`); a float without a fraction is
written 5.0, not 5 (`WholeFloat`); a float of 17 digits may be read as its neighbour
(`LongFloat`, `NextFloat`), since the feature `float_roundtrip` is off; that can happen to a
field of `extra` only, as no field of the struct that is modelled holds a float.

`rec` is the record in hand, `published` the texts that sinks hold, `attested` the
history of who signed what. `AssembleAndSign` is the emitter; `Emit` the port to a
sink; `BuildRecord`, `SignRecord`, `ReadBack` are other callers of `aep-core`;
`EditRecord` and `ChangeEnvelope` are what may happen to a record before somebody
verifies it; `ForeignRecord` and `OddRecord` are producers that are not this code, for
which the module's comments promise that their records verify (external). Verifying
changes nothing, so it is no action: the properties ask for its verdict in every state under every key.

The gateway puts `identity_source` into `extra` although the struct has the field. Until the record is
read back, `extra` hides whatever is set in the field, and the edits of `signed_wire` include that one.
The record in hand then still verifies (no digest covers the field), but its text has the
key twice and cannot be read: a record that verified when the sink got it is lost to its readers.
`SurvivesTheWire` therefore speaks of the texts that can be read, and `SetIdentityNeverArrives` says whose cannot, and
that no reader is ever told the hidden value. `ReadBack` has the error path: the reader keeps what it had.

### RecordChain

`written` is the history of the records as they were written, each with its predecessor (0
for none): a tree, since a writer may restart or fork. `held` is the slice a
reader has, received record by record in any order (`Receive`), changed (`Alter`), signed
once more by somebody else (`Resign`), and given up for another (`StartOver`).
`chain_status` is asked of every state. Nothing in `src/` writes a link, so `Write` is
external, and makes the links that `chain_status` expects.

The verdicts have an inconsistency of their own: a single record with a link is
`orphaned`, but followed by one without a link it is `not-present`. The model keeps it.

## 3. Runs

| Run | Question | Bounds |
| --- | --- | --- |
| `filter_streams` | Do streams and reconfigurations interfere? Do header, counter and evidence agree? Is `CaptureContract` implemented? | 2 streams, 3 configurations (one refused), 3 requests, metrics refused or not, a clock that fails or not |
| `filter_inputs` | Can a header, or a missing one, make evidence cheaper than it should be? Can a leak go unnoticed? For which capacities does the creation of a context panic? | 2 streams, 10 kinds of request, 10 payloads; capacities 0, 1, 1024 and 2^31-1 against an allocator that serves 10^7 entries |
| `buffer_ledger` | Are entries lost, duplicated, reordered, miscounted? Do the rollups of what was drained tell the truth about the run? | capacities 1 to 3, 7 pushes, drains without bound, six risk contexts, 408 runs |
| `prov_walk` | Does the walk find the ancestors, once each, in order, and end? | every graph of up to 3 entities and 2 activities that use at most 2 entities |
| `signed_wire` | Does verification accept what was signed, and only that? Does a record survive its text, and which text cannot be read? What does a gateway record promise? | one key per kind of signer, 2 signatures, 1 published record; numbers of three kinds |
| `signed_grades` | Can an accepted record mask a weak grade? Can a refused signing harm a record? | seven states of floor and observed grades, and a grade outside the vocabulary, 2 signatures |
| `record_chain` | What does each verdict say of what was written, and can later records or signatures change it? | 3 records written, 3 held, 2 changes |
| `claim_...` | Five statements of the repository's texts that the code does not keep (section 5) | as the run of the same module |

**Why the bounds are enough.** The streams of a VM share only `root` and
`counters`, and no callback reads another stream's context: two streams show each way in which a
reconfiguration can fall between their callbacks, and one stream already has a
configuration of before and one of after. The request set has a member for each
branch of the classifiers and for each pair of headers whose order matters.
Streams are interchangeable in every property, so `filter_*` runs use symmetry on
`ContextIds` (none of them checks a liveness property). Seven pushes
take the largest buffer of `buffer_ledger` past its limit twice; one capacity differs
from another only in when that happens. Its runs repeat any three kinds of evidence, so
each kind meets each other one in both orders, and each is the one evicted or the last one drained.
In `record_chain`, three records are a chain with a middle, a fork or a restart
after a link; two changes alter one record and relink its successor to hide it. In `prov_walk`, three entities and two
activities give self-loops, two-cycles, diamonds, entities listed twice
by one activity, and edges to unknown entities and activities. In `signed_*` two
signatures are what one needs to exchange envelopes; the bounds
`MaxSigned` and `MaxPublished` stand in the guards of the actions that count towards them.

**Fairness.** None in the filter, the ledger, the records and the chains: a host may stop calling
a stream back and a client may stop using a buffer, so the code justifies no fairness
and promises nothing that "eventually" happens. The ancestors walk is one sequential
call, hence `WF_vars(Next)`; its liveness property is that it returns.

**Deadlock** is checked except in `filter_inputs` (a trapped VM does nothing more)
and `prov_walk` (the walk returns). In `filter_streams` no context panics, and
reconfiguration is always possible.

## 4. Proofs

What TLC finds on small instances, TLAPS proves for every value of the constants:
any number of streams, requests, entries, entities, records and keys. Every invariant and
action property of the passing runs, and the refinement of
`CaptureContract`, is a theorem; `PROJECT.json` lists which states which.

**Assumptions.** They are named where the constants are declared, and TLC evaluates
them in every run: constants have their types, and `None` is not an element
of the sets it is added to. `RunLedger` adds that runs are sequences of evidence and that the gateway's are
made as the filter makes them. `RecordChain` says that the writer and the
notary have keys of their own. `SignedRecords` says that a key is used in one of the three ways, that
callers and other producers fill in the required fields, that edits do not empty those, and that the
odd statements of `OddStatements` name none of the runs.

Two hypotheses cannot be evaluated, since they quantify over everything there is; they
stand in the theorems that need them (ASSUME ... PROVE). `HashesAreValues` says that no digest is `None` or
`JsonNull`, and `NoneIsNoStruct` that no envelope, byte string, signature or digest record is `None`. The
code's types say so (a digest is a `String`, a struct is not an `Option`); in a model without types
`None` might otherwise be the very value that a constructor makes. Only theorems that
say that something *is* accepted need them, and the two about links of a chain; what
acceptance implies is proved without.

**The filter.** `TypeCorrect` rests on `Typed`, the type invariant with the
facts on lengths that a leaf needs. The safety properties follow from `IInv`:
`RootInv` says that the root runs under the configuration accepted last and
that its buffers have room; `StreamInv` says, for each stream, which of its histories exist in
which phase, that a context in flight holds exactly what was on the wire
(`ReadsWire`), and that what was captured has the properties for good. Without `ReadsWire`, a
response could be about another request; without `RootInv`, a context could be
created under a refused configuration. `StreamFrame` states once what a step
that leaves a stream alone keeps for it. `HeaderOnlyRaises` is the heart of the
FAIL-CLOSED rule: the severity order folds to at least what HTTP says, and the policy
never asks for less because of it. `LeaksAreAlwaysNoticed` needs `ReadsWire` for both MCP
headers: the leak is found in what the context holds, and promised of what was on the wire.

*Counters.* `CountersAlwaysAccount` speaks of cardinalities, so `CountInv` carries that the
streams accounted for are finitely many, however many there are: each response
adds at most its own stream to such a set. `MeterInv` says that a context counts with the metrics it was
created with, under their own ids. The proof showed that one conjunct held for a reason the model did
not state: a clock that reads 0 cannot be told from one that fails. `CountersAccount`
says so now (`ClockIsSet`).

*Contract.* `FilterKeepsContract` is the refinement, step by step: `CreateOpens`, `ResponseReports` and
`DropCloses` map a callback to a step of `CaptureContract`, and
`ContractStutters` the others to none. That a report is at or above the floor is `EvidenceFacts`, for
the configuration that a context has kept since it was created.

**The buffer.** The invariant `IInv` is the conjunction of the type, `HoldsTheNewest` and `NothingLostSilently`: the
other two need the shape of the buffer and its bound; `PushWithRoom`, `PushWhenFull` and `DrainFacts` say what the
operators do. `OrderInv` adds that whatever was delivered or evicted is among the
entries that have left (`gone`), which puts it before the buffer's content, and that
no number is in both lists: `DrainKeepsOrder`. `EvictionOnlyWhenFull` is an action property of the same invariant.

**Rollups.** `max_by_key` returns the last of the elements that are greatest; `LastIndex`
and `MaxByKey` prove that there is one, and that it bounds the others, by the well-founded order
of the integers instead of an induction along the slice. `ClassRollup` and `ModeRollup`
say what that means for the two orders. `RunInv` ties the ledger to the run: no more was pushed than the run has. Then
`RollupsAlwaysCover` (from `RecordedOfPerformed`: what is recorded was performed, and is all of it
when nothing was dropped), `UnknownAlwaysForcesReview` and `GatewayRollupsAgree` (from `GatewayFacts`, which
says for every risk context and default mode which modes an effect can be recorded in).

**The walk.** The
invariant `WalkInv` has three parts: what was seen is in every closed set
(`SeenIsUpstream`, which gives "nothing else"); what was seen and is off the
stack is dealt with (`Settled`, which gives, with the stack empty, that the seen set is
itself closed, hence "every one"); and what is listed was found that way (`Listed`).
`AncestorsReadUpstream` needs `KnownInv`: whatever was seen, or is about to be, is the start or was
used by an activity already listed.

**Records in circulation.** `SignedInv` says where everything comes from. An entry of the history has the envelope
made for its contents, and contents that the signer's own checks let pass (`TrueMade`). The envelope of a record is one of the
history's, its signature perhaps re-encoded; or one that verifies under no key; or one of
the odd statements; or none (`Traced`). A record in hand, and the JSON of a published one, has its required fields,
and `extra` hides nothing but `identity_source`, and that only with the gateway's own value (`HeldRecord`, `HeldDoc`). TLC checked it on the instances of `signed_wire` and
`signed_grades` before it was proved. It is inductive because a signing only adds to the history, and because
writing and reading back keep the two apart (`WrittenHeld`, `ReadHeld`).
`AcceptedWasMade` is the step from a verdict back to a signature: an odd envelope is refused (`OddRefused`, one
case for each thing that verification looks at), a damaged one does not verify (`DamagedFails`), and equal digests are digests
of equal contents (`HashInjective`). `OnlyTheSignedIsAccepted`,
`GradesAreNeverMasked` and `GatewayKeepsPromises` follow: what the digest binds still has what was
true of it when it was signed. In the other direction, `OwnIsAccepted` gives `AllTheSignedIsAccepted` and
`SigningKeepsVerifying`, and `RoundTrip` with `SameVerdict` gives `TheWireIsSafe`: `PublishedText` says where a published
text comes from, and `TextSurvives` that a text without a double key is as good as its value. `SetIdentityIsNeverRead` rests on
the form of the gateway's `extra` in `HeldRecord`, and on `AcceptedIsOfGateway` for what was signed in it.

**Chains.** `ChainInv` says of each written record that the writer signed it, with contents of its own and its
predecessor's hash for a link (`AsWritten`), and of each held one that its envelope is that of a
written record, one of the notary's, or none (`AsHeld`). `LastSignatureAlwaysCommits` is an induction
from the last record down: it is done with the last index at which the match fails, if there were one
(`LastIndex`), since the induction theorems of the library take an operator. `TamperingAlwaysStaysVisible` and
`SigningAlwaysKeepsChain` need no history: `VerdictOfMany` and `VerdictOfOneMore` say how the verdict
depends on links and hashes alone.

**Only model-checked.** `Terminates`, a liveness property: fairness and ENABLED are outside the prover's
reach. And the claims, which are counterexamples. No module declares a RECURSIVE operator. What
the proofs share with the model is its abstraction: symbolic digests and signatures are
injective by construction, and nothing is proved about the text of canonical JSON.

## 5. Findings

Five runs end in a counterexample to what the repository says of its program.

| Run | The text | The code |
| --- | --- | --- |
| `claim_verifier_returns` | dsse.rs:321-323: a missing `sha256` is an error | indexing the JSON map panics (a code bug) |
| `claim_evidence_accounted` | recorder.rs:23-24, emitter.rs:74-75: dropped evidence is observable, never silent; the filter signs and emits | the buffer of a stream is destroyed with its entries, uncounted; nothing drains it. README.md:27-33 of the repository admits that emission is not wired yet |
| `claim_foreign_verify` | dsse.rs:3-12, evidence.rs:147-149: records of producers that canonicalize by RFC 8785 verify here | a float without a fraction in such a record is written as 5.0, not 5, and the digest differs |
| `claim_empty_key` | docs/configuration.md:108-109: an empty `signing_key_hex` disables signing | it makes `on_configure` refuse the configuration |
| `claim_credential_first` | mcp_headers.rs:6-20: credential prefixes of both headers come first; the highest severity is returned | the first header's other leaks come before the second header's credential |

Other texts that disagree with the code, or with each other, noticed while modelling (no run is kept for them;
the modules follow the code):

* recorder.rs:100-103 and filter.rs:129-130: MCP-Method takes precedence over the
  HTTP method. The more severe of the two wins, as recorder.rs:113-116 says.
* config.rs:28-29: a misconfigured plugin fails to load. A capacity that no allocation
  serves is accepted, and the first context panics (`PanicsOnlyBeyondAllocator` says
  that this is the only way).
* evidence.rs:146-149: digests cover every field, and records survive the round trip through JSON. A
  value set in `identity_source` of a record the gateway assembled is hidden by `extra`
  (emitter.rs:62-64): the digest does not cover it, and the text has the key twice, which `from_str`
  refuses.
* evidence.rs:20: more than 32 characters. mcp_headers.rs:13-14 and the code (line 68) say 32 or more.
* docs/mcp-protocol-compatibility.md:55-56: the risk header is set to `critical` or `high`. It is set to
  `credential_leak`, `high_entropy_value` or `pii_leak`.
* dsse.rs:141: fail closed on all boundary conditions. A grade outside the vocabulary ranks with
  the weakest, which refuses it among the observed grades but lets it pass as a floor.
* mcp_headers.rs:13-14: runs of 32 characters. They are measured in UTF-8 bytes.
* dsse.rs:137-138: the floor must be the weakest observed grade. It may be weaker,
  as lines 141-145 say.
* dsse.rs:125: signing stamps `schema_version`. It leaves it alone.
* emitter.rs:23: the agent is recorded as `user_id`. It is `claimed_agent_id`, as
  lines 50-53 say.
* docs/aep-evidence-format.md:134-135: a signed record carries an `AepSignature`.
  It carries a DSSE envelope, and `signature` is cleared; nor is `signature: null` part of what is signed
  (docs/architecture.md:126, docs/aep-evidence-format.md:147), as absent fields are left out.

## 6. Not modelled, and why

* The text of canonical JSON: key order in UTF-16 units, escapes, and the digits of a
  number. `compare_utf16` is the order RFC 8785 states, so a model of it would compare the
  order with itself; what can differ between producers, the form of a number, is
  modelled by the numbers that differ.
* The rest of the corpus test: it reads fixtures of another repository from disk.
* Malformed JSON, a missing required field: `serde_json` returns an error, and no record exists.
* A wall clock before 1970: `unix_millis` models the fallback to 0, but the SDK
  reads an unsigned count of nanoseconds, so no run feeds a negative one.
* Logging, the wording of reasons and errors, `key_id`, action ids (a stream's
  name stands for its UUID): no property depends on them.
* Crate roots, the example, benchmarks, deployment, CI: no protocol of their own.

## 7. Plan

The model covers the components of section 1, and every safety property that a run checks is a
theorem. What is left:

1. An abstract specification of the buffer (a window of the newest entries and a count) and of the
   exchange of records (who attested what), with refinements proved as the filter's is.
2. Lemmas on the classifiers for headers of any kind: which of two leaks is reported, and that the
   class of a request never ranks below that of its method.
