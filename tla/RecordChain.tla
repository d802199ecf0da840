------------------------------ MODULE RecordChain ------------------------------
(***************************************************************************)
(* Chains of records: chain_status, the verdict of the protocol corpus     *)
(* test (crates/aep-core/tests/protocol_corpus.rs), on what a reader holds *)
(* of the records that were written.                                       *)
(*                                                                         *)
(* Writing a chain is left to other producers: a record names its          *)
(* predecessor by the hash that chain_status expects, and a writer that    *)
(* restarts or forks names none or an earlier one.  Records reach the      *)
(* reader in any order, again, or not at all, and may be changed.          *)
(***************************************************************************)
EXTENDS Dsse

CONSTANTS Writer,       \* the key of the producer of the chain
          Notary,       \* the key of whoever signs a record once more
          MaxWritten,   \* bound on the records written
          MaxHeld,      \* bound on the records the reader holds
          MaxChanges    \* bound on the changes made to them

ASSUME KeysAssumption       == Writer # Notary
ASSUME MaxChangesAssumption == MaxChanges \in Nat

VARIABLES
    written,   \* history: the records as written, and the predecessor of each
    held,      \* the records the reader holds, as read from their JSON
    changes    \* how many changes were made to them

vars == <<written, held, changes>>

-----------------------------------------------------------------------------
(* The verdict *)

\* Mutant: any value of the field is a link, a null included.
link_Null(record) ==
    IF "prev_record_hash" \in DOMAIN record.extra
    THEN record.extra.prev_record_hash ELSE None

\* A link is a string: a null prev_record_hash means "no link".
link(record) ==
    IF /\ "prev_record_hash" \in DOMAIN record.extra
       /\ record.extra.prev_record_hash # JsonNull
    THEN record.extra.prev_record_hash ELSE None

\* Mutant: the envelope is hashed with the record.
record_hash_Signed(record) == sha256_hex(canonical_json(to_value(record)))

record_hash(record) == sha256_hex(canonical_json(predicate_of(record)))

\* Mutant: the second record is not looked at.
gaps_FromThird(records) == {i \in 3..Len(records) : link(records[i]) = None}

\* The records after the first that name no predecessor.
gaps(records) == {i \in 2..Len(records) : link(records[i]) = None}

\* Mutant: a gap anywhere is reported before a mismatch.
is_broken_GapFirst(records) ==
    /\ gaps(records) = {}
    /\ \E i \in 2..Len(records) : link(records[i]) # record_hash(records[i - 1])

\* A record names another one than the one before it.
is_broken(records) ==
    \E i \in 2..Len(records) :
        link(records[i]) \notin {None, record_hash(records[i - 1])}

chain_status(records) ==
    LET anchored == records # << >> /\ link(records[1]) # None
    IN IF Len(records) <= 1
       THEN IF anchored THEN "orphaned" ELSE "not-present"
       ELSE IF is_broken(records)              THEN "broken"
       ELSE IF gaps(records) = 2..Len(records) THEN "not-present"
       ELSE IF gaps(records) # {}              THEN "partial"
       ELSE IF anchored                        THEN "orphaned"
       ELSE "intact"

-----------------------------------------------------------------------------
(* What happens to records *)

Init ==
    /\ written = << >>
    /\ held = << >>
    /\ changes = 0

\* A predecessor of 0 is none, which is a field left out or a null.
Write(predecessor) ==
    /\ Len(written) < MaxWritten
    /\ \E extra \in IF predecessor = 0
                    THEN {<< >>, [prev_record_hash |-> JsonNull]}
                    ELSE {[prev_record_hash |->
                               record_hash(written[predecessor].record)]} :
           LET plain == [bare(AEP_SCHEMA_VERSION, <<"r1">>, <<Len(written)>>)
                            EXCEPT !.extra = extra]
           IN written' = Append(written, [record      |-> sign_record_dsse(plain, Writer),
                                          predecessor |-> predecessor])
    /\ UNCHANGED <<held, changes>>

\* The reader takes its next record from its text, which has no key twice.
Receive(n) ==
    /\ Len(held) < MaxHeld
    /\ held' = Append(held, from_str(to_string(written[n].record)))
    /\ UNCHANGED <<written, changes>>

\* A record with other contents, or another link, under its old envelope.
Altered(record) ==
    {[record EXCEPT !.actions = << >>], [record EXCEPT !.extra = << >>]}
        \cup {[record EXCEPT !.extra = [prev_record_hash |-> record_hash(other)]] :
                  other \in {held[i] : i \in DOMAIN held}}

Alter(i) ==
    /\ changes < MaxChanges
    /\ changes' = changes + 1
    /\ \E record \in Altered(held[i]) : held' = [held EXCEPT ![i] = record]
    /\ UNCHANGED written

\* Somebody else signs a record, as it is.
Resign(i) ==
    /\ changes < MaxChanges
    /\ changes' = changes + 1
    /\ held' = [held EXCEPT ![i] = sign_record_dsse(@, Notary)]
    /\ UNCHANGED written

\* The reader turns to another selection of the records.
StartOver ==
    /\ held # << >>
    /\ held' = << >>
    /\ changes' = 0
    /\ UNCHANGED written

Next ==
    \/ StartOver
    \/ \E predecessor \in 0..Len(written) : Write(predecessor)
    \/ \E n \in DOMAIN written : Receive(n)
    \/ \E i \in DOMAIN held : Alter(i) \/ Resign(i)

Spec == Init /\ [][Next]_vars

-----------------------------------------------------------------------------

\* A record keeps the fields of the struct, a link stays in extra through the
\* JSON, and a predecessor is an earlier record.
TypeOK ==
    /\ \A i \in DOMAIN held :
           /\ DOMAIN held[i] = Required \cup Optional \cup {"extra"}
           /\ DOMAIN held[i].extra \subseteq {"prev_record_hash"}
    /\ \A n \in DOMAIN written : written[n].predecessor \in 0..(n - 1)
    /\ changes \in 0..MaxChanges

\* The reader's records are, in order, a path of what was written: path[i] is
\* the number of the i-th, unaltered, and each names the one before it.
IsPath(path, records) ==
    /\ \A i \in DOMAIN path :
           predicate_of(records[i]) = predicate_of(written[path[i]].record)
    /\ \A i \in 2..Len(records) : written[path[i]].predecessor = path[i - 1]

Paths(records) ==
    {path \in [1..Len(records) -> DOMAIN written] : IsPath(path, records)}

\* What a chain is for: when two or more records are found linked without a
\* gap, the signature of the last one vouches for all: nothing before it was
\* altered, left out, repeated or put in another order, whatever happened to the
\* other envelopes; and "intact" says that it goes back to a record without
\* a predecessor, "orphaned" that it does not.
LastSignatureCommits ==
    LET status == chain_status(held)
    IN /\ Len(held) >= 2
       /\ status \in {"intact", "orphaned"}
       /\ Accepts(held[Len(held)], Writer)
       => \E path \in Paths(held) :
              (status = "intact") <=> (written[path[1]].predecessor = 0)

\* No false alarm: an unaltered path of two or more records is intact if it
\* starts where the writer started, and orphaned if it was cut off before.
PathsAreAccepted ==
    Len(held) >= 2 =>
        \A path \in Paths(held) :
            chain_status(held) =
                IF written[path[1]].predecessor = 0 THEN "intact" ELSE "orphaned"

\* A mismatch stays one: no record that follows, a gap in the chain or a
\* restart included, takes the verdict "broken" back; and only a chain that was
\* intact, or one first record, is intact after one more.
TamperingStaysVisible ==
    [][Len(held') > Len(held) =>
           /\ chain_status(held) = "broken" => chain_status(held') = "broken"
           /\ chain_status(held') = "intact" =>
                  \/ chain_status(held) = "intact"
                  \/ Len(held) = 1 /\ chain_status(held) = "not-present"]_vars

\* A chain outlives its envelopes: signing a record again, which replaces its
\* envelope, changes no verdict, of the record's own place or the next one's.
SigningKeepsChain ==
    [][(\E i \in DOMAIN held : Resign(i))
           => chain_status(held') = chain_status(held)]_vars
=============================================================================
