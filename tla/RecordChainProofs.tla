-------------------------- MODULE RecordChainProofs ---------------------------
(***************************************************************************)
(* Theorems about chains of records: for any number of records written,    *)
(* held and changed, in any order.                                         *)
(***************************************************************************)
EXTENDS RecordChain, DsseProofs, SequenceTheorems, WellFoundedInduction

-----------------------------------------------------------------------------
(* Records of a chain *)

IsRecord(record) ==
    /\ DOMAIN record = Fields
    /\ DOMAIN record.extra \subseteq {"prev_record_hash"}

\* Records with the same signed contents have the same link and actions.
LEMMA SameContents ==
  ASSUME NEW a, NEW b, IsRecord(a), IsRecord(b), predicate_of(a) = predicate_of(b)
  PROVE  /\ link(a) = link(b)
         /\ a.actions = b.actions
         /\ record_hash(a) = record_hash(b)
<1>1. /\ "prev_record_hash" \notin Required \cup Optional
      /\ "actions" \in (Required \cup Optional) \ SigningFields
      /\ "actions" # "prev_record_hash"
  BY DEF Required, Optional, SigningFields
<1>2. ASSUME NEW record, IsRecord(record)
      PROVE  "prev_record_hash" \in DOMAIN predicate_of(record)
                 <=> "prev_record_hash" \in DOMAIN record.extra
  <2>1. stripped(record).extra = record.extra
    BY <1>2 DEF IsRecord, stripped, Fields, Required, Optional
  <2> QED BY <1>1, <2>1 DEF predicate_of, to_value
<1>3. link(a) = link(b)
  BY <1>2, PredicateExtra DEF link, IsRecord
<1>4. a.actions = b.actions
  BY <1>1, PredicateField DEF IsRecord
<1> QED BY <1>3, <1>4 DEF record_hash

\* Signing a record once more changes neither its link nor its hash.
LEMMA ResigningKeepsLink ==
  ASSUME NEW record, NEW key, IsRecord(record)
  PROVE  /\ IsRecord(sign_record_dsse(record, key))
         /\ link(sign_record_dsse(record, key)) = link(record)
         /\ record_hash(sign_record_dsse(record, key)) = record_hash(record)
<1>1. sign_record_dsse(record, key).extra = record.extra
  BY SigningKeepsContents DEF IsRecord, Fields, SigningFields
<1> QED BY <1>1, SigningKeepsContents DEF IsRecord, link, record_hash

\* What a reader makes of the JSON of a record, whose envelope stays.
LEMMA ReadFromJson ==
  ASSUME NEW record, IsRecord(record), NEW read, read = from_str(to_string(record))
  PROVE  /\ IsRecord(read)
         /\ read.dsse_envelope \in {None, record.dsse_envelope}
<1> DEFINE doc == to_value(record)
<1>0. read = from_value(doc)
  <2>1. doubled(record) = {}
    BY DEF IsRecord, doubled, Required, Optional
  <2>2. ~refused(to_string(record)) /\ to_string(record).json = doc
    BY <2>1 DEF refused, to_string
  <2> QED BY <2>2 DEF from_str
<1>1. /\ DOMAIN doc \subseteq Required \cup Optional \cup {"prev_record_hash"}
      /\ "dsse_envelope" \in DOMAIN doc => doc["dsse_envelope"] = record.dsse_envelope
  BY DEF IsRecord, to_value, Required, Optional
<1> HIDE DEF doc
<1>2. DOMAIN read = Fields
  BY <1>0 DEF from_value, Fields
<1>3. DOMAIN read.extra \subseteq {"prev_record_hash"}
  BY <1>0, <1>1 DEF from_value, Required, Optional
<1>4. read.dsse_envelope \in {None, record.dsse_envelope}
  BY <1>0, <1>1 DEF from_value, Optional
<1> QED BY <1>2, <1>3, <1>4 DEF IsRecord

-----------------------------------------------------------------------------
(* The verdict *)

\* The verdict depends on the links and the hashes only.
LEMMA VerdictOfLinks ==
  ASSUME NEW S, NEW a \in Seq(S), NEW b \in Seq(S), Len(a) = Len(b),
         \A i \in 1..Len(a) : /\ link(a[i]) = link(b[i])
                              /\ record_hash(a[i]) = record_hash(b[i])
  PROVE  chain_status(a) = chain_status(b)
<1>1. Len(a) \in Nat
  OBVIOUS
<1>2. gaps(a) = gaps(b)
  BY <1>1 DEF gaps
<1>3. is_broken(a) <=> is_broken(b)
  <2>1. \A i \in 2..Len(a) : i \in 1..Len(a) /\ i - 1 \in 1..Len(a)
    BY <1>1
  <2> QED BY <2>1 DEF is_broken
<1>4. /\ a # << >> <=> Len(a) # 0
      /\ b # << >> <=> Len(a) # 0
  BY EmptySeq
<1>5. Len(a) # 0 => link(a[1]) = link(b[1])
  BY <1>1
<1> QED BY <1>2, <1>3, <1>4, <1>5 DEF chain_status

\* What the verdicts say of two or more records.
LEMMA VerdictOfMany ==
  ASSUME NEW S, NEW records \in Seq(S), Len(records) >= 2
  PROVE  LET status == chain_status(records)
         IN /\ status = "broken" <=> is_broken(records)
            /\ status \in {"intact", "orphaned"} <=>
                   ~is_broken(records) /\ gaps(records) = {}
            /\ status \in {"intact", "orphaned"} =>
                   (status = "intact" <=> link(records[1]) = None)
<1>1. Len(records) \in Nat /\ records # << >> /\ 2..Len(records) # {}
      /\ ~(Len(records) <= 1)
  <2>1. Len(records) \in Nat
    OBVIOUS
  <2>2. 2 \in 2..Len(records)
    BY <2>1
  <2> QED BY <2>1, <2>2, EmptySeq
<1> QED BY <1>1 DEF chain_status

\* A chain without a gap or a mismatch links each record to the one before.
LEMMA UnbrokenLinks ==
  ASSUME NEW records, ~is_broken(records), gaps(records) = {},
         NEW i \in 2..Len(records)
  PROVE  link(records[i]) = record_hash(records[i - 1]) /\ link(records[i]) # None
BY DEF is_broken, gaps

-----------------------------------------------------------------------------
(* The inductive invariant *)

Sequence(seq) == \E S : seq \in Seq(S)

\* A record as it was written: signed by the writer, with a number of its own
\* for contents, and a link to its predecessor unless that is none.
AsWritten(n) ==
    LET record      == written[n].record
        predecessor == written[n].predecessor
    IN /\ IsRecord(record)
       /\ record.actions = <<n - 1>>
       /\ record.dsse_envelope = made_for(record, Writer)
       /\ predecessor \in 0..(n - 1)
       /\ predecessor = 0 => link(record) = None
       /\ predecessor # 0 => record.extra =
              [prev_record_hash |-> record_hash(written[predecessor].record)]

\* A record as it is held: under the envelope of one that was written, under
\* one of the notary, or under none.
AsHeld(i) ==
    /\ IsRecord(held[i])
    /\ \/ held[i].dsse_envelope = None
       \/ \E n \in DOMAIN written :
              held[i].dsse_envelope = written[n].record.dsse_envelope
       \/ \E record : held[i].dsse_envelope = made_for(record, Notary)

ChainInv ==
    /\ Sequence(written) /\ Sequence(held)
    /\ \A n \in DOMAIN written : AsWritten(n)
    /\ \A i \in DOMAIN held : AsHeld(i)
    /\ changes \in 0..MaxChanges

LEMMA ChainInvInit == Init => ChainInv
<1> SUFFICES ASSUME Init PROVE ChainInv
  OBVIOUS
<1>1. Sequence(<< >>) /\ DOMAIN << >> = {}
  BY EmptySeq DEF Sequence
<1>2. changes \in 0..MaxChanges
  BY MaxChangesAssumption DEF Init
<1> QED BY <1>1, <1>2 DEF Init, ChainInv

\* One more element leaves a sequence one, with the elements it had.
LEMMA AppendSequence ==
  ASSUME NEW seq, Sequence(seq), NEW elem
  PROVE  /\ Sequence(Append(seq, elem))
         /\ Len(seq) \in Nat
         /\ DOMAIN seq = 1..Len(seq)
         /\ Len(Append(seq, elem)) = Len(seq) + 1
         /\ DOMAIN Append(seq, elem) = 1..(Len(seq) + 1)
         /\ \A i \in 1..Len(seq) : Append(seq, elem)[i] = seq[i]
         /\ Append(seq, elem)[Len(seq) + 1] = elem
<1>1. PICK S : seq \in Seq(S)
  BY DEF Sequence
<1>2. seq \in Seq(S \cup {elem})
  BY <1>1, SeqMonotonic
<1>3. Append(seq, elem) \in Seq(S \cup {elem}) /\ Len(seq) \in Nat
  BY <1>2
<1>4. /\ Len(Append(seq, elem)) = Len(seq) + 1
      /\ \A i \in 1..Len(seq) : Append(seq, elem)[i] = seq[i]
      /\ Append(seq, elem)[Len(seq) + 1] = elem
  BY <1>2
<1> QED BY <1>2, <1>3, <1>4, LenProperties DEF Sequence

\* A replaced element leaves a sequence one of the same length.
LEMMA ReplaceInSequence ==
  ASSUME NEW seq, Sequence(seq), NEW i \in DOMAIN seq, NEW elem,
         NEW changed, changed = [seq EXCEPT ![i] = elem]
  PROVE  /\ Sequence(changed)
         /\ Len(changed) = Len(seq)
         /\ DOMAIN changed = DOMAIN seq
         /\ \A j \in DOMAIN seq : changed[j] = IF j = i THEN elem ELSE seq[j]
<1>1. PICK S : seq \in Seq(S)
  BY DEF Sequence
<1>2. seq \in Seq(S \cup {elem}) /\ i \in 1..Len(seq)
  BY <1>1, SeqMonotonic
<1>3. changed \in Seq(S \cup {elem}) /\ Len(changed) = Len(seq)
  BY <1>2, ExceptSeq
<1> QED BY <1>2, <1>3, LenProperties DEF Sequence

LEMMA ChainInvWrite ==
  ASSUME ChainInv, NEW predecessor \in 0..Len(written), Write(predecessor)
  PROVE  ChainInv'
<1>1. /\ Sequence(written) /\ Len(written) \in Nat /\ DOMAIN written = 1..Len(written)
  BY AppendSequence DEF ChainInv
<1>0. PICK number \in Nat : number = Len(written) + 1
  BY <1>1
<1>2. PICK extra \in IF predecessor = 0
                     THEN {<< >>, [prev_record_hash |-> JsonNull]}
                     ELSE {[prev_record_hash |->
                                record_hash(written[predecessor].record)]} :
          LET plain == [bare(AEP_SCHEMA_VERSION, <<"r1">>, <<Len(written)>>)
                           EXCEPT !.extra = extra]
          IN written' = Append(written, [record      |-> sign_record_dsse(plain, Writer),
                                         predecessor |-> predecessor])
  BY DEF Write
<1> DEFINE plain  == [bare(AEP_SCHEMA_VERSION, <<"r1">>, <<Len(written)>>)
                         EXCEPT !.extra = extra]
           record == sign_record_dsse(plain, Writer)
           entry  == [record |-> record, predecessor |-> predecessor]
<1>3. /\ IsRecord(plain) /\ plain.actions = <<Len(written)>> /\ plain.extra = extra
      /\ floor_consistent(plain)
  <2>1. DOMAIN extra \subseteq {"prev_record_hash"}
    BY <1>2
  <2>2. DOMAIN plain = Fields /\ plain.extra = extra
    BY DEF bare, Fields, Required, Optional
  <2>3. plain.actions = <<Len(written)>>
    BY DEF bare
  <2>4. floor_consistent(plain)
    BY DEF bare, floor_consistent
  <2> QED BY <2>1, <2>2, <2>3, <2>4 DEF IsRecord
<1> HIDE DEF plain
<1>4. /\ IsRecord(record) /\ record.actions = <<Len(written)>> /\ record.extra = extra
      /\ record.dsse_envelope = made_for(record, Writer)
  <2>1. record.actions = plain.actions /\ record.extra = plain.extra
    <3>1. {"actions", "extra"} \subseteq Fields \ SigningFields
      BY DEF Fields, Required, SigningFields
    <3> QED BY <1>3, <3>1, SigningKeepsContents DEF IsRecord
  <2>2. made_for(record, Writer) = made_for(plain, Writer)
    BY <1>3, SigningKeepsContents DEF made_for, IsRecord
  <2>3. record.dsse_envelope = made_for(plain, Writer)
    BY <1>3, SigningAttaches DEF IsRecord
  <2> QED BY <1>3, <2>1, <2>2, <2>3, ResigningKeepsLink
<1> HIDE DEF record
<1>5. /\ Sequence(written') /\ DOMAIN written' = 1..number
      /\ \A n \in 1..Len(written) : written'[n] = written[n]
      /\ written'[number] = entry
  <2>1. written' = Append(written, entry)
    BY <1>2 DEF record, plain
  <2> HIDE DEF entry
  <2> QED BY <1>1, <1>0, <2>1, AppendSequence
<1>6. \A n \in DOMAIN written : AsWritten(n)'
  <2> SUFFICES ASSUME NEW n \in DOMAIN written PROVE AsWritten(n)'
    OBVIOUS
  <2>1. AsWritten(n) /\ written'[n] = written[n]
    BY <1>1, <1>5 DEF ChainInv
  <2>2. written[n].predecessor # 0 =>
            written'[written[n].predecessor] = written[written[n].predecessor]
    <3>1. written[n].predecessor \in 0..(n - 1)
      BY <2>1 DEF AsWritten
    <3> QED BY <1>1, <1>5, <3>1
  <2> QED BY <2>1, <2>2 DEF AsWritten
<1>7. AsWritten(number)'
  <2>1. predecessor \in 0..(number - 1) /\ number - 1 = Len(written)
    BY <1>1, <1>0
  <2>2. predecessor = 0 => link(record) = None
    BY <1>2, <1>4 DEF link
  <2>3. predecessor # 0 => record.extra =
            [prev_record_hash |-> record_hash(written'[predecessor].record)]
    BY <1>1, <1>2, <1>4, <1>5
  <2> QED BY <1>4, <1>5, <2>1, <2>2, <2>3 DEF AsWritten
<1>8. \A n \in 1..number : AsWritten(n)'
  <2>1. \A n \in 1..number : n \in 1..Len(written) \/ n = number
    BY <1>1, <1>0
  <2> QED BY <1>1, <1>6, <1>7, <2>1
<1>9. \A i \in DOMAIN held : AsHeld(i)'
  BY <1>1, <1>5 DEF Write, ChainInv, AsHeld
<1> QED BY <1>5, <1>8, <1>9 DEF Write, ChainInv

\* A step that changes one record held, or adds one, as AsHeld says.
LEMMA ChainInvHeld ==
  ASSUME ChainInv, written' = written, changes' \in 0..MaxChanges, Sequence(held'),
         \A i \in DOMAIN held' :
             (i \in DOMAIN held /\ held'[i] = held[i]) \/ AsHeld(i)'
  PROVE  ChainInv'
<1>1. \A n \in DOMAIN written' : AsWritten(n)'
  BY DEF ChainInv, AsWritten
<1>2. \A i \in DOMAIN held' : AsHeld(i)'
  BY DEF ChainInv, AsHeld
<1> QED BY <1>1, <1>2 DEF ChainInv

LEMMA ChainInvNext == ChainInv /\ [Next]_vars => ChainInv'
<1> SUFFICES ASSUME ChainInv, [Next]_vars PROVE ChainInv'
  OBVIOUS
<1>0. /\ Sequence(held) /\ changes \in 0..MaxChanges
      /\ Len(held) \in Nat /\ DOMAIN held = 1..Len(held)
  BY AppendSequence DEF ChainInv
<1>1. CASE StartOver
  <2>1. Sequence(<< >>) /\ DOMAIN << >> = {}
    BY EmptySeq DEF Sequence
  <2> QED BY <1>1, <2>1, MaxChangesAssumption, ChainInvHeld DEF StartOver
<1>2. ASSUME NEW predecessor \in 0..Len(written), Write(predecessor) PROVE ChainInv'
  BY <1>2, ChainInvWrite
<1>3. ASSUME NEW n \in DOMAIN written, Receive(n) PROVE ChainInv'
  <2> DEFINE read == from_str(to_string(written[n].record))
  <2>1. /\ IsRecord(read)
        /\ read.dsse_envelope \in {None, written[n].record.dsse_envelope}
    BY ReadFromJson DEF ChainInv, AsWritten
  <2>2. held' = Append(held, read) /\ written' = written /\ changes' = changes
    BY <1>3 DEF Receive
  <2> HIDE DEF read
  <2>0. PICK last \in Nat : last = Len(held) + 1
    BY <1>0
  <2>3. /\ Sequence(held') /\ DOMAIN held' = 1..last
        /\ \A i \in 1..Len(held) : held'[i] = held[i]
        /\ held'[last] = read
    BY <1>0, <2>2, <2>0, AppendSequence
  <2>4. AsHeld(last)'
    BY <2>1, <2>2, <2>3 DEF AsHeld
  <2>5. \A i \in 1..last : i \in 1..Len(held) \/ i = last
    BY <1>0, <2>0
  <2> QED BY <1>0, <2>2, <2>3, <2>4, <2>5, ChainInvHeld
<1>4. ASSUME NEW i \in DOMAIN held, Alter(i) PROVE ChainInv'
  <2>1. PICK record \in Altered(held[i]) : held' = [held EXCEPT ![i] = record]
    BY <1>4 DEF Alter
  <2>2. IsRecord(held[i])
    BY DEF ChainInv, AsHeld
  <2>3. IsRecord(record) /\ record.dsse_envelope = held[i].dsse_envelope
    <3>1. CASE record = [held[i] EXCEPT !.actions = << >>]
      BY <2>2, <3>1 DEF IsRecord, Fields, Required, Optional
    <3>2. ASSUME NEW extra, DOMAIN extra \subseteq {"prev_record_hash"},
                 record = [held[i] EXCEPT !.extra = extra]
          PROVE  IsRecord(record) /\ record.dsse_envelope = held[i].dsse_envelope
      BY <2>2, <3>2 DEF IsRecord, Fields, Required, Optional
    <3>3. DOMAIN << >> \subseteq {"prev_record_hash"}
      OBVIOUS
    <3>4. \A hash : DOMAIN [prev_record_hash |-> hash] \subseteq {"prev_record_hash"}
      OBVIOUS
    <3> QED BY <3>1, <3>2, <3>3, <3>4 DEF Altered
  <2>4. written' = written /\ changes' \in 0..MaxChanges
    BY <1>0, <1>4, MaxChangesAssumption DEF Alter
  <2>5. /\ Sequence(held') /\ DOMAIN held' = DOMAIN held
        /\ \A j \in DOMAIN held : held'[j] = IF j = i THEN record ELSE held[j]
    BY <1>0, <2>1, ReplaceInSequence
  <2>6. AsHeld(i)'
    BY <2>3, <2>4, <2>5 DEF ChainInv, AsHeld
  <2> QED BY <2>4, <2>5, <2>6, ChainInvHeld
<1>5. ASSUME NEW i \in DOMAIN held, Resign(i) PROVE ChainInv'
  <2> DEFINE record == sign_record_dsse(held[i], Notary)
  <2>1. IsRecord(held[i])
    BY DEF ChainInv, AsHeld
  <2>2. /\ IsRecord(record)
        /\ record.dsse_envelope \in {held[i].dsse_envelope, made_for(held[i], Notary)}
    BY <2>1, ResigningKeepsLink, SigningAttaches DEF IsRecord
  <2>3. /\ held' = [held EXCEPT ![i] = record]
        /\ written' = written /\ changes' \in 0..MaxChanges
    BY <1>0, <1>5, MaxChangesAssumption DEF Resign
  <2> HIDE DEF record
  <2>4. /\ Sequence(held') /\ DOMAIN held' = DOMAIN held
        /\ \A j \in DOMAIN held : held'[j] = IF j = i THEN record ELSE held[j]
    BY <1>0, <2>3, ReplaceInSequence
  <2>5. AsHeld(i)'
    BY <2>2, <2>3, <2>4 DEF ChainInv, AsHeld
  <2> QED BY <2>3, <2>4, <2>5, ChainInvHeld
<1>6. CASE UNCHANGED vars
  BY <1>0, <1>6, ChainInvHeld DEF vars
<1> QED BY <1>1, <1>2, <1>3, <1>4, <1>5, <1>6 DEF Next

LEMMA InductiveChain == Spec => []ChainInv
<1> QED BY ChainInvInit, ChainInvNext, PTL DEF Spec

\* Records keep the fields of the struct, whatever is done to them, and links
\* stay where deserialization puts them.
THEOREM ChainTypeCorrect == Spec => []TypeOK
<1>1. ChainInv => TypeOK
  BY DEF ChainInv, AsWritten, AsHeld, IsRecord, TypeOK, Fields
<1> QED BY <1>1, InductiveChain, PTL

-----------------------------------------------------------------------------
(* What no step does *)

\* Signing a record again changes no verdict on a chain it is in.
THEOREM SigningAlwaysKeepsChain == Spec => SigningKeepsChain
<1>1. ASSUME ChainInv, NEW i \in DOMAIN held, Resign(i)
      PROVE  chain_status(held') = chain_status(held)
  <2> DEFINE record == sign_record_dsse(held[i], Notary)
  <2>1. Sequence(held) /\ IsRecord(held[i])
    BY <1>1 DEF ChainInv, AsHeld
  <2>2. link(record) = link(held[i]) /\ record_hash(record) = record_hash(held[i])
    BY <2>1, ResigningKeepsLink
  <2>3. held' = [held EXCEPT ![i] = record]
    BY <1>1 DEF Resign
  <2> HIDE DEF record
  <2>4. /\ Sequence(held') /\ Len(held') = Len(held)
        /\ \A j \in DOMAIN held : held'[j] = IF j = i THEN record ELSE held[j]
    <3>1. Sequence(held)
      BY <2>1
    <3>2. Len(held') = Len(held)
      BY <2>3, <3>1, ReplaceInSequence
    <3>3. Sequence(held')
      BY <2>3, <3>1, ReplaceInSequence
    <3>4. \A j \in DOMAIN held : held'[j] = IF j = i THEN record ELSE held[j]
      BY <2>3, <3>1, ReplaceInSequence
    <3> QED BY <3>2, <3>3, <3>4
  <2>5. PICK S, T : held \in Seq(S) /\ held' \in Seq(T)
    BY <2>1, <2>4 DEF Sequence
  <2>6. held \in Seq(S \cup T) /\ held' \in Seq(S \cup T)
    BY <2>5, SeqMonotonic
  <2>7. \A j \in 1..Len(held) : /\ link(held[j]) = link(held'[j])
                                /\ record_hash(held[j]) = record_hash(held'[j])
    BY <2>2, <2>4, <2>5
  <2> QED BY <2>4, <2>6, <2>7, VerdictOfLinks
<1>2. ChainInv /\ [Next]_vars =>
          [(\E i \in DOMAIN held : Resign(i))
               => chain_status(held') = chain_status(held)]_vars
  BY <1>1
<1> QED BY <1>2, InductiveChain, PTL DEF Spec, SigningKeepsChain

\* One more record takes no "broken" back, and makes a chain intact only if it
\* was, or if it is the second.
LEMMA VerdictOfOneMore ==
  ASSUME NEW records, Sequence(records), NEW record,
         NEW longer, longer = Append(records, record)
  PROVE  /\ chain_status(records) = "broken" => chain_status(longer) = "broken"
         /\ chain_status(longer) = "intact" =>
                \/ chain_status(records) = "intact"
                \/ Len(records) = 1 /\ chain_status(records) = "not-present"
<1>1. /\ Sequence(longer) /\ Len(records) \in Nat /\ Len(longer) = Len(records) + 1
      /\ \A i \in 1..Len(records) : longer[i] = records[i]
  BY AppendSequence
<1>2. PICK S, T : records \in Seq(S) /\ longer \in Seq(T)
  BY <1>1 DEF Sequence
<1>3. CASE Len(records) >= 2
  <2>1. Len(longer) >= 2 /\ longer[1] = records[1]
    BY <1>1, <1>3
  <2>2. /\ is_broken(records) => is_broken(longer)
        /\ gaps(records) \subseteq gaps(longer)
    <3>1. \A i \in 2..Len(records) :
              /\ i \in 2..Len(longer)
              /\ longer[i] = records[i] /\ longer[i - 1] = records[i - 1]
      BY <1>1
    <3> QED BY <3>1 DEF is_broken, gaps
  <2>3. /\ chain_status(records) = "broken" <=> is_broken(records)
        /\ chain_status(records) \in {"intact", "orphaned"} <=>
               ~is_broken(records) /\ gaps(records) = {}
        /\ chain_status(records) \in {"intact", "orphaned"} =>
               (chain_status(records) = "intact" <=> link(records[1]) = None)
    BY <1>2, <1>3, VerdictOfMany
  <2>4. /\ chain_status(longer) = "broken" <=> is_broken(longer)
        /\ chain_status(longer) \in {"intact", "orphaned"} <=>
               ~is_broken(longer) /\ gaps(longer) = {}
        /\ chain_status(longer) \in {"intact", "orphaned"} =>
               (chain_status(longer) = "intact" <=> link(longer[1]) = None)
    BY <1>2, <2>1, VerdictOfMany
  <2> QED BY <2>1, <2>2, <2>3, <2>4
<1>4. CASE Len(records) = 1
  <2>1. Len(longer) >= 2 /\ longer[1] = records[1] /\ records # << >>
    BY <1>1, <1>2, <1>4, EmptySeq
  <2>2. chain_status(records) = IF link(records[1]) # None THEN "orphaned" ELSE "not-present"
    BY <1>4, <2>1 DEF chain_status
  <2>3. chain_status(longer) = "intact" => link(longer[1]) = None
    BY <1>2, <2>1, VerdictOfMany
  <2> QED BY <1>4, <2>1, <2>2, <2>3
<1>5. CASE Len(records) = 0
  <2>1. Len(longer) <= 1 /\ Len(records) <= 1
    BY <1>1, <1>5
  <2>2. /\ chain_status(longer) \in {"orphaned", "not-present"}
        /\ chain_status(records) \in {"orphaned", "not-present"}
    BY <2>1 DEF chain_status
  <2> QED BY <2>2
<1> QED BY <1>1, <1>3, <1>4, <1>5

\* A mismatch stays visible, however the chain is continued.
THEOREM TamperingAlwaysStaysVisible == Spec => TamperingStaysVisible
<1>1. ASSUME ChainInv, [Next]_vars, Len(held') > Len(held)
      PROVE  \E record : held' = Append(held, record)
  <2>1. Sequence(held) /\ Len(held) \in Nat
    BY <1>1, AppendSequence DEF ChainInv
  <2>2. ~StartOver
    <3>1. Len(<< >>) = 0
      OBVIOUS
    <3> QED BY <1>1, <2>1, <3>1 DEF StartOver
  <2>3. held' # held
    BY <1>1, <2>1
  <2>4. \A i \in DOMAIN held : \A record : held' # [held EXCEPT ![i] = record]
    <3>1. ASSUME NEW i \in DOMAIN held, NEW record, held' = [held EXCEPT ![i] = record]
          PROVE  Len(held') = Len(held)
      BY <2>1, <3>1, ReplaceInSequence
    <3> QED BY <1>1, <2>1, <3>1
  <2>5. PICK n \in DOMAIN written : Receive(n)
    BY <1>1, <2>2, <2>3, <2>4 DEF Next, Write, Alter, Resign, vars
  <2> QED BY <2>5 DEF Receive
<1>2. ASSUME ChainInv, [Next]_vars, Len(held') > Len(held)
      PROVE  /\ chain_status(held) = "broken" => chain_status(held') = "broken"
             /\ chain_status(held') = "intact" =>
                    \/ chain_status(held) = "intact"
                    \/ Len(held) = 1 /\ chain_status(held) = "not-present"
  BY <1>1, <1>2, VerdictOfOneMore DEF ChainInv
<1>3. ChainInv /\ [Next]_vars =>
          [Len(held') > Len(held) =>
               /\ chain_status(held) = "broken" => chain_status(held') = "broken"
               /\ chain_status(held') = "intact" =>
                      \/ chain_status(held) = "intact"
                      \/ Len(held) = 1 /\ chain_status(held) = "not-present"]_vars
  BY <1>2
<1> QED BY <1>3, InductiveChain, PTL DEF Spec, TamperingStaysVisible

-----------------------------------------------------------------------------
(* What an unbroken chain says *)

\* A digest is a string, so it is neither an absent field nor a null.
HashesAreValues == \A bytes : sha256_hex(bytes) \notin {None, JsonNull}

\* The contents of a record that is held are those of the n-th written.
Matches(i, n) == predicate_of(held[i]) = predicate_of(written[n].record)

\* The link of a record that was written is the hash of its predecessor.
LEMMA WrittenLink ==
  ASSUME HashesAreValues, ChainInv, NEW n \in DOMAIN written
  PROVE  /\ written[n].predecessor = 0 <=> link(written[n].record) = None
         /\ written[n].predecessor # 0 =>
                /\ written[n].predecessor \in DOMAIN written
                /\ link(written[n].record) =
                       record_hash(written[written[n].predecessor].record)
<1>1. AsWritten(n) /\ DOMAIN written = 1..Len(written) /\ Len(written) \in Nat
  BY AppendSequence DEF ChainInv
<1>2. CASE written[n].predecessor = 0
  BY <1>1, <1>2 DEF AsWritten
<1>3. CASE written[n].predecessor # 0
  <2> DEFINE hash == record_hash(written[written[n].predecessor].record)
  <2>1. written[n].record.extra = [prev_record_hash |-> hash]
    BY <1>1, <1>3 DEF AsWritten
  <2>2. hash # None /\ hash # JsonNull
    BY DEF HashesAreValues, record_hash
  <2> HIDE DEF hash
  <2>3. link(written[n].record) = hash
    BY <2>1, <2>2 DEF link
  <2>4. written[n].predecessor \in DOMAIN written
    BY <1>1, <1>3 DEF AsWritten
  <2> QED BY <1>3, <2>2, <2>3, <2>4 DEF hash
<1> QED BY <1>2, <1>3

\* A record that is held matches one that was written, and one only.
LEMMA MatchedLink ==
  ASSUME ChainInv, NEW i \in DOMAIN held, NEW n \in DOMAIN written, Matches(i, n)
  PROVE  /\ link(held[i]) = link(written[n].record)
         /\ record_hash(held[i]) = record_hash(written[n].record)
         /\ \A m \in DOMAIN written : Matches(i, m) => m = n
<1>1. IsRecord(held[i]) /\ \A m \in DOMAIN written : AsWritten(m)
  BY DEF ChainInv, AsHeld
<1>2. /\ link(held[i]) = link(written[n].record)
      /\ record_hash(held[i]) = record_hash(written[n].record)
  BY <1>1, SameContents DEF Matches, AsWritten
<1>3. ASSUME NEW m \in DOMAIN written, Matches(i, m) PROVE m = n
  <2>1. written[m].record.actions = written[n].record.actions
    BY <1>1, <1>3, SameContents DEF Matches, AsWritten
  <2>2. <<m - 1>> = <<n - 1>>
    BY <1>1, <2>1 DEF AsWritten
  <2>3. m \in Nat /\ n \in Nat
    BY AppendSequence DEF ChainInv
  <2> QED BY <2>2, <2>3
<1> QED BY <1>2, <1>3

\* If the writer's signature verifies, the record is one of the writer's.
LEMMA AcceptedIsWritten ==
  ASSUME ChainInv, NEW i \in DOMAIN held, Accepts(held[i], Writer)
  PROVE  \E n \in DOMAIN written : Matches(i, n)
<1>1. AsHeld(i)
  BY DEF ChainInv
<1>2. held[i].dsse_envelope # None
  BY AcceptsMeans
<1>3. ASSUME NEW record, held[i].dsse_envelope = made_for(record, Notary) PROVE FALSE
  BY <1>3, AcceptsOnlyItsContents, KeysAssumption
<1>4. PICK n \in DOMAIN written : held[i].dsse_envelope = written[n].record.dsse_envelope
  BY <1>1, <1>2, <1>3 DEF AsHeld
<1>5. held[i].dsse_envelope = made_for(written[n].record, Writer)
  BY <1>4 DEF ChainInv, AsWritten
<1> QED BY <1>5, AcceptsOnlyItsContents DEF Matches

\* The last of a set of indices: what takes the place of an induction along
\* the chain.
LEMMA LastIndex ==
  ASSUME NEW n \in Nat, NEW S \in SUBSET (1..n), S # {}
  PROVE  \E last \in S : \A i \in S : i <= last
<1> DEFINE T == {n - i : i \in S}
<1>1. T \subseteq Nat /\ T # {}
  <2>1. \A i \in S : n - i \in Nat
    OBVIOUS
  <2> QED BY <2>1
<1>2. PICK x \in T : \A y \in T : ~ (<<y, x>> \in OpToRel(<, Nat))
  BY <1>1, NatLessThanWellFounded, WFMin
<1>3. \A y \in T : ~ (y < x)
  BY <1>1, <1>2 DEF OpToRel
<1>4. PICK last \in S : x = n - last
  OBVIOUS
<1>5. ASSUME NEW i \in S PROVE i <= last
  <2>1. ~ (n - i < n - last)
    BY <1>3, <1>4
  <2> QED BY <2>1
<1> QED BY <1>5

\* If a record matches one that was written and names the record before it,
\* that one matches the predecessor.
LEMMA MatchBefore ==
  ASSUME HashesAreValues, ChainInv, NEW i \in DOMAIN held, i - 1 \in DOMAIN held,
         link(held[i]) = record_hash(held[i - 1]), link(held[i]) # None,
         NEW n \in DOMAIN written, Matches(i, n)
  PROVE  /\ written[n].predecessor \in DOMAIN written
         /\ Matches(i - 1, written[n].predecessor)
<1> DEFINE predecessor == written[n].predecessor
<1>1. link(written[n].record) = record_hash(held[i - 1]) /\ link(written[n].record) # None
  BY MatchedLink
<1>2. predecessor \in DOMAIN written
      /\ record_hash(written[predecessor].record) = record_hash(held[i - 1])
  BY <1>1, WrittenLink
<1> QED BY <1>2, HashInjective DEF Matches, record_hash

\* Down from a record of the writer, every record of an unbroken chain is one.
LEMMA ChainOfWritten ==
  ASSUME HashesAreValues, ChainInv, Len(held) >= 2,
         ~is_broken(held), gaps(held) = {},
         \E n \in DOMAIN written : Matches(Len(held), n)
  PROVE  \A i \in 1..Len(held) : \E n \in DOMAIN written : Matches(i, n)
<1>1. Len(held) \in Nat /\ DOMAIN held = 1..Len(held)
  BY AppendSequence DEF ChainInv
<1> DEFINE Unmatched == {i \in 1..Len(held) : ~ \E n \in DOMAIN written : Matches(i, n)}
<1> SUFFICES ASSUME Unmatched # {} PROVE FALSE
  OBVIOUS
<1>2. PICK last \in Unmatched : \A i \in Unmatched : i <= last
  BY <1>1, LastIndex
<1>3. last # Len(held)
  OBVIOUS
<1>4. last + 1 \in 2..Len(held) /\ last + 1 \notin Unmatched /\ last \in 1..Len(held)
  <2>1. last \in 1..Len(held)
    OBVIOUS
  <2> HIDE DEF Unmatched
  <2>2. last + 1 \notin Unmatched
    <3>1. ~ (last + 1 <= last)
      BY <1>1, <2>1
    <3> QED BY <1>2, <3>1
  <2>3. last + 1 \in 2..Len(held)
    <3>1. Len(held) \in Nat
      BY <1>1
    <3>2. last \in Nat /\ last >= 1 /\ last <= Len(held)
      BY <2>1, <3>1
    <3>3. last < Len(held)
      BY <1>3, <3>1, <3>2
    <3> QED BY <3>1, <3>2, <3>3
  <2> QED BY <2>1, <2>2, <2>3
<1>5. PICK n \in DOMAIN written : Matches(last + 1, n)
  BY <1>1, <1>4
<1>6. /\ link(held[last + 1]) = record_hash(held[last + 1 - 1])
      /\ link(held[last + 1]) # None
  BY <1>4, UnbrokenLinks
<1>7. last + 1 \in DOMAIN held /\ last + 1 - 1 = last
  BY <1>1, <1>4
<1>8. \E m \in DOMAIN written : Matches(last, m)
  BY <1>1, <1>4, <1>5, <1>6, <1>7, MatchBefore
<1> QED BY <1>8

\* Two or more records that are linked without a gap, under one signature of
\* the writer over the last, are what was written, in that order.
THEOREM LastSignatureAlwaysCommits ==
  ASSUME HashesAreValues PROVE Spec => []LastSignatureCommits
<1>1. ChainInv => LastSignatureCommits
  <2> SUFFICES ASSUME ChainInv, Len(held) >= 2,
                      chain_status(held) \in {"intact", "orphaned"},
                      Accepts(held[Len(held)], Writer)
               PROVE  \E path \in Paths(held) :
                          (chain_status(held) = "intact")
                              <=> (written[path[1]].predecessor = 0)
    BY DEF LastSignatureCommits
  <2>1. Len(held) \in Nat /\ DOMAIN held = 1..Len(held)
    BY AppendSequence DEF ChainInv
  <2>2. PICK S : held \in Seq(S)
    BY DEF ChainInv, Sequence
  <2>3. /\ ~is_broken(held) /\ gaps(held) = {}
        /\ chain_status(held) = "intact" <=> link(held[1]) = None
    BY <2>2, VerdictOfMany
  <2>4. \A i \in 1..Len(held) : \E n \in DOMAIN written : Matches(i, n)
    BY <2>1, <2>3, AcceptedIsWritten, ChainOfWritten
  <2> DEFINE path == [i \in 1..Len(held) |-> CHOOSE n \in DOMAIN written : Matches(i, n)]
  <2>5. /\ path \in [1..Len(held) -> DOMAIN written]
        /\ \A i \in 1..Len(held) : path[i] \in DOMAIN written /\ Matches(i, path[i])
    BY <2>4
  <2> HIDE DEF path
  <2>6. ASSUME NEW i \in 2..Len(held)
        PROVE  written[path[i]].predecessor = path[i - 1]
    <3>1. i \in DOMAIN held /\ i - 1 \in DOMAIN held
      BY <2>1
    <3>2. link(held[i]) = record_hash(held[i - 1]) /\ link(held[i]) # None
      BY <2>3, UnbrokenLinks
    <3>3. /\ written[path[i]].predecessor \in DOMAIN written
          /\ Matches(i - 1, written[path[i]].predecessor)
      BY <2>1, <2>5, <3>1, <3>2, MatchBefore
    <3> QED BY <2>1, <2>5, <3>1, <3>3, MatchedLink
  <2>7. path \in Paths(held)
    BY <2>5, <2>6 DEF Paths, IsPath, Matches
  <2>8. link(held[1]) = None <=> written[path[1]].predecessor = 0
    BY <2>1, <2>5, MatchedLink, WrittenLink
  <2> QED BY <2>3, <2>7, <2>8
<1> QED BY <1>1, InductiveChain, PTL

\* What was written and is held unaltered raises no alarm.
THEOREM PathsAlwaysAccepted ==
  ASSUME HashesAreValues PROVE Spec => []PathsAreAccepted
<1>1. ChainInv => PathsAreAccepted
  <2> SUFFICES ASSUME ChainInv, Len(held) >= 2, NEW path \in Paths(held)
               PROVE  chain_status(held) =
                          IF written[path[1]].predecessor = 0
                          THEN "intact" ELSE "orphaned"
    BY DEF PathsAreAccepted
  <2>1. Len(held) \in Nat /\ DOMAIN held = 1..Len(held)
    BY AppendSequence DEF ChainInv
  <2>2. PICK S : held \in Seq(S)
    BY DEF ChainInv, Sequence
  <2>3. /\ \A i \in 1..Len(held) : path[i] \in DOMAIN written /\ Matches(i, path[i])
        /\ \A i \in 2..Len(held) : written[path[i]].predecessor = path[i - 1]
    BY DEF Paths, IsPath, Matches
  <2>4. ASSUME NEW i \in 2..Len(held)
        PROVE  link(held[i]) # None /\ link(held[i]) = record_hash(held[i - 1])
    <3>1. /\ i \in DOMAIN held /\ i - 1 \in DOMAIN held
          /\ path[i] \in DOMAIN written /\ path[i - 1] \in DOMAIN written
      BY <2>1, <2>3
    <3>2. path[i - 1] # 0
      BY <3>1, AppendSequence DEF ChainInv
    <3>3. link(held[i]) = record_hash(written[path[i - 1]].record)
      BY <2>1, <2>3, <3>1, <3>2, MatchedLink, WrittenLink
    <3>4. link(held[i]) # None
      BY <3>3 DEF HashesAreValues, record_hash
    <3> QED BY <2>1, <2>3, <3>1, <3>3, <3>4, MatchedLink
  <2>5. ~is_broken(held) /\ gaps(held) = {}
    BY <2>4 DEF is_broken, gaps
  <2>6. link(held[1]) = None <=> written[path[1]].predecessor = 0
    BY <2>1, <2>3, MatchedLink, WrittenLink
  <2> QED BY <2>2, <2>5, <2>6, VerdictOfMany
<1> QED BY <1>1, InductiveChain, PTL
=============================================================================
