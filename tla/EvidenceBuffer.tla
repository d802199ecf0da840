--------------------------- MODULE EvidenceBuffer ----------------------------
(***************************************************************************)
(* The bounded FIFO of in-flight evidence: EvidenceBuffer in               *)
(* crates/proxy-wasm-evidence/src/recorder.rs, as operators on a record    *)
(* with the fields of the struct.                                          *)
(***************************************************************************)
EXTENDS Integers, Sequences

Buffer(Entry) == [entries       : Seq(Entry),
                  capacity      : Nat \ {0},
                  dropped_total : Nat]

\* EvidenceBuffer::new asserts capacity > 0; callers guard that themselves.
new_buffer(capacity) ==
    [entries |-> << >>, capacity |-> capacity, dropped_total |-> 0]

\* Mutant: full only once it is over its capacity.
is_full_OffByOne(buf) == Len(buf.entries) > buf.capacity

is_full(buf) == Len(buf.entries) >= buf.capacity

\* Mutant: the newest entry is given up.
displaced_Newest(buf) ==
    IF is_full(buf) THEN <<buf.entries[Len(buf.entries)]>> ELSE << >>

\* What push returns: the entry it displaces, if any, as a sequence.
displaced(buf) == IF is_full(buf) THEN <<Head(buf.entries)>> ELSE << >>

\* Mutant: what is displaced is not counted.
push_Uncounted(buf, entry) ==
    [buf EXCEPT !.entries = Append(IF is_full(buf) THEN Tail(@) ELSE @, entry)]

\* Mutant: the count goes the wrong way.
push_CountsDown(buf, entry) ==
    [buf EXCEPT !.entries = Append(IF is_full(buf) THEN Tail(@) ELSE @, entry),
                !.dropped_total = IF is_full(buf) THEN @ - 1 ELSE @]

\* A full buffer gives up its oldest entry and counts it as dropped.
push(buf, entry) ==
    [buf EXCEPT !.entries = Append(IF is_full(buf) THEN Tail(@) ELSE @, entry),
                !.dropped_total = IF is_full(buf) THEN @ + 1 ELSE @]

\* Mutant: one entry too few is removed.
drain_KeepsOne(buf) ==
    [buf EXCEPT !.entries = IF Len(@) > 1 THEN <<@[Len(@)]>> ELSE << >>]

\* drain(..) empties the deque and leaves the drop count alone; the caller
\* receives the entries that were in it.
drain(buf) == [buf EXCEPT !.entries = << >>]
=============================================================================
