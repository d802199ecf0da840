---------------------------- MODULE BufferLedger -----------------------------
(***************************************************************************)
(* A client of EvidenceBuffer's public API (recorder.rs) keeping its books:*)
(* it numbers the evidence it pushes, keeps what push returns as evicted   *)
(* and what drain returns as delivered, in any order of calls.  The filter *)
(* uses one buffer per context and one push; this is the buffer used for   *)
(* as long as its bound was made for.                                      *)
(***************************************************************************)
EXTENDS EvidenceBuffer

CONSTANTS Capacities,   \* what EvidenceBuffer::new may be given
          MaxPushes     \* bound on the calls of push

ASSUME CapacitiesAssumption == Capacities \subseteq Nat \ {0}

VARIABLES buf,        \* the EvidenceBuffer
          pushed,     \* how many entries were pushed: their numbers
          evicted,    \* the entries push returned, oldest first
          delivered   \* the entries drain returned, oldest first

vars == <<buf, pushed, evicted, delivered>>

Init ==
    /\ \E capacity \in Capacities : buf = new_buffer(capacity)
    /\ pushed = 0
    /\ evicted = << >>
    /\ delivered = << >>

Push ==
    /\ pushed < MaxPushes
    /\ pushed' = pushed + 1
    /\ buf' = push(buf, pushed')
    /\ evicted' = evicted \o displaced(buf)
    /\ UNCHANGED delivered

Drain ==
    /\ buf' = drain(buf)
    /\ delivered' = delivered \o buf.entries
    /\ UNCHANGED <<pushed, evicted>>

Next == Push \/ Drain

Spec == Init /\ [][Next]_vars

-----------------------------------------------------------------------------

\* The buffer keeps the shape of the struct, its dropped_total a u64.
TypeOK ==
    /\ buf \in Buffer(Nat)
    /\ pushed \in Nat
    /\ evicted \in Seq(Nat)
    /\ delivered \in Seq(Nat)

\* Every entry pushed is still buffered, was delivered, or was evicted, and
\* dropped_total, the completeness signal, counts the evicted ones exactly:
\* capacity pressure never loses an entry silently, drains in between or not.
NothingLostSilently ==
    /\ pushed = Len(delivered) + Len(evicted) + Len(buf.entries)
    /\ buf.dropped_total = Len(evicted)

\* The buffer never outgrows the capacity it was made with, and holds exactly
\* the newest entries, in the order they were pushed: what makes eviction of
\* the front an eviction of the oldest.
HoldsTheNewest ==
    /\ Len(buf.entries) <= buf.capacity
    /\ \A i \in 1..Len(buf.entries) :
           buf.entries[i] = pushed - Len(buf.entries) + i

Increasing(seq) == \A i, j \in 1..Len(seq) : i < j => seq[i] < seq[j]

\* drain hands entries over in the order they were pushed, across any number
\* of drains and evictions, and never one that was evicted.
DeliversInOrder ==
    /\ Increasing(delivered \o buf.entries)
    /\ Increasing(evicted)
    /\ \A i \in 1..Len(evicted), j \in 1..Len(delivered) :
           evicted[i] # delivered[j]

\* Nothing is evicted before its time: push returns an entry only when
\* `capacity` newer ones, the pushed one included, are in the buffer.
EvictsOnlyWhenFull ==
    [][evicted' # evicted =>
           /\ Len(evicted') = Len(evicted) + 1
           /\ evicted'[Len(evicted')] = pushed' - buf.capacity]_vars
=============================================================================
