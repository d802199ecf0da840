------------------------- MODULE BufferLedgerProofs --------------------------
(***************************************************************************)
(* Theorems about EvidenceBuffer: for every capacity, and however many     *)
(* entries are pushed and drained.                                         *)
(***************************************************************************)
EXTENDS BufferLedger, SequenceTheorems, TLAPS

\* A push with room to spare appends and displaces nothing.
LEMMA PushWithRoom ==
  ASSUME NEW b \in Buffer(Nat), NEW entry \in Nat, ~is_full(b),
         NEW q, q = push(b, entry)
  PROVE  /\ q \in Buffer(Nat) /\ q.capacity = b.capacity
         /\ q.dropped_total = b.dropped_total
         /\ Len(b.entries) < b.capacity
         /\ Len(q.entries) = Len(b.entries) + 1
         /\ \A i \in 1..(Len(b.entries) + 1) :
                q.entries[i] = IF i = Len(b.entries) + 1 THEN entry ELSE b.entries[i]
         /\ displaced(b) = << >>
<1>1. b.entries \in Seq(Nat) /\ b.capacity \in Nat
  BY DEF Buffer
<1>2. /\ q.entries = Append(b.entries, entry)
      /\ q.capacity = b.capacity
      /\ q.dropped_total = b.dropped_total
  BY DEF push, Buffer
<1>3. Append(b.entries, entry) \in Seq(Nat)
  BY <1>1
<1>4. q \in Buffer(Nat)
  BY <1>3 DEF push, Buffer
<1>5. Len(b.entries) < b.capacity
  BY <1>1 DEF is_full
<1>6. /\ Len(q.entries) = Len(b.entries) + 1
      /\ \A i \in 1..(Len(b.entries) + 1) :
             q.entries[i] = IF i = Len(b.entries) + 1 THEN entry ELSE b.entries[i]
  BY <1>1, <1>2
<1> QED BY <1>2, <1>4, <1>5, <1>6 DEF displaced

\* A push into a full buffer shifts the contents by one and counts the drop.
LEMMA PushWhenFull ==
  ASSUME NEW b \in Buffer(Nat), NEW entry \in Nat, is_full(b),
         Len(b.entries) <= b.capacity, NEW q, q = push(b, entry)
  PROVE  /\ q \in Buffer(Nat) /\ q.capacity = b.capacity
         /\ q.dropped_total = b.dropped_total + 1
         /\ Len(q.entries) = Len(b.entries)
         /\ \A i \in 1..Len(b.entries) :
                q.entries[i] = IF i = Len(b.entries) THEN entry ELSE b.entries[i + 1]
         /\ displaced(b) \in Seq(Nat) /\ Len(displaced(b)) = 1
<1>1. /\ b.entries \in Seq(Nat) /\ b.capacity \in Nat \ {0}
      /\ Len(b.entries) \in Nat
  BY DEF Buffer
<1>2. Len(b.entries) = b.capacity /\ Len(b.entries) > 0
  BY <1>1 DEF is_full
<1>3. /\ Tail(b.entries) \in Seq(Nat) /\ Len(Tail(b.entries)) = Len(b.entries) - 1
      /\ \A i \in 1..(Len(b.entries) - 1) : Tail(b.entries)[i] = b.entries[i + 1]
  BY <1>1, <1>2
<1>4. /\ q.entries = Append(Tail(b.entries), entry)
      /\ q.capacity = b.capacity
      /\ q.dropped_total = b.dropped_total + 1
  BY DEF push, Buffer
<1>5. Append(Tail(b.entries), entry) \in Seq(Nat)
  BY <1>3
<1>6. q \in Buffer(Nat)
  <2> DEFINE entries == Append(Tail(b.entries), entry)
             dropped == b.dropped_total + 1
  <2>1. q = [b EXCEPT !.entries = entries, !.dropped_total = dropped]
    BY DEF push, Buffer
  <2>2. entries \in Seq(Nat) /\ dropped \in Nat
    BY <1>5 DEF Buffer
  <2> HIDE DEF entries, dropped
  <2> QED BY <2>1, <2>2 DEF Buffer
<1>7. /\ Len(q.entries) = Len(b.entries)
      /\ \A i \in 1..Len(b.entries) :
             q.entries[i] = IF i = Len(b.entries) THEN entry ELSE b.entries[i + 1]
  BY <1>1, <1>2, <1>3, <1>4
<1>8. displaced(b) = <<b.entries[1]>> /\ b.entries[1] \in Nat
  BY <1>1, <1>2 DEF displaced
<1> QED BY <1>4, <1>6, <1>7, <1>8

\* drain leaves the capacity and the count, and nothing else.
LEMMA DrainFacts ==
  ASSUME NEW b \in Buffer(Nat)
  PROVE  /\ drain(b) \in Buffer(Nat)
         /\ drain(b).entries = << >>
         /\ drain(b).capacity = b.capacity
         /\ drain(b).dropped_total = b.dropped_total
<1>1. << >> \in Seq(Nat)
  OBVIOUS
<1> QED BY <1>1 DEF drain, Buffer

\* NothingLostSilently is not inductive without the bound on the contents,
\* which says that one entry at most is displaced by a push.
IInv == TypeOK /\ HoldsTheNewest /\ NothingLostSilently

LEMMA IInvInit == Init => IInv
<1> SUFFICES ASSUME Init PROVE IInv
  OBVIOUS
<1>1. PICK capacity \in Capacities : buf = new_buffer(capacity)
  BY DEF Init
<1>2. buf = [entries |-> << >>, capacity |-> capacity, dropped_total |-> 0]
      /\ capacity \in Nat \ {0}
  BY <1>1, CapacitiesAssumption DEF new_buffer
<1>3. buf \in Buffer(Nat) /\ Len(buf.entries) = 0
  BY <1>2 DEF Buffer
<1> QED BY <1>2, <1>3 DEF Init, IInv, TypeOK, HoldsTheNewest, NothingLostSilently

LEMMA IInvNext == IInv /\ [Next]_vars => IInv'
<1> SUFFICES ASSUME IInv, [Next]_vars PROVE IInv'
  OBVIOUS
<1> DEFINE n == Len(buf.entries)
<1>1. /\ buf \in Buffer(Nat) /\ buf.entries \in Seq(Nat)
      /\ evicted \in Seq(Nat) /\ delivered \in Seq(Nat)
  BY DEF IInv, TypeOK, Buffer
<1>2. /\ n \in Nat /\ buf.capacity \in Nat /\ n <= buf.capacity /\ pushed \in Nat
  BY DEF IInv, TypeOK, HoldsTheNewest, Buffer
<1>3. \A i \in 1..n : buf.entries[i] = pushed - n + i
  BY DEF IInv, HoldsTheNewest
<1>4. /\ Len(delivered) \in Nat /\ Len(evicted) \in Nat
      /\ pushed = Len(delivered) + Len(evicted) + n
      /\ buf.dropped_total = Len(evicted)
  BY <1>1 DEF IInv, NothingLostSilently
<1>5. CASE Push
  <2>1. /\ pushed' = pushed + 1 /\ delivered' = delivered
        /\ evicted' = evicted \o displaced(buf)
    BY <1>5 DEF Push
  <2>2. buf' = push(buf, pushed + 1) /\ pushed + 1 \in Nat
    BY <1>2, <1>5 DEF Push
  <2>3. CASE is_full(buf)
    <3>1. /\ buf' \in Buffer(Nat) /\ buf'.capacity = buf.capacity
          /\ buf'.dropped_total = buf.dropped_total + 1
          /\ Len(buf'.entries) = n
          /\ displaced(buf) \in Seq(Nat) /\ Len(displaced(buf)) = 1
      BY <1>1, <1>2, <2>2, <2>3, PushWhenFull
    <3>1a. \A i \in 1..n :
              buf'.entries[i] = IF i = n THEN pushed + 1 ELSE buf.entries[i + 1]
      BY <1>1, <1>2, <2>2, <2>3, PushWhenFull
    <3> HIDE DEF n
    <3>2. evicted' \in Seq(Nat) /\ Len(evicted') = Len(evicted) + 1
      <4>1. /\ evicted \o displaced(buf) \in Seq(Nat)
            /\ Len(evicted \o displaced(buf)) = Len(evicted) + Len(displaced(buf))
        BY <1>1, <3>1, ConcatProperties
      <4> QED BY <2>1, <3>1, <4>1
    <3>3. TypeOK'
      BY <1>1, <2>1, <2>2, <3>1, <3>2 DEF TypeOK
    <3>4. ASSUME NEW i \in 1..n PROVE buf'.entries[i] = pushed' - n + i
      <4>1. CASE i = n
        BY <1>2, <2>1, <3>1a, <4>1
      <4>2. CASE i # n
        <5>1. buf'.entries[i] = buf.entries[i + 1]
          BY <3>1a, <4>2
        <5>2. i + 1 \in 1..n
          BY <1>2, <4>2
        <5>3. buf.entries[i + 1] = pushed - n + (i + 1)
          BY <1>3, <5>2
        <5> QED BY <1>2, <2>1, <5>1, <5>3
      <4> QED BY <4>1, <4>2
    <3>5. HoldsTheNewest'
      BY <1>2, <3>1, <3>4 DEF HoldsTheNewest
    <3>6. NothingLostSilently'
      BY <1>2, <1>4, <2>1, <3>1, <3>2 DEF NothingLostSilently
    <3> QED BY <3>3, <3>5, <3>6 DEF IInv
  <2>4. CASE ~is_full(buf)
    <3>1. /\ buf' \in Buffer(Nat) /\ buf'.capacity = buf.capacity
          /\ buf'.dropped_total = buf.dropped_total
          /\ n < buf.capacity
          /\ Len(buf'.entries) = n + 1
          /\ \A i \in 1..(n + 1) :
                 buf'.entries[i] = IF i = n + 1 THEN pushed + 1 ELSE buf.entries[i]
          /\ displaced(buf) = << >>
      BY <1>1, <2>2, <2>4, PushWithRoom
    <3>2. evicted' = evicted
      BY <1>1, <2>1, <3>1, ConcatEmptySeq
    <3> HIDE DEF n
    <3>3. TypeOK'
      BY <1>1, <2>1, <2>2, <3>1, <3>2 DEF TypeOK
    <3>4. \A i \in 1..(n + 1) : buf'.entries[i] = pushed' - (n + 1) + i
      BY <1>2, <1>3, <2>1, <3>1
    <3>5. HoldsTheNewest'
      BY <1>2, <3>1, <3>4 DEF HoldsTheNewest
    <3>6. NothingLostSilently'
      BY <1>2, <1>4, <2>1, <3>1, <3>2 DEF NothingLostSilently
    <3> QED BY <3>3, <3>5, <3>6 DEF IInv
  <2> QED BY <2>3, <2>4
<1>6. CASE Drain
  <2>1. /\ buf' = drain(buf) /\ delivered' = delivered \o buf.entries
        /\ pushed' = pushed /\ evicted' = evicted
    BY <1>6 DEF Drain
  <2>2. /\ buf' \in Buffer(Nat) /\ buf'.entries = << >>
        /\ buf'.capacity = buf.capacity
        /\ buf'.dropped_total = buf.dropped_total
    BY <1>1, <2>1, DrainFacts
  <2>3. delivered' \in Seq(Nat) /\ Len(delivered') = Len(delivered) + n
    BY <1>1, <2>1, ConcatProperties
  <2>4. Len(buf'.entries) = 0
    BY <2>2
  <2> HIDE DEF n
  <2>5. TypeOK'
    BY <1>1, <1>2, <2>1, <2>2, <2>3 DEF TypeOK
  <2>6. HoldsTheNewest'
    BY <1>2, <2>2, <2>4 DEF HoldsTheNewest
  <2>7. NothingLostSilently'
    BY <1>2, <1>4, <2>1, <2>2, <2>3, <2>4 DEF NothingLostSilently
  <2> QED BY <2>5, <2>6, <2>7 DEF IInv
<1>7. CASE UNCHANGED vars
  BY <1>7 DEF vars, IInv, TypeOK, HoldsTheNewest, NothingLostSilently
<1> QED BY <1>5, <1>6, <1>7 DEF Next

LEMMA Inductive == Spec => []IInv
<1> QED BY IInvInit, IInvNext, PTL DEF Spec

\* The buffer keeps the struct's shape and its counter stays a natural number,
\* whatever the capacity and the order of push and drain.
THEOREM BufferTypeCorrect == Spec => []TypeOK
<1>1. IInv => TypeOK
  BY DEF IInv
<1> QED BY <1>1, Inductive, PTL

\* Bounded, and exactly the newest entries in order, for every capacity.
THEOREM BufferHoldsTheNewest == Spec => []HoldsTheNewest
<1>1. IInv => HoldsTheNewest
  BY DEF IInv
<1> QED BY <1>1, Inductive, PTL

\* push and drain lose no entry that dropped_total does not count.
THEOREM DropsAreCounted == Spec => []NothingLostSilently
<1>1. IInv => NothingLostSilently
  BY DEF IInv
<1> QED BY <1>1, Inductive, PTL

-----------------------------------------------------------------------------
(* The order of what leaves the buffer *)

\* How many entries have left the buffer, one way or the other.
gone == pushed - Len(buf.entries)

\* What DeliversInOrder needs to be inductive: what left the buffer is older
\* than all that is in it; and while nothing was evicted, nothing is missing.
OrderInv ==
    /\ \A i \in 1..Len(evicted) : evicted[i] \in 1..gone
    /\ \A i \in 1..Len(delivered) : delivered[i] \in 1..gone
    /\ Increasing(evicted)
    /\ Increasing(delivered)
    /\ \A i \in 1..Len(evicted), j \in 1..Len(delivered) : evicted[i] # delivered[j]
    /\ evicted = << >> => \A i \in 1..Len(delivered) : delivered[i] = i

\* A sequence of numbers followed by greater ones stays increasing.
LEMMA ConcatIncreasing ==
  ASSUME NEW s \in Seq(Nat), NEW t \in Seq(Nat), Increasing(s), Increasing(t),
         \A i \in 1..Len(s), j \in 1..Len(t) : s[i] < t[j]
  PROVE  Increasing(s \o t)
<1>1. /\ Len(s) \in Nat /\ Len(t) \in Nat
      /\ Len(s \o t) = Len(s) + Len(t)
      /\ \A i \in 1..(Len(s) + Len(t)) :
             (s \o t)[i] = IF i <= Len(s) THEN s[i] ELSE t[i - Len(s)]
  BY ConcatProperties
<1> SUFFICES ASSUME NEW i \in 1..(Len(s) + Len(t)), NEW j \in 1..(Len(s) + Len(t)), i < j
             PROVE  (s \o t)[i] < (s \o t)[j]
  BY <1>1 DEF Increasing
<1>2. CASE j <= Len(s)
  <2>1. i \in 1..Len(s) /\ j \in 1..Len(s)
    BY <1>1, <1>2
  <2> QED BY <1>1, <1>2, <2>1 DEF Increasing
<1>3. CASE i <= Len(s) /\ ~(j <= Len(s))
  <2>1. i \in 1..Len(s) /\ j - Len(s) \in 1..Len(t)
    BY <1>1, <1>3
  <2> QED BY <1>1, <1>3, <2>1
<1>4. CASE ~(i <= Len(s))
  <2>1. /\ i - Len(s) \in 1..Len(t) /\ j - Len(s) \in 1..Len(t)
        /\ i - Len(s) < j - Len(s) /\ ~(j <= Len(s))
    BY <1>1, <1>4
  <2>2. t[i - Len(s)] < t[j - Len(s)]
    BY <2>1 DEF Increasing
  <2> QED BY <1>1, <1>4, <2>1, <2>2
<1> QED BY <1>1, <1>2, <1>3, <1>4

\* The buffer is in order: it holds consecutive numbers.
LEMMA EntriesIncrease ==
  ASSUME IInv
  PROVE  /\ buf.entries \in Seq(Nat) /\ Len(buf.entries) \in Nat
         /\ gone \in Nat /\ pushed = gone + Len(buf.entries)
         /\ gone = Len(delivered) + Len(evicted)
         /\ Increasing(buf.entries)
         /\ \A i \in 1..Len(buf.entries) : buf.entries[i] = gone + i
<1>1. /\ buf.entries \in Seq(Nat) /\ Len(buf.entries) \in Nat /\ pushed \in Nat
      /\ delivered \in Seq(Nat) /\ evicted \in Seq(Nat)
  BY DEF IInv, TypeOK, Buffer
<1>2. Len(delivered) \in Nat /\ Len(evicted) \in Nat
  BY <1>1
<1>3. gone = Len(delivered) + Len(evicted) /\ pushed = gone + Len(buf.entries)
  BY <1>1, <1>2 DEF IInv, NothingLostSilently, gone
<1>4. \A i \in 1..Len(buf.entries) : buf.entries[i] = gone + i
  BY <1>1 DEF IInv, HoldsTheNewest, gone
<1>5. Increasing(buf.entries)
  BY <1>1, <1>2, <1>3, <1>4 DEF Increasing
<1>6. gone \in Nat
  BY <1>2, <1>3
<1> QED BY <1>1, <1>3, <1>4, <1>5, <1>6

\* What a push evicts: nothing, or the oldest entry of a full buffer.
LEMMA Evictions ==
  ASSUME IInv, Push
  PROVE  /\ pushed' = pushed + 1 /\ delivered' = delivered
         /\ \/ evicted' = evicted /\ gone' = gone
            \/ /\ Len(buf.entries) = buf.capacity
               /\ evicted' = Append(evicted, gone + 1) /\ gone' = gone + 1
<1>1. /\ buf \in Buffer(Nat) /\ pushed + 1 \in Nat /\ pushed \in Nat
      /\ evicted \in Seq(Nat) /\ Len(buf.entries) <= buf.capacity
  BY DEF IInv, TypeOK, HoldsTheNewest
<1>2. /\ pushed' = pushed + 1 /\ buf' = push(buf, pushed + 1)
      /\ delivered' = delivered /\ evicted' = evicted \o displaced(buf)
  BY DEF Push
<1>3. /\ buf.entries \in Seq(Nat) /\ buf.capacity \in Nat \ {0}
      /\ Len(buf.entries) \in Nat
  BY <1>1 DEF Buffer
<1>4. CASE ~is_full(buf)
  <2>1. Len(buf'.entries) = Len(buf.entries) + 1 /\ displaced(buf) = << >>
    BY <1>1, <1>2, <1>4, PushWithRoom
  <2>2. evicted' = evicted
    BY <1>1, <1>2, <2>1, ConcatEmptySeq
  <2>3. gone' = gone
    <3>1. pushed' = pushed + 1 /\ Len(buf'.entries) = Len(buf.entries) + 1
      BY <1>2, <2>1
    <3>2. pushed \in Nat /\ Len(buf.entries) \in Nat
      BY <1>1, <1>3
    <3>3. gone' = pushed' - Len(buf'.entries)
      BY DEF gone
    <3> QED BY <3>1, <3>2, <3>3 DEF gone
  <2> QED BY <1>2, <2>2, <2>3
<1>5. CASE is_full(buf)
  <2>1. Len(buf'.entries) = Len(buf.entries)
    BY <1>1, <1>2, <1>5, PushWhenFull
  <2>2. Len(buf.entries) = buf.capacity /\ 1 \in 1..Len(buf.entries)
    BY <1>1, <1>3, <1>5 DEF is_full
  <2>3. displaced(buf) = <<buf.entries[1]>>
    BY <1>3, <1>5, <2>2 DEF displaced
  <2>4. buf.entries[1] = gone + 1 /\ gone \in Nat
    BY <2>2, EntriesIncrease
  <2>5. evicted' = Append(evicted, gone + 1)
    BY <1>1, <1>2, <2>3, <2>4
  <2>6. gone' = gone + 1
    <3>1. pushed' = pushed + 1 /\ Len(buf'.entries) = Len(buf.entries)
      BY <1>2, <2>1
    <3>2. pushed \in Nat /\ Len(buf.entries) \in Nat
      BY <1>1, <1>3
    <3>3. gone' = pushed' - Len(buf'.entries)
      BY DEF gone
    <3> QED BY <3>1, <3>2, <3>3 DEF gone
  <2> QED BY <1>2, <2>2, <2>5, <2>6
<1> QED BY <1>4, <1>5

LEMMA OrderInvInit == Init => OrderInv
BY DEF Init, OrderInv, Increasing

LEMMA OrderInvNext == IInv /\ OrderInv /\ [Next]_vars => OrderInv'
<1> SUFFICES ASSUME IInv, OrderInv, [Next]_vars PROVE OrderInv'
  OBVIOUS
<1>1. /\ gone \in Nat /\ pushed \in Nat
      /\ evicted \in Seq(Nat) /\ delivered \in Seq(Nat)
      /\ Len(evicted) \in Nat /\ Len(delivered) \in Nat
  BY EntriesIncrease DEF IInv, TypeOK
<1>2. CASE Push
  <2>1. CASE evicted' = evicted /\ gone' = gone /\ delivered' = delivered
    BY <2>1 DEF OrderInv, Increasing
  <2>2. CASE evicted' = Append(evicted, gone + 1) /\ gone' = gone + 1 /\ delivered' = delivered
    <3>1. /\ Len(evicted') = Len(evicted) + 1
          /\ \A i \in 1..Len(evicted) : evicted'[i] = evicted[i]
          /\ evicted'[Len(evicted) + 1] = gone + 1
          /\ evicted' # << >>
      BY <1>1, <2>2
    <3>2. \A i \in 1..(Len(evicted) + 1) :
              i \in 1..Len(evicted) \/ i = Len(evicted) + 1
      BY <1>1
    <3>3. \A i \in 1..Len(evicted') : evicted'[i] \in 1..gone'
      BY <1>1, <2>2, <3>1, <3>2 DEF OrderInv
    <3>4. \A i \in 1..Len(delivered') : delivered'[i] \in 1..gone'
      BY <1>1, <2>2 DEF OrderInv
    <3>5. Increasing(evicted')
      <4> SUFFICES ASSUME NEW i \in 1..(Len(evicted) + 1),
                          NEW j \in 1..(Len(evicted) + 1), i < j
                   PROVE  evicted'[i] < evicted'[j]
        BY <3>1 DEF Increasing
      <4>1. i \in 1..Len(evicted) /\ evicted[i] \in 1..gone
        BY <1>1, <3>2 DEF OrderInv
      <4>2. CASE j = Len(evicted) + 1
        BY <1>1, <3>1, <4>1, <4>2
      <4>3. CASE j \in 1..Len(evicted)
        BY <3>1, <4>1, <4>3 DEF OrderInv, Increasing
      <4> QED BY <3>2, <4>2, <4>3
    <3>6. \A i \in 1..Len(evicted'), j \in 1..Len(delivered') : evicted'[i] # delivered'[j]
      <4> SUFFICES ASSUME NEW i \in 1..(Len(evicted) + 1), NEW j \in 1..Len(delivered)
                   PROVE  evicted'[i] # delivered[j]
        BY <2>2, <3>1
      <4>1. delivered[j] \in 1..gone
        BY DEF OrderInv
      <4>2. CASE i \in 1..Len(evicted)
        <5>1. evicted'[i] = evicted[i]
          BY <3>1, <4>2
        <5>2. evicted[i] # delivered[j]
          BY <4>2 DEF OrderInv
        <5> QED BY <5>1, <5>2
      <4>3. CASE i = Len(evicted) + 1
        BY <1>1, <3>1, <4>1, <4>3
      <4> QED BY <3>2, <4>2, <4>3
    <3> QED BY <2>2, <3>1, <3>3, <3>4, <3>5, <3>6 DEF OrderInv, Increasing
  <2> QED BY <1>2, <2>1, <2>2, Evictions
<1>3. CASE Drain
  <2> DEFINE n == Len(buf.entries)
             d == Len(delivered)
  <2>1. /\ delivered' = delivered \o buf.entries
        /\ evicted' = evicted /\ pushed' = pushed
        /\ Len(buf'.entries) = 0
    BY <1>3, DrainFacts DEF Drain, IInv, TypeOK
  <2>2. /\ buf.entries \in Seq(Nat) /\ n \in Nat /\ pushed = gone + n
        /\ gone = d + Len(evicted) /\ Increasing(buf.entries)
        /\ \A i \in 1..n : buf.entries[i] = gone + i
    BY EntriesIncrease
  <2>3. gone' = pushed
    BY <1>1, <2>1 DEF gone
  <2>4. /\ Len(delivered') = d + n
        /\ \A i \in 1..(d + n) :
               delivered'[i] = IF i <= d THEN delivered[i] ELSE buf.entries[i - d]
    BY <1>1, <2>1, <2>2, ConcatProperties
  <2> HIDE DEF n, d
  <2>5. d \in Nat
    BY <1>1 DEF d
  <2>6. \A i \in 1..(d + n) :
            \/ i \in 1..d /\ delivered'[i] = delivered[i]
            \/ i \in (d + 1)..(d + n) /\ delivered'[i] = gone + (i - d)
    <3> SUFFICES ASSUME NEW i \in 1..(d + n), i > d
                 PROVE  delivered'[i] = gone + (i - d)
      BY <2>2, <2>4, <2>5
    <3>1. i - d \in 1..n /\ ~(i <= d)
      BY <2>2, <2>5
    <3> QED BY <2>2, <2>4, <3>1
  <2>7. \A i \in 1..d : delivered[i] \in 1..gone
    BY DEF OrderInv, d
  <2>8. \A i \in 1..Len(delivered') : delivered'[i] \in 1..gone'
    <3> SUFFICES ASSUME NEW i \in 1..(d + n) PROVE delivered'[i] \in 1..(gone + n)
      BY <2>2, <2>3, <2>4
    <3>1. CASE i \in 1..d /\ delivered'[i] = delivered[i]
      BY <1>1, <2>2, <2>7, <3>1
    <3>2. CASE i \in (d + 1)..(d + n) /\ delivered'[i] = gone + (i - d)
      BY <1>1, <2>2, <2>5, <3>2
    <3> QED BY <2>6, <3>1, <3>2
  <2>9. \A i \in 1..Len(evicted') : evicted'[i] \in 1..gone'
    BY <1>1, <2>1, <2>2, <2>3 DEF OrderInv
  <2>10. Increasing(delivered')
    <3>1. \A i \in 1..Len(delivered), j \in 1..Len(buf.entries) :
              delivered[i] < buf.entries[j]
      BY <1>1, <2>2, <2>7 DEF n, d
    <3>2. Increasing(delivered)
      BY DEF OrderInv
    <3> QED BY <1>1, <2>1, <2>2, <3>1, <3>2, ConcatIncreasing
  <2>11. Increasing(evicted')
    BY <2>1 DEF OrderInv, Increasing
  <2>12. \A i \in 1..Len(evicted'), j \in 1..Len(delivered') : evicted'[i] # delivered'[j]
    <3> SUFFICES ASSUME NEW i \in 1..Len(evicted), NEW j \in 1..(d + n)
                 PROVE  evicted[i] # delivered'[j]
      BY <2>1, <2>4
    <3>1. evicted[i] \in 1..gone
      BY DEF OrderInv
    <3>2. CASE j \in 1..d /\ delivered'[j] = delivered[j]
      BY <3>2 DEF OrderInv, d
    <3>3. CASE j \in (d + 1)..(d + n) /\ delivered'[j] = gone + (j - d)
      BY <1>1, <2>2, <2>5, <3>1, <3>3
    <3> QED BY <2>6, <3>2, <3>3
  <2>13. evicted' = << >> => \A i \in 1..Len(delivered') : delivered'[i] = i
    <3> SUFFICES ASSUME evicted = << >>, NEW i \in 1..(d + n) PROVE delivered'[i] = i
      BY <2>1, <2>4
    <3>1. gone = d
      BY <2>2, <2>5
    <3>2. \A k \in 1..d : delivered[k] = k
      BY DEF OrderInv, d
    <3> QED BY <2>2, <2>5, <2>6, <3>1, <3>2
  <2> QED BY <2>8, <2>9, <2>10, <2>11, <2>12, <2>13 DEF OrderInv
<1>4. CASE UNCHANGED vars
  BY <1>4 DEF vars, OrderInv, gone, Increasing
<1> QED BY <1>2, <1>3, <1>4 DEF Next

LEMMA InductiveOrder == Spec => [](IInv /\ OrderInv)
<1> QED BY Inductive, OrderInvInit, OrderInvNext, PTL DEF Spec

\* drain hands entries over in the order they were pushed, and never one that
\* push had evicted.
THEOREM DrainKeepsOrder == Spec => []DeliversInOrder
<1>1. IInv /\ OrderInv => DeliversInOrder
  <2> SUFFICES ASSUME IInv, OrderInv PROVE DeliversInOrder
    OBVIOUS
  <2>1. \A i \in 1..Len(delivered), j \in 1..Len(buf.entries) :
            delivered[i] < buf.entries[j]
    BY EntriesIncrease DEF OrderInv
  <2>2. Increasing(delivered \o buf.entries)
    BY <2>1, EntriesIncrease, ConcatIncreasing DEF IInv, TypeOK, OrderInv
  <2> QED BY <2>2 DEF DeliversInOrder, OrderInv
<1> QED BY <1>1, InductiveOrder, PTL

\* push returns an entry only when the buffer is full, and then the oldest.
THEOREM EvictionOnlyWhenFull == Spec => EvictsOnlyWhenFull
<1>1. ASSUME IInv, [Next]_vars, evicted' # evicted
      PROVE  /\ Len(evicted') = Len(evicted) + 1
             /\ evicted'[Len(evicted')] = pushed' - buf.capacity
  <2>1. Push
    BY <1>1 DEF Next, Drain, vars
  <2>2. /\ gone \in Nat /\ pushed \in Nat /\ buf.capacity \in Nat
        /\ pushed = gone + Len(buf.entries)
        /\ evicted \in Seq(Nat) /\ Len(evicted) \in Nat
    BY <1>1, EntriesIncrease DEF IInv, TypeOK, Buffer
  <2>3. /\ pushed' = pushed + 1 /\ Len(buf.entries) = buf.capacity
        /\ evicted' = Append(evicted, gone + 1)
    BY <1>1, <2>1, Evictions
  <2>4. Len(evicted') = Len(evicted) + 1 /\ evicted'[Len(evicted) + 1] = gone + 1
    BY <2>2, <2>3
  <2> QED BY <2>2, <2>3, <2>4
<1>2. IInv /\ [Next]_vars =>
          [evicted' # evicted =>
               /\ Len(evicted') = Len(evicted) + 1
               /\ evicted'[Len(evicted')] = pushed' - buf.capacity]_vars
  BY <1>1
<1> QED BY <1>2, Inductive, PTL DEF Spec, EvictsOnlyWhenFull
=============================================================================
