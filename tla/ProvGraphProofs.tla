-------------------------- MODULE ProvGraphProofs -----------------------------
(***************************************************************************)
(* The walk of ProvGraph::ancestors, proved correct on every graph: the    *)
(* sets of entities and activities may be of any size.                     *)
(***************************************************************************)
EXTENDS ProvGraph, SequenceTheorems, TLAPS

\* The edges of a graph lead to what they are typed to lead to.
LEMMA Edges ==
  ASSUME NEW g, IsGraph(g)
  PROVE  /\ \A e : producer(g, e) \in ActivityIds \cup {None}
         /\ \A a : used_by(g, a) \in Seq(EntityIds)
         /\ used_by(g, None) = << >>
<1>1. \A e : producer(g, e) \in ActivityIds \cup {None}
  BY DEF IsGraph, producer
<1>2. << >> \in Seq(EntityIds)
  OBVIOUS
<1>3. \A a : used_by(g, a) \in Seq(EntityIds)
  BY <1>2 DEF IsGraph, used_by
<1>4. None \notin DOMAIN g.activities
  BY NoneAssumption DEF IsGraph
<1> QED BY <1>1, <1>3, <1>4 DEF used_by

\* Popping a stack: what is left, and what it held.
LEMMA Popped ==
  ASSUME NEW S, NEW s \in Seq(S), s # << >>
  PROVE  /\ s[Len(s)] \in S
         /\ SubSeq(s, 1, Len(s) - 1) \in Seq(S)
         /\ Range(s) = Range(SubSeq(s, 1, Len(s) - 1)) \cup {s[Len(s)]}
<1>1. Len(s) \in Nat \ {0} /\ DOMAIN s = 1..Len(s)
  BY EmptySeq
<1> DEFINE p == SubSeq(s, 1, Len(s) - 1)
<1>2. /\ p \in Seq(S) /\ Len(p) = Len(s) - 1
      /\ \A i \in 1..(Len(s) - 1) : p[i] = s[i]
  BY <1>1, SubSeqProperties
<1>3. DOMAIN p = 1..(Len(s) - 1)
  BY <1>2
<1> HIDE DEF p
<1>4. Range(s) \subseteq Range(p) \cup {s[Len(s)]}
  <2> SUFFICES ASSUME NEW i \in 1..Len(s), i # Len(s)
               PROVE  s[i] \in Range(p)
    BY <1>1 DEF Range
  <2>1. i \in 1..(Len(s) - 1)
    <3>1. \A n \in Nat : \A k \in 1..n : k # n => k \in 1..(n - 1)
      OBVIOUS
    <3> QED BY <1>1, <3>1
  <2> QED BY <2>1, <1>2, <1>3 DEF Range
<1>5. Range(p) \cup {s[Len(s)]} \subseteq Range(s)
  <2>1. \A i \in 1..(Len(s) - 1) : i \in 1..Len(s)
    BY <1>1
  <2>2. Len(s) \in 1..Len(s)
    BY <1>1
  <2> QED BY <2>1, <2>2, <1>1, <1>2, <1>3 DEF Range
<1>6. s[Len(s)] \in S
  BY <1>1
<1> QED BY <1>2, <1>4, <1>5, <1>6 DEF p

\* A member appended to a sequence is added to its range.
LEMMA Appended ==
  ASSUME NEW S, NEW s \in Seq(S), NEW x \in S
  PROVE  /\ Append(s, x) \in Seq(S)
         /\ Range(Append(s, x)) = Range(s) \cup {x}
<1>1. /\ Append(s, x) \in Seq(S)
      /\ Len(Append(s, x)) = Len(s) + 1 /\ Len(s) \in Nat
      /\ \A i \in 1..Len(s) : Append(s, x)[i] = s[i]
      /\ Append(s, x)[Len(s) + 1] = x
  OBVIOUS
<1>2. DOMAIN Append(s, x) = 1..(Len(s) + 1) /\ DOMAIN s = 1..Len(s)
  BY <1>1
<1> QED BY <1>1, <1>2 DEF Range

\* The head taken off a sequence is taken out of its range.
LEMMA Taken ==
  ASSUME NEW S, NEW s \in Seq(S), s # << >>
  PROVE  /\ Head(s) \in S /\ Tail(s) \in Seq(S)
         /\ Range(s) = Range(Tail(s)) \cup {Head(s)}
<1>1. /\ Len(s) \in Nat \ {0} /\ DOMAIN s = 1..Len(s) /\ Head(s) = s[1]
      /\ Tail(s) \in Seq(S) /\ Len(Tail(s)) = Len(s) - 1
      /\ \A i \in 1..(Len(s) - 1) : Tail(s)[i] = s[i + 1]
  BY EmptySeq
<1>2. DOMAIN Tail(s) = 1..(Len(s) - 1)
  BY <1>1
<1>3. Range(s) \subseteq Range(Tail(s)) \cup {s[1]}
  <2> SUFFICES ASSUME NEW i \in 1..Len(s), i # 1
               PROVE  s[i] \in Range(Tail(s))
    BY <1>1 DEF Range
  <2>1. i - 1 \in 1..(Len(s) - 1) /\ Tail(s)[i - 1] = s[i]
    BY <1>1
  <2> QED BY <2>1, <1>2 DEF Range
<1>4. Range(Tail(s)) \cup {s[1]} \subseteq Range(s)
  <2> SUFFICES ASSUME NEW i \in 1..(Len(s) - 1) PROVE s[i + 1] \in Range(s)
    BY <1>1, <1>2 DEF Range
  <2> QED BY <1>1 DEF Range
<1> QED BY <1>1, <1>3, <1>4

LEMMA EmptyRange == Range(<< >>) = {}
BY DEF Range

-----------------------------------------------------------------------------

LEMMA WalkInvInit == Init => WalkInv
<1> SUFFICES ASSUME Init PROVE WalkInv
  OBVIOUS
<1> USE DEF Init
<1>1. Range(stack) = {start}
  BY DEF Range
<1>2. TypeOK
  <2>1. IsGraph(graph) BY GraphsAssumption
  <2>2. <<start>> \in Seq(EntityIds) /\ << >> \in Seq(EntityIds)
    OBVIOUS
  <2>3. << >> \in Seq(ActivityIds)
    OBVIOUS
  <2> QED BY <2>1, <2>2, <2>3 DEF TypeOK
<1>3. SeenIsUpstream
  BY EmptyRange DEF SeenIsUpstream, Closed
<1>4. Settled
  BY <1>1 DEF Settled
<1>5. Listed
  BY <1>1, EmptyRange DEF Listed
<1> QED BY <1>2, <1>3, <1>4, <1>5 DEF WalkInv

LEMMA WalkInvNext == WalkInv /\ [Next]_vars => WalkInv'
<1> SUFFICES ASSUME WalkInv, [Next]_vars PROVE WalkInv'
  OBVIOUS
<1> USE DEF WalkInv
<1>0. /\ IsGraph(graph)
      /\ \A e : producer(graph, e) \in ActivityIds \cup {None}
      /\ \A a : used_by(graph, a) \in Seq(EntityIds)
      /\ used_by(graph, None) = << >>
  BY Edges DEF TypeOK
<1>1. CASE Skip
  <2>1. /\ top \in EntityIds /\ popped \in Seq(EntityIds)
        /\ Range(stack) = Range(popped) \cup {top}
    BY <1>1, Popped DEF TypeOK, Skip, top, popped
  <2>2. producer(graph, top) \in seen_activities \cup {None}
    BY <1>1 DEF Skip, is_new
  <2>3. TypeOK'
    BY <1>1, <2>1 DEF TypeOK, Skip
  <2>4. SeenIsUpstream'
    BY <1>1 DEF SeenIsUpstream, Closed, Skip
  <2>5. Settled'
    BY <1>1, <2>1, <2>2 DEF Settled, Skip
  <2>6. Listed'
    BY <1>1, <2>1 DEF Listed, Skip
  <2> QED BY <2>3, <2>4, <2>5, <2>6
<1>2. CASE Discover
  <2> DEFINE a == producer(graph, top)
  <2>1. /\ top \in EntityIds /\ popped \in Seq(EntityIds)
        /\ Range(stack) = Range(popped) \cup {top}
    BY <1>2, Popped DEF TypeOK, Discover, top, popped
  <2>2. a \in ActivityIds
    BY <1>0, <1>2 DEF Discover, is_new
  <2>3. /\ used' = used_by(graph, a) /\ used' \in Seq(EntityIds)
        /\ seen_activities' = seen_activities \cup {a}
        /\ ancestors' = Append(ancestors, a)
        /\ stack' = popped
        /\ UNCHANGED <<graph, start, seen_entities>>
        /\ used = << >>
    BY <1>0, <1>2 DEF Discover, recorded
  <2>4. ancestors' \in Seq(ActivityIds) /\ Range(ancestors') = Range(ancestors) \cup {a}
    BY <2>2, <2>3, Appended DEF TypeOK
  <2>5. top \in seen_entities
    BY <2>1 DEF Listed
  <2> HIDE DEF a
  <2>6. TypeOK'
    BY <2>1, <2>2, <2>3, <2>4 DEF TypeOK
  <2>7. SeenIsUpstream'
    <3> SUFFICES ASSUME NEW E \in SUBSET EntityIds, Closed(E)
                 PROVE  seen_entities \subseteq E /\ Range(used_by(graph, a)) \subseteq E
      BY <2>3 DEF SeenIsUpstream, Closed
    <3>1. seen_entities \subseteq E
      BY DEF SeenIsUpstream
    <3>2. top \in E
      BY <2>5, <3>1
    <3> QED BY <3>1, <3>2 DEF Closed, a
  <2>8. Settled'
    <3>1. \A e \in seen_entities' :
              \/ e \in Range(stack')
              \/ producer(graph', e) \in seen_activities' \cup {None}
      BY <2>1, <2>3 DEF Settled, a
    <3>2. \A b \in seen_activities' :
              Range(used_by(graph', b)) \subseteq seen_entities' \cup Range(used')
      BY <2>3, EmptyRange DEF Settled
    <3> QED BY <2>3, <3>1, <3>2 DEF Settled
  <2>9. Listed'
    BY <2>1, <2>3, <2>4, <2>5 DEF Listed, a
  <2> QED BY <2>6, <2>7, <2>8, <2>9
<1>3. CASE Use
  <2>1. /\ Head(used) \in EntityIds /\ Tail(used) \in Seq(EntityIds)
        /\ Range(used) = Range(Tail(used)) \cup {Head(used)}
    BY <1>3, Taken DEF TypeOK, Use
  <2>2. /\ Append(stack, Head(used)) \in Seq(EntityIds)
        /\ Range(Append(stack, Head(used))) = Range(stack) \cup {Head(used)}
    BY <2>1, Appended DEF TypeOK
  <2>3. /\ stack' \in Seq(EntityIds)
        /\ Range(stack) \subseteq Range(stack')
        /\ Range(stack') \subseteq Range(stack) \cup {Head(used)}
        /\ Head(used) \in seen_entities \/ Head(used) \in Range(stack')
    BY <1>3, <2>2 DEF Use, TypeOK
  <2>4. /\ used' = Tail(used)
        /\ seen_entities' = seen_entities \cup {Head(used)}
        /\ UNCHANGED <<graph, start, seen_activities, ancestors>>
    BY <1>3 DEF Use
  <2>5. TypeOK'
    BY <2>1, <2>3, <2>4 DEF TypeOK
  <2>6. SeenIsUpstream'
    BY <2>1, <2>4 DEF SeenIsUpstream, Closed
  <2>7. Settled'
    BY <2>1, <2>3, <2>4 DEF Settled
  <2>8. Listed'
    BY <2>3, <2>4 DEF Listed
  <2> QED BY <2>5, <2>6, <2>7, <2>8
<1>4. CASE UNCHANGED vars
  BY <1>4 DEF vars, TypeOK, SeenIsUpstream, Closed, Settled, Listed
<1> QED BY <1>1, <1>2, <1>3, <1>4 DEF Next

\* When the walk returns, what it has seen is closed, so it is exactly what
\* is upstream.
LEMMA WalkInvAtReturn == WalkInv => FindsAncestors
<1> SUFFICES ASSUME WalkInv, Returned
             PROVE  Range(ancestors) = {producer(graph, e) : e \in Upstream} \ {None}
  BY DEF FindsAncestors
<1>1. Range(stack) = {} /\ Range(used) = {}
  BY EmptyRange DEF Returned
<1>2. Closed(seen_entities)
  <2>1. \A e \in seen_entities :
            Range(used_by(graph, producer(graph, e))) \subseteq seen_entities
    <3> SUFFICES ASSUME NEW e \in seen_entities
                 PROVE  Range(used_by(graph, producer(graph, e))) \subseteq seen_entities
      OBVIOUS
    <3>1. producer(graph, e) \in seen_activities \cup {None}
      BY <1>1 DEF WalkInv, Settled
    <3>2. CASE producer(graph, e) = None
      BY <3>2, Edges, EmptyRange DEF WalkInv, TypeOK
    <3>3. CASE producer(graph, e) \in seen_activities
      BY <3>3, <1>1 DEF WalkInv, Settled
    <3> QED BY <3>1, <3>2, <3>3
  <2> QED BY <2>1 DEF Closed, WalkInv, Settled
<1>3. Upstream = seen_entities
  <2>1. seen_entities \in SUBSET EntityIds
    BY DEF WalkInv, TypeOK
  <2>2. Upstream \subseteq seen_entities
    BY <1>2, <2>1 DEF Upstream
  <2>3. seen_entities \subseteq Upstream
    BY <2>1 DEF Upstream, WalkInv, SeenIsUpstream
  <2> QED BY <2>2, <2>3
<1>4. None \notin seen_activities
  BY NoneAssumption DEF WalkInv, TypeOK
<1>5. \A e \in seen_entities : producer(graph, e) \in seen_activities \cup {None}
  BY <1>1 DEF WalkInv, Settled
<1>6. \A a \in seen_activities : \E e \in seen_entities : producer(graph, e) = a
  BY DEF WalkInv, Listed
<1>7. Range(ancestors) = seen_activities
  BY DEF WalkInv, Listed
<1> QED BY <1>3, <1>4, <1>5, <1>6, <1>7

\* The walk keeps its types on every graph: the stack and the seen
\* entities hold ids of entities only, the result ids of activities (prov.rs).
THEOREM WalkTypeCorrect == Spec => []TypeOK
<1>1. WalkInv => TypeOK
  BY DEF WalkInv
<1> QED BY <1>1, WalkInvInit, WalkInvNext, PTL DEF Spec

\* The walk returns the ids of the activities that transitively produced the
\* entity, all of them and no other, on every graph (prov.rs, ancestors).
THEOREM AncestorsAreFound == Spec => []FindsAncestors
<1>1. Spec => []WalkInv
  BY WalkInvInit, WalkInvNext, PTL DEF Spec
<1> QED BY <1>1, WalkInvAtReturn, PTL

-----------------------------------------------------------------------------

\* NoDuplicates rests on seen_activities being what is listed.
LEMMA NoDuplicatesNext ==
  ASSUME TypeOK, Listed, NoDuplicates, [Next]_vars PROVE NoDuplicates'
<1>1. CASE Discover
  <2> DEFINE a == producer(graph, top)
  <2>1. ancestors' = Append(ancestors, a) /\ a \notin Range(ancestors) /\ a # None
    BY <1>1 DEF Discover, recorded, is_new, Listed
  <2>2. /\ ancestors \in Seq(ActivityIds) /\ Len(ancestors) \in Nat
        /\ DOMAIN ancestors = 1..Len(ancestors)
    BY DEF TypeOK
  <2>3. a \in ActivityIds
    BY <2>1, Edges DEF TypeOK
  <2> HIDE DEF a
  <2>4. /\ Len(ancestors') = Len(ancestors) + 1
        /\ \A i \in 1..Len(ancestors) : ancestors'[i] = ancestors[i]
        /\ ancestors'[Len(ancestors) + 1] = a
    BY <2>1, <2>2, <2>3
  <2>5. \A i \in 1..Len(ancestors) : ancestors[i] # a
    BY <2>1, <2>2 DEF Range
  <2>6. \A i, j \in 1..Len(ancestors) : ancestors[i] = ancestors[j] => i = j
    BY DEF NoDuplicates
  <2>7. \A i \in 1..(Len(ancestors) + 1) : i \in 1..Len(ancestors) \/ i = Len(ancestors) + 1
    BY <2>2
  <2> QED BY <2>4, <2>5, <2>6, <2>7 DEF NoDuplicates
<1>2. CASE Skip \/ Use \/ UNCHANGED vars
  BY <1>2 DEF Skip, Use, vars, NoDuplicates
<1> QED BY <1>1, <1>2 DEF Next

\* Each activity appears at most once in the result (prov.rs, ancestors).
THEOREM EachAncestorOnce == Spec => []NoDuplicates
<1>1. Init => NoDuplicates
  BY DEF Init, NoDuplicates
<1>2. WalkInv /\ NoDuplicates /\ [Next]_vars => NoDuplicates'
  BY NoDuplicatesNext DEF WalkInv
<1> QED BY <1>1, <1>2, WalkInvInit, WalkInvNext, PTL DEF Spec

-----------------------------------------------------------------------------
(* The order of the result *)

\* An entity is known through the list: it is the start, or one of the listed
\* activities used it.
Known(e) ==
    \/ e = start
    \/ \E j \in 1..Len(ancestors) : e \in Range(used_by(graph, ancestors[j]))

\* What ExplainedByEarlier needs to be inductive: whatever the walk has seen or
\* is about to see, it knows through the list as it is now.
KnownInv == \A e \in seen_entities \cup Range(used) : Known(e)

LEMMA KnownInvNext ==
  ASSUME TypeOK, Listed, KnownInv, ExplainedByEarlier, [Next]_vars
  PROVE  KnownInv' /\ ExplainedByEarlier'
<1>1. CASE Discover
  <2> DEFINE a == producer(graph, top)
             n == Len(ancestors)
  <2>1. /\ ancestors' = Append(ancestors, a) /\ used' = used_by(graph, a)
        /\ UNCHANGED <<graph, start, seen_entities>>
        /\ a # None /\ stack # << >>
    BY <1>1 DEF Discover, recorded, is_new
  <2>2. a \in ActivityIds /\ ancestors \in Seq(ActivityIds) /\ n \in Nat
    BY <2>1, Edges DEF TypeOK
  <2>3. Known(top)
    BY <2>1, Popped DEF TypeOK, Listed, KnownInv, top
  <2> HIDE DEF a
  <2>4. /\ Len(ancestors') = n + 1 /\ ancestors'[n + 1] = a
        /\ \A i \in 1..n : ancestors'[i] = ancestors[i]
    BY <2>1, <2>2
  <2> HIDE DEF n
  <2>5. \A i \in 1..(n + 1) : i \in 1..n \/ i = n + 1
    BY <2>2
  <2>6. /\ \A i \in 1..n : i \in 1..(n + 1) /\ i \in 1..((n + 1) - 1)
        /\ n + 1 \in 1..(n + 1)
    BY <2>2
  <2>7. \A e : Known(e) => Known(e)'
    BY <2>1, <2>4, <2>6 DEF Known, n
  <2>8. \A e \in Range(used') : Known(e)'
    BY <2>1, <2>4, <2>6 DEF Known
  <2>9. KnownInv'
    BY <2>1, <2>7, <2>8 DEF KnownInv
  <2>10. ExplainedByEarlier'
    <3> SUFFICES ASSUME NEW i \in 1..(n + 1)
                 PROVE  \/ ancestors'[i] = producer(graph, start)
                        \/ \E j \in 1..(i - 1) :
                               \E e \in Range(used_by(graph, ancestors'[j])) :
                                   producer(graph, e) = ancestors'[i]
      BY <2>1, <2>4 DEF ExplainedByEarlier
    <3>1. CASE i \in 1..n
      <4>1. \A j \in 1..(i - 1) : ancestors'[j] = ancestors[j]
        BY <2>2, <2>4, <3>1
      <4>2. ancestors'[i] = ancestors[i]
        BY <2>4, <3>1
      <4> QED BY <3>1, <4>1, <4>2 DEF ExplainedByEarlier, n
    <3>2. CASE i = n + 1
      <4>1. \A j \in 1..n : j \in 1..(i - 1) /\ ancestors'[j] = ancestors[j]
        BY <2>4, <2>6, <3>2
      <4>2. ancestors'[i] = producer(graph, top)
        BY <2>4, <3>2 DEF a
      <4> QED BY <2>3, <4>1, <4>2 DEF Known, n
    <3> QED BY <2>5, <3>1, <3>2
  <2> QED BY <2>9, <2>10
<1>2. CASE Use
  <2>1. /\ Range(used) = Range(Tail(used)) \cup {Head(used)}
        /\ used' = Tail(used)
        /\ seen_entities' = seen_entities \cup {Head(used)}
        /\ UNCHANGED <<graph, start, ancestors>>
    BY <1>2, Taken DEF Use, TypeOK
  <2> QED BY <2>1 DEF KnownInv, Known, ExplainedByEarlier
<1>3. CASE Skip \/ UNCHANGED vars
  BY <1>3 DEF Skip, vars, KnownInv, Known, ExplainedByEarlier
<1> QED BY <1>1, <1>2, <1>3 DEF Next

\* The list reads upstream: each activity produced the start, or something
\* that an activity listed before it had used (prov.rs, ancestors).
THEOREM AncestorsReadUpstream == Spec => []ExplainedByEarlier
<1>1. Init => KnownInv /\ ExplainedByEarlier
  BY EmptyRange DEF Init, KnownInv, Known, ExplainedByEarlier
<1>2. WalkInv /\ KnownInv /\ ExplainedByEarlier /\ [Next]_vars
          => KnownInv' /\ ExplainedByEarlier'
  BY KnownInvNext DEF WalkInv
<1> QED BY <1>1, <1>2, WalkInvInit, WalkInvNext, PTL DEF Spec
=============================================================================
