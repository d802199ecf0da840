------------------------------ MODULE ProvGraph -------------------------------
(***************************************************************************)
(* ProvGraph::ancestors of crates/aep-core/src/prov.rs: the walk from an   *)
(* entity up generated_by and used edges, one action per turn of its two   *)
(* loops.  Graphs come from evidence producers, so an edge may dangle and  *)
(* edges may form cycles and diamonds.                                     *)
(*                                                                         *)
(* A graph is reduced to the edges the walk reads: `entities' maps the id  *)
(* of an entity to its generated_by, `activities' that of an activity to   *)
(* its used.                                                               *)
(***************************************************************************)
EXTENDS Integers, Sequences, Functions

CONSTANTS None, EntityIds, ActivityIds,
          Graphs      \* the graphs the walk may be asked about

VARIABLES
    graph,            \* &self
    start,            \* entity_id
    stack,            \* entities still to be looked at
    used,             \* the rest of the inner loop's iterator
    seen_entities,
    seen_activities,
    ancestors         \* the result

vars == <<graph, start, stack, used, seen_entities, seen_activities, ancestors>>

IsGraph(g) ==
    /\ DOMAIN g.entities \subseteq EntityIds
    /\ \A e \in DOMAIN g.entities : g.entities[e] \in ActivityIds \cup {None}
    /\ DOMAIN g.activities \subseteq ActivityIds
    /\ \A a \in DOMAIN g.activities : g.activities[a] \in Seq(EntityIds)

ASSUME GraphsAssumption == \A g \in Graphs : IsGraph(g)
ASSUME NoneAssumption   == None \notin ActivityIds

-----------------------------------------------------------------------------
(* The edges *)

\* The activity that generated an entity, if the graph knows of one.
producer(g, e) == IF e \in DOMAIN g.entities THEN g.entities[e] ELSE None

\* What an activity used; one the graph does not describe used nothing.
used_by(g, a) == IF a \in DOMAIN g.activities THEN g.activities[a] ELSE << >>

-----------------------------------------------------------------------------
(* The walk *)

Init ==
    /\ graph \in Graphs
    /\ start \in EntityIds
    /\ stack = <<start>>
    /\ used = << >>
    /\ seen_entities = {start}
    /\ seen_activities = {}
    /\ ancestors = << >>

top == stack[Len(stack)]

\* Mutant: the entity is looked at, not taken off.
popped_Peek == stack

popped == SubSeq(stack, 1, Len(stack) - 1)

\* Mutant: the id of the entity is recorded.
recorded_Entity(a) == Append(ancestors, top)

\* Mutant: the list is built from its end.
recorded_First(a) == <<a>> \o ancestors

recorded(a) == Append(ancestors, a)

\* Mutant: seen_activities is not asked.
is_new_Always(a) == a # None

\* Mutant: a producer the graph does not describe is passed over.
is_new_Described(a) ==
    a # None /\ a \notin seen_activities /\ a \in DOMAIN graph.activities

\* There is a producer, and the walk has not met it before.
is_new(a) == a # None /\ a \notin seen_activities

\* An entity with nothing new above it: the three `continue`s.
Skip ==
    /\ used = << >> /\ stack # << >>
    /\ ~is_new(producer(graph, top))
    /\ stack' = popped
    /\ UNCHANGED <<graph, start, used, seen_entities, seen_activities, ancestors>>

\* An activity is found, and the loop over what it used begins.
Discover ==
    /\ used = << >> /\ stack # << >>
    /\ LET a == producer(graph, top)
       IN /\ is_new(a)
          /\ seen_activities' = seen_activities \cup {a}
          /\ ancestors' = recorded(a)
          /\ used' = used_by(graph, a)
    /\ stack' = popped
    /\ UNCHANGED <<graph, start, seen_entities>>

\* One turn of the inner loop: an entity not seen before goes on the stack.
Use ==
    /\ used # << >>
    /\ used' = Tail(used)
    /\ stack' = IF Head(used) \in seen_entities THEN stack
                ELSE Append(stack, Head(used))
    /\ seen_entities' = seen_entities \cup {Head(used)}
    /\ UNCHANGED <<graph, start, seen_activities, ancestors>>

Next == Skip \/ Discover \/ Use

\* The walk is one call in one thread: while a loop has a turn, it takes it.
Spec == Init /\ [][Next]_vars /\ WF_vars(Next)

Returned == stack = << >> /\ used = << >>

-----------------------------------------------------------------------------
(* What it computes *)

TypeOK ==
    /\ IsGraph(graph)
    /\ start \in EntityIds
    /\ stack \in Seq(EntityIds)
    /\ used \in Seq(EntityIds)
    /\ seen_entities \subseteq EntityIds
    /\ seen_activities \subseteq ActivityIds
    /\ ancestors \in Seq(ActivityIds)

\* E holds the start, and what was used to produce a member of E.
Closed(E) ==
    /\ start \in E
    /\ \A e \in E : Range(used_by(graph, producer(graph, e))) \subseteq E

\* The entities upstream of the start: the least closed set.
Upstream == {e \in EntityIds : \A E \in SUBSET EntityIds : Closed(E) => e \in E}

\* "The IDs of activities that transitively produced entity_id": when the
\* walk returns, whatever cycles, diamonds and dangling edges it met, it has
\* listed every one of them and nothing else.
FindsAncestors ==
    Returned => Range(ancestors) =
                    {producer(graph, e) : e \in Upstream} \ {None}

\* "Each activity appears at most once in the result."
NoDuplicates ==
    \A i, j \in 1..Len(ancestors) : ancestors[i] = ancestors[j] => i = j

\* The list reads upstream: an activity comes after one that used an entity
\* it produced, and the first produced the start itself.
ExplainedByEarlier ==
    \A i \in 1..Len(ancestors) :
        \/ ancestors[i] = producer(graph, start)
        \/ \E j \in 1..(i - 1) :
               \E e \in Range(used_by(graph, ancestors[j])) :
                   producer(graph, e) = ancestors[i]

\* "A visited-set terminates traversal instead of looping."
Terminates == <>Returned

-----------------------------------------------------------------------------
(* The inductive invariant behind FindsAncestors *)

\* What was seen is upstream: it is in every closed set.
SeenIsUpstream ==
    \A E \in SUBSET EntityIds :
        Closed(E) => seen_entities \subseteq E /\ Range(used) \subseteq E

\* What was seen and is not on the stack has had its producer listed, and
\* what a listed activity used was seen, or is about to be.
Settled ==
    /\ start \in seen_entities
    /\ \A e \in seen_entities :
           \/ e \in Range(stack)
           \/ producer(graph, e) \in seen_activities \cup {None}
    /\ \A a \in seen_activities :
           Range(used_by(graph, a)) \subseteq seen_entities \cup Range(used)

\* What is listed was seen, and produced something that was.
Listed ==
    /\ seen_activities = Range(ancestors)
    /\ Range(stack) \subseteq seen_entities
    /\ \A a \in seen_activities : \E e \in seen_entities : producer(graph, e) = a

WalkInv == TypeOK /\ SeenIsUpstream /\ Settled /\ Listed
=============================================================================
