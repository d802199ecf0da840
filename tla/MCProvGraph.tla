---------------------------- MODULE MCProvGraph ------------------------------
(* Every small graph, for TLC.                                              *)
EXTENDS ProvGraph

PartialFunctions(S, T) == UNION {[D -> T] : D \in SUBSET S}

UpToTwo == {<< >>} \cup {<<e>> : e \in EntityIds} \cup (EntityIds \X EntityIds)

SmallGraphs ==
    [entities   : PartialFunctions(EntityIds, ActivityIds \cup {None}),
     activities : PartialFunctions(ActivityIds, UpToTwo)]
=============================================================================
