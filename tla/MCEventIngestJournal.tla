------------------------ MODULE MCEventIngestJournal ------------------------
(* Two batches: k1 fits the row limit once prepared, k2 does not.  k1 may be *)
(* journaled again after its first row was pruned.                           *)
EXTENDS EventIngestJournal, TLC

CONSTANTS k1, k2, i1, i2, i3, h1, h2, d1, d2, r1, r2

MCKeys == {k1, k2}
MCIds == {i1, i2, i3}
MCKeyOf == (i1 :> k1) @@ (i2 :> k1) @@ (i3 :> k2)
\* Each batch is journaled once.
MCOneRowPerKey == {i1, i3}
MCOneRowKeyOf == (i1 :> k1) @@ (i3 :> k2)

\* One batch, journaled again once its first row is pruned.
MCOneKey == {k1}
MCRejournaledIds == {i1, i2}
MCRejournaledKeyOf == (i1 :> k1) @@ (i2 :> k1)

MCTables == <<"events", "process_connections">>
MCRawTables == {"process_connections"}
MCFanoutTables == {"events", "process_connections"}
MCMaxRows == 2
MCRawRows == [k \in Keys |-> IF k = k1 THEN 1 ELSE 2]
MCAddedRows == [k \in Keys |-> 1]

\* Two replicas, each with a drainer; the first serves requests too.
MCTwoReplicas == (h1 :> r1) @@ (d1 :> r1) @@ (d2 :> r2)

\* One replica with two handlers and one drainer.
MCOneReplica == (h1 :> r1) @@ (h2 :> r1) @@ (d1 :> r1)
=============================================================================
