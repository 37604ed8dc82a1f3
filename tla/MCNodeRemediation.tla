------------------------- MODULE MCNodeRemediation -------------------------
(* Two remediations, an automatic one that can be rolled back and a manual  *)
(* one.                                                                     *)
EXTENDS NodeRemediation, TLC

CONSTANTS ra, rm, xa, va, ba, ca, xm, vm, bm, cm, w1, w2, n1, n2

MCExecute == (ra :> xa) @@ (rm :> xm)
MCVerify == (ra :> va) @@ (rm :> vm)
MCSymmetry == Permutations({n1, n2}) \union Permutations({ba, ca}) \union Permutations({bm, cm})
MCRollbacks == (ra :> {ba, ca}) @@ (rm :> {bm, cm})

\* Bound: a process ends before the last request comes, so that a request that follows
\* finds what the ended process left; and it ends, or a database call fails, not both.
StopsBetweenRequests ==
    /\ stops' > stops => faults = 0 /\ \E r \in Requests : dispatch[r] = "idle"
    /\ faults' > faults => stops = 0
=============================================================================
