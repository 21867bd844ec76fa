------------------------- MODULE MCWorkspaceRegistry -------------------------
\* Instances of WorkspaceRegistry for TLC.
EXTENDS WorkspaceRegistry, TLC

CONSTANTS p1, p2, p3, w1, w2, n1, n2, committed

\* One root has an id committed in its workspace.yaml, the other has none.
OneCommitted == (w1 :> committed) @@ (w2 :> None)

AllIds == {p1, p2, p3, committed}

\* Registrations and removals whose writes may fail; registrations and gc whose
\* writes may fail, and everything with lost locks, with one project name.
Serialised == [kinds |-> {"register", "unregister"}, names |-> {n1, n2}, faults |-> {"io"}]
Disturbed == [kinds |-> Kinds, names |-> {n1}, faults |-> {"crash", "stall"}]
Unwritable == [kinds |-> {"register", "gc"}, names |-> {n1}, faults |-> {"io"}]
AllPlans == {Serialised, Disturbed, Unwritable}

ProcPermutations == Permutations(Proc)
=============================================================================
