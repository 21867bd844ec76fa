--------------------------- MODULE MCWorkspaceState ---------------------------
\* Instances of WorkspaceState for TLC.
EXTENDS WorkspaceState, TLC

AllPlans == {{"crash", "io", "rename"}, {"io", "gc"}, {"gc"}, {"clone", "gc"},
             {"race", "io", "fork"}}
Forked == {{"io", "fork"}}
Sym == Permutations(Root) \cup Permutations(Id)
=============================================================================
