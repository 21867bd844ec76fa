-------------------------- MODULE MCGovernanceStore --------------------------
\* Instances of GovernanceStore for TLC: one item written in a plan's text,
\* one recorded at run time, and two sessions.
EXTENDS GovernanceStore

CONSTANTS written, found, s1, s2

With(events, rows) == [events |-> events, rows |-> rows]

\* Failures of the process and its disk; failures and what a user does to
\* get past them; an artifact that git changes; a cache that may vanish.
AllPlans ==
  {With({"crash", "io", "import", "phase", "upgrade"}, {written, found}),
   With({"io", "phase", "force", "upgrade"}, {written, found}),
   With({"io", "upgrade", "pull", "conflict"}, {written, found}),
   With({"delete", "upgrade"}, {written, found, s1}),
   With({"delete"}, Row),
   With({"io", "force", "upgrade", "delete"}, {found}),
   With({"import", "phase", "upgrade"}, {s1, s2}),
   With({"phase", "delete", "conflict"}, {s1, s2})}

Shared == {With({"pull"}, Row)}
=============================================================================
