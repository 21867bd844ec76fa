---------------------------- MODULE AtomicRegistry ----------------------------
(***************************************************************************)
(* What the registry promises its callers: every call of                   *)
(* register_workspace or unregister_project is one indivisible edit of the *)
(* document, or leaves it alone and says so.                               *)
(***************************************************************************)
EXTENDS RegistryDocument

CONSTANT Proc   \* the calls, one scaffold invocation each

VARIABLES
  registry,     \* the document
  result        \* per call: what it returned or raised, None before that

Init ==
  /\ registry = Empty
  /\ result = [p \in Proc |-> None]

Answer(p, r) ==
  /\ result[p] = None
  /\ result' = [result EXCEPT ![p] = r]

\* An id that is generated is generated by one call only: the id is the call.
Registering(p) ==
  \/ /\ Answer(p, "registered")
     /\ \E root \in Roots, names \in SUBSET Names :
          ~Collides(registry, root, names) /\ registry' = Register(registry, root, names, p)
  \/ /\ Answer(p, "rejected")
     /\ \E root \in Roots, names \in SUBSET Names : Collides(registry, root, names)
     /\ UNCHANGED registry

Unregistering(p) ==
  \/ /\ Answer(p, "removed")
     /\ \E names \in SUBSET Names :
          Mentions(registry, names) /\ registry' = Unregister(registry, names)
  \/ /\ Answer(p, "nothing")
     /\ \E names \in SUBSET Names : ~Mentions(registry, names)
     /\ UNCHANGED registry

\* The lock timed out, or the write failed.
Failing(p) == Answer(p, "failed") /\ UNCHANGED registry

Next == \E p \in Proc : Registering(p) \/ Unregistering(p) \/ Failing(p)

Spec == Init /\ [][Next]_<<registry, result>>
=============================================================================
