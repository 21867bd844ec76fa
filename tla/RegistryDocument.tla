--------------------------- MODULE RegistryDocument ---------------------------
(***************************************************************************)
(* The content of registry.yaml and the three ways it is edited            *)
(* (workspace_registry.py, gc.py).  A document maps every root to its      *)
(* entry; a root without an entry is mapped to Absent.  Two spellings of   *)
(* one root (paths_equal) are one element of Roots.  The path of a project *)
(* inside its workspace is left out.                                       *)
(***************************************************************************)
CONSTANTS
  Roots,      \* workspace root directories
  Names,      \* project names
  Ids,        \* workspace ids
  Manifest,   \* per root: the id committed in its workspace.yaml, or None
  None

\* What a call returns or raises.
Results == {"registered", "rejected", "removed", "nothing", "failed", "collected"}

ASSUME DocumentAssumption ==
  /\ None \notin Results
  /\ None \notin Ids
  /\ Manifest \in [Roots -> Ids \cup {None}]

Entry == [id : Ids \cup {None}, names : SUBSET Names]

\* Every entry has an id and at least one project.
Document == {doc \in [Roots -> Entry] :
               \A r \in Roots : doc[r].id = None <=> doc[r].names = {}}

Absent == [id |-> None, names |-> {}]
Empty == [r \in Roots |-> Absent]

\* _reject_name_collision: a workspace at another root uses one of the names.
Collides(doc, root, names) ==
  \E r \in Roots \ {root} : doc[r].names \cap names # {}

\* Mutant of IdFor: a root that is registered again gets a new id.
IdForFresh(doc, root, fresh) == IF Manifest[root] # None THEN Manifest[root] ELSE fresh

\* The committed id outranks the registry's, which outranks a generated one.
IdFor(doc, root, fresh) ==
  IF Manifest[root] # None THEN Manifest[root]
  ELSE IF doc[root] # Absent THEN doc[root].id ELSE fresh

\* register_workspace
Register(doc, root, names, fresh) ==
  [doc EXCEPT ![root] = [id |-> IdFor(doc, root, fresh), names |-> names]]

Mentions(doc, names) == \E r \in Roots : doc[r].names \cap names # {}

\* Mutant of Unregister: a workspace left without projects stays.
UnregisterKeepEmpty(doc, names) ==
  [r \in Roots |-> [id |-> doc[r].id, names |-> doc[r].names \ names]]

\* unregister_project: a workspace left without projects is dropped.
Unregister(doc, names) ==
  [r \in Roots |-> IF doc[r].names \subseteq names THEN Absent
                   ELSE [id |-> doc[r].id, names |-> doc[r].names \ names]]

\* apply_gc: every workspace that carries one of the ids is dropped.
DropIds(doc, ids) == [r \in Roots |-> IF doc[r].id \in ids THEN Absent ELSE doc[r]]

\* No project name is used by two workspaces.
Unambiguous(doc) == \A r \in Roots : ~Collides(doc, r, doc[r].names)
=============================================================================
