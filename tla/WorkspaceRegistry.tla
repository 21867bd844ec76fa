-------------------------- MODULE WorkspaceRegistry --------------------------
(***************************************************************************)
(* The user-level workspace registry (workspace_registry.py) and the       *)
(* command that clears it of dead entries (gc.py).  Registering and        *)
(* unregistering are a read, a change and a write of registry.yaml under a *)
(* lock directory; gc reads and writes the same file without that lock.    *)
(*                                                                         *)
(* One element of Proc is one scaffold invocation, which makes one call.   *)
(* Each access to the file system is a step of its own.                    *)
(***************************************************************************)
EXTENDS RegistryDocument

CONSTANTS
  Proc,      \* the invocations; also the ids they generate
  Plans      \* what they do, with which project names, and what may go wrong

\* crash: an invocation is killed.  stall: a lock gets older than stale_after
\* under a maker that is still running.  io: the registry, or owner.json,
\* cannot be written.
FaultKinds == {"crash", "stall", "io"}
Kinds == {"register", "unregister", "gc"}

ASSUME RegistryAssumption ==
  /\ Proc \subseteq Ids
  /\ Plans \subseteq [kinds : SUBSET Kinds, names : SUBSET Names, faults : SUBSET FaultKinds]

VARIABLES
  pc,        \* where each invocation is
  op,        \* its arguments: what it does, to which root and project names
  snap,      \* the document it has read and is about to change and write
  stale,     \* gc: the ids that the plan found stale
  returns,   \* where _release_lock returns to: "mkdir" after a reap, or "done"
  result,    \* what the call returns or raises, None while that is open
  registry,  \* registry.yaml
  exists,    \* the roots that are directories
  lock,      \* the maker of .registry.lock, None when there is no directory
  noted,     \* there is an owner.json in it
  old,       \* its mtime is older than stale_after
  plan       \* the plan that this behaviour follows

vars == <<pc, op, snap, stale, returns, result, registry, exists, lock, noted, old, plan>>
locks == <<lock, noted, old>>
data == <<snap, stale, result, registry>>

PC == {"new", "reap", "mkdir", "note", "read", "save", "relCheck", "unlink",
       "rmdir", "plan", "gcLoad", "gcSave", "done", "crashed"}

\* A workspace is registered with at least one project; unregister and gc have
\* no root of their own.
NoRoot == CHOOSE r \in Roots : TRUE
Ops == {o \in [kind : Kinds, root : Roots, names : SUBSET Names] :
  \/ o.kind = "register" /\ o.names # {}
  \/ o.kind = "unregister" /\ o.root = NoRoot /\ \E n \in Names : o.names = {n}
  \/ o.kind = "gc" /\ o.root = NoRoot /\ o.names = {}}

TypeOK ==
  /\ pc \in [Proc -> PC]
  /\ op \in [Proc -> Ops]
  /\ snap \in [Proc -> Document]
  /\ stale \in [Proc -> SUBSET Ids]
  /\ returns \in [Proc -> {"mkdir", "done"}]
  /\ result \in [Proc -> Results \cup {None}]
  /\ registry \in Document
  /\ exists \subseteq Roots
  /\ lock \in Proc \cup {None}
  /\ noted \in BOOLEAN
  /\ old \in BOOLEAN
  /\ plan \in Plans
-----------------------------------------------------------------------------
Init ==
  /\ pc = [p \in Proc |-> "new"]
  /\ plan \in Plans
  /\ op \in [Proc -> {o \in Ops : o.kind \in plan.kinds /\ o.names \subseteq plan.names}]
  /\ snap = [p \in Proc |-> Empty]
  /\ stale = [p \in Proc |-> {}]
  /\ returns = [p \in Proc |-> "done"]
  /\ result = [p \in Proc |-> None]
  /\ registry = Empty
  /\ exists = Roots
  /\ lock = None
  /\ noted = FALSE
  /\ old = FALSE

At(p, label) == pc[p] = label
Goto(p, label) == pc' = [pc EXCEPT ![p] = label]
Answer(p, r) == result' = [result EXCEPT ![p] = r]
Does(p, kind) == op[p].kind = kind

\* scaffold project register insists on a directory.
Begin(p) ==
  /\ At(p, "new")
  /\ Does(p, "register") => op[p].root \in exists
  /\ Goto(p, IF Does(p, "gc") THEN "plan" ELSE "reap")
  /\ UNCHANGED <<op, returns, data, exists, locks, plan>>

(***************************************************************************)
(* registry_lock: reap by age alone, mkdir, best-effort owner.json.        *)
(***************************************************************************)
BeginRelease(p, next) ==
  /\ returns' = [returns EXCEPT ![p] = next]
  /\ Goto(p, "relCheck")

Reap(p) ==
  /\ At(p, "reap")
  /\ \/ lock # None /\ old /\ BeginRelease(p, "mkdir")
     \/ (lock = None \/ ~old) /\ Goto(p, "mkdir") /\ UNCHANGED returns
  /\ UNCHANGED <<op, data, exists, locks, plan>>

TakeLock(p) ==
  /\ lock' = p
  /\ old' = FALSE
  /\ Goto(p, "note")
  /\ UNCHANGED <<op, returns, data, exists, plan>>

\* Mutant of Mkdir: mkdir(exist_ok=True).
MkdirExistOk(p) ==
  /\ At(p, "mkdir")
  /\ noted' = (lock # None /\ noted)
  /\ TakeLock(p)

Mkdir(p) ==
  /\ At(p, "mkdir")
  /\ lock = None
  /\ noted' = FALSE
  /\ TakeLock(p)

Poll(p) ==
  /\ At(p, "mkdir")
  /\ lock # None
  /\ Goto(p, "reap")
  /\ UNCHANGED <<op, returns, data, exists, locks, plan>>

\* RegistryLockError after ten seconds.
Timeout(p) ==
  /\ At(p, "mkdir")
  /\ lock # None
  /\ Answer(p, "failed")
  /\ Goto(p, "done")
  /\ UNCHANGED <<op, returns, snap, stale, registry, exists, locks, plan>>

\* An OSError is ignored: the directory is gone, or the disk is full.
Note(p) ==
  /\ At(p, "note")
  /\ \/ lock # None /\ noted' = TRUE /\ old' = (old /\ noted)
     \/ (lock = None \/ "io" \in plan.faults) /\ UNCHANGED <<noted, old>>
  /\ Goto(p, "read")
  /\ UNCHANGED <<op, returns, data, exists, lock, plan>>

(***************************************************************************)
(* The read-modify-write cycle in the with statement.                      *)
(***************************************************************************)
Refuses(p, doc) ==
  \/ Does(p, "register") /\ Collides(doc, op[p].root, op[p].names)
  \/ Does(p, "unregister") /\ ~Mentions(doc, op[p].names)

Refusal(p) == IF Does(p, "register") THEN "rejected" ELSE "nothing"

\* Mutant of Read: the collision check is left to the caller.
ReadUnchecked(p) ==
  /\ At(p, "read")
  /\ snap' = [snap EXCEPT ![p] = registry]
  /\ Goto(p, "save")
  /\ UNCHANGED <<op, returns, stale, result, registry, exists, locks, plan>>

Read(p) ==
  /\ At(p, "read")
  /\ \/ /\ Refuses(p, registry)
        /\ Answer(p, Refusal(p))
        /\ BeginRelease(p, "done")
        /\ UNCHANGED snap
     \/ /\ ~Refuses(p, registry)
        /\ snap' = [snap EXCEPT ![p] = registry]
        /\ Goto(p, "save")
        /\ UNCHANGED <<result, returns>>
  /\ UNCHANGED <<op, stale, registry, exists, locks, plan>>

Edited(p, doc) ==
  IF Does(p, "register") THEN Register(doc, op[p].root, op[p].names, p)
  ELSE Unregister(doc, op[p].names)

\* save_registry ends in os.replace: the old document or the new one.
Save(p) ==
  /\ At(p, "save")
  /\ \/ /\ registry' = Edited(p, snap[p])
        /\ Answer(p, IF Does(p, "register") THEN "registered" ELSE "removed")
     \/ /\ "io" \in plan.faults
        /\ Answer(p, "failed")
        /\ UNCHANGED registry
  /\ snap' = [snap EXCEPT ![p] = Empty]
  /\ BeginRelease(p, "done")
  /\ UNCHANGED <<op, stale, exists, locks, plan>>

(***************************************************************************)
(* _release_lock, of the holder and of a reaper.                           *)
(***************************************************************************)
Return(p) == Goto(p, returns[p]) /\ returns' = [returns EXCEPT ![p] = "done"]

ReleaseCheck(p) ==
  /\ At(p, "relCheck")
  /\ Goto(p, IF noted THEN "unlink" ELSE "rmdir")
  /\ UNCHANGED <<op, returns, data, exists, locks, plan>>

ReleaseUnlink(p) ==
  /\ At(p, "unlink")
  /\ \/ /\ noted
        /\ noted' = FALSE
        /\ old' = FALSE
        /\ Goto(p, "rmdir")
        /\ UNCHANGED <<returns, lock>>
     \/ /\ ~noted
        /\ Return(p)
        /\ UNCHANGED locks
  /\ UNCHANGED <<op, data, exists, plan>>

\* Mutant of ReleaseRmdir: owner.json is removed but not the directory.
ReleaseWithoutRmdir(p) ==
  /\ At(p, "rmdir")
  /\ Return(p)
  /\ UNCHANGED <<op, data, exists, locks, plan>>

ReleaseRmdir(p) ==
  /\ At(p, "rmdir")
  /\ IF lock # None /\ ~noted
     THEN lock' = None /\ old' = FALSE /\ UNCHANGED noted
     ELSE UNCHANGED locks
  /\ Return(p)
  /\ UNCHANGED <<op, data, exists, plan>>

(***************************************************************************)
(* scaffold gc --apply: plan_gc, then apply_gc, without the lock.          *)
(***************************************************************************)
StaleIds(doc) == {doc[r].id : r \in {s \in Roots \ exists : doc[s] # Absent}}

Plan(p) ==
  /\ At(p, "plan")
  /\ stale' = [stale EXCEPT ![p] = StaleIds(registry)]
  /\ Goto(p, IF StaleIds(registry) = {} THEN "done" ELSE "gcLoad")
  /\ UNCHANGED <<op, returns, snap, result, registry, exists, locks, plan>>

GcLoad(p) ==
  /\ At(p, "gcLoad")
  /\ snap' = [snap EXCEPT ![p] = registry]
  /\ Goto(p, "gcSave")
  /\ UNCHANGED <<op, returns, stale, result, registry, exists, locks, plan>>

GcSave(p) ==
  /\ At(p, "gcSave")
  /\ \/ registry' = DropIds(snap[p], stale[p]) /\ Answer(p, "collected")
     \/ "io" \in plan.faults /\ Answer(p, "failed") /\ UNCHANGED registry
  /\ snap' = [snap EXCEPT ![p] = Empty]
  /\ stale' = [stale EXCEPT ![p] = {}]
  /\ Goto(p, "done")
  /\ UNCHANGED <<op, returns, exists, locks, plan>>
-----------------------------------------------------------------------------
Crash(p) ==
  /\ "crash" \in plan.faults
  /\ pc[p] \notin {"new", "done", "crashed"}
  /\ Goto(p, "crashed")
  /\ snap' = [snap EXCEPT ![p] = Empty]
  /\ stale' = [stale EXCEPT ![p] = {}]
  /\ returns' = [returns EXCEPT ![p] = "done"]
  /\ UNCHANGED <<op, result, registry, exists, locks, plan>>

\* A lock ages when its maker was killed, or when it is slow.
Expire ==
  /\ lock # None /\ ~old
  /\ At(lock, "crashed") \/ "stall" \in plan.faults
  /\ old' = TRUE
  /\ UNCHANGED <<pc, op, returns, data, exists, lock, noted, plan>>

\* The user deletes a checkout, or clones into the same place again.
MoveCheckout(r) ==
  /\ exists' = IF r \in exists THEN exists \ {r} ELSE exists \cup {r}
  /\ UNCHANGED <<pc, op, returns, data, locks, plan>>

Step(p) ==
  \/ Begin(p) \/ Reap(p) \/ Mkdir(p) \/ Poll(p) \/ Timeout(p) \/ Note(p)
  \/ Read(p) \/ Save(p)
  \/ ReleaseCheck(p) \/ ReleaseUnlink(p) \/ ReleaseRmdir(p)
  \/ Plan(p) \/ GcLoad(p) \/ GcSave(p)

Next ==
  \/ \E p \in Proc : Step(p) \/ Crash(p)
  \/ Expire
  \/ \E r \in Roots : MoveCheckout(r)

Spec == Init /\ [][Next]_vars
-----------------------------------------------------------------------------
\* gc does not run, nothing is killed, and nobody holds a lock too long.
Sheltered == plan.kinds \subseteq {"register", "unregister"} /\ plan.faults \subseteq {"io"}

\* Every document that is ever written uses a project name once ("names must
\* be unique across the registry", workspace_registry.py:573), even when locks
\* are lost, gc runs beside a registration, or invocations are killed.
NamesUnique == Unambiguous(registry)

\* When every invocation has returned and none was killed, no lock directory
\* is left to block the next one for five minutes.
NoLockLeft == (\A p \in Proc : pc[p] \in {"new", "done"}) => lock = None

\* A workspace that stays registered by sheltered invocations keeps its id,
\* which keys its state directory, or gets the committed one ("keeps its id ... never loses the
\* state keyed to its id", workspace_registry.py:408-410).
IdKept ==
  [][\A r \in Roots :
       Sheltered /\ registry[r] # Absent /\ registry'[r] # Absent =>
         registry'[r].id \in {registry[r].id, Manifest[r]}]_vars

\* Sheltered calls are the indivisible edits of AtomicRegistry: no update is
\* lost, whatever the interleaving.  Of the others it is shown nothing.
shelteredRegistry == IF Sheltered THEN registry ELSE Empty
shelteredResult == IF Sheltered THEN result ELSE [p \in Proc |-> None]
Atomic == INSTANCE AtomicRegistry WITH registry <- shelteredRegistry,
                                       result <- shelteredResult
Linearizable == Atomic!Spec
=============================================================================
