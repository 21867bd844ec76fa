---------------------------- MODULE WorkspaceState ----------------------------
(***************************************************************************)
(* Where the graph database of a workspace lies: in the tree of its root,  *)
(* or in the user's state directory that is named for the workspace id     *)
(* (paths.py).  "workspace migrate-state" moves it from one to the other   *)
(* by copying, verifying and unlinking (workspace_migrate_state.py), after *)
(* probing whether a process has it open (graph/liveness.py), and gc       *)
(* removes state directories it takes for orphans (gc.py).                 *)
(*                                                                         *)
(* A database is its version: each write gives it one nobody had.  The     *)
(* sidecars (watermark and fingerprint) are one file, which says which     *)
(* version they were written for.                                          *)
(***************************************************************************)
EXTENDS Integers

CONSTANTS
  Root,        \* paths at which a checkout may lie
  Id,          \* workspace ids, which checkouts carry in workspace.yaml
  None,
  MaxVersion,  \* versions are counted up to this bound
  Plans        \* what a behaviour may meet: sets of events

Place == Root \cup Id
Absent == 0
Torn == -1     \* a file that a copy has not filled
Events == {"crash", "io", "gc", "clone", "rename", "race", "fork"}

ASSUME StateAssumption ==
  /\ Root \cap Id = {}
  /\ None \notin Place
  /\ MaxVersion \in Nat
  /\ Plans \subseteq SUBSET Events

VARIABLES
  plan,     \* the events of this behaviour
  there,    \* the roots at which there is a checkout
  ident,    \* the id each of them carries, or None
  db,       \* the database file at every place
  side,     \* its sidecar, as a version
  owner,    \* workspace.json of every state directory: the root it serves
  held,     \* where the process that works on a root's graph has it open
  gone,     \* the roots whose process has a file open that was removed
  newest,   \* the version a root's graph was last given
  clock,    \* the last version
  pc, job,  \* where the migration under way is, and what it moves
  doomed    \* the state directories gc has found orphaned and not yet removed

files == <<db, side, owner>>
users == <<there, ident, held, gone, newest, clock>>
vars == <<plan, files, users, pc, job, doomed>>

Job == [root : Root, from : Place, to : Place, snap : -1..MaxVersion, side : BOOLEAN]

TypeOK ==
  /\ plan \in Plans
  /\ there \subseteq Root
  /\ ident \in [Root -> Id \cup {None}]
  /\ db \in [Place -> -1..MaxVersion]
  /\ side \in [Place -> -1..MaxVersion]
  /\ owner \in [Id -> Root \cup {None}]
  /\ held \in [Root -> Place \cup {None}]
  /\ gone \subseteq Root
  /\ newest \in [Root -> 0..MaxVersion]
  /\ clock \in 0..MaxVersion
  /\ pc \in {"idle", "probe", "copy", "copying", "verify", "side", "unlink", "unlinkSide"}
  /\ job \in Job \cup {None}
  /\ doomed \subseteq Id

Init ==
  /\ plan \in Plans
  /\ there \in SUBSET Root
  /\ ident = [r \in Root |-> None]
  /\ db = [p \in Place |-> Absent]
  /\ side = [p \in Place |-> Absent]
  /\ owner = [i \in Id |-> None]
  /\ held = [r \in Root |-> None]
  /\ gone = {}
  /\ newest = [r \in Root |-> 0]
  /\ clock = 0
  /\ pc = "idle"
  /\ job = None
  /\ doomed = {}

\* An in-tree database wins over an empty state directory.
Resolved(r) ==
  IF ident[r] = None \/ (db[ident[r]] = Absent /\ db[r] # Absent)
  THEN r
  ELSE ident[r]

\* The processes that have the file at p open; the removal of a file leaves
\* them with one that nobody else will see.
Holders(p) == {r \in Root \ gone : held[r] = p}

Remove(p) ==
  /\ db' = [db EXCEPT ![p] = Absent]
  /\ gone' = gone \cup Holders(p)

\* Mutant: the record names the workspace in place of its root.
NotedById(p, r) == IF p \in Id /\ ident[r] = p THEN [owner EXCEPT ![p] = p] ELSE owner

\* The record of the root a state directory serves, made with the directory:
\* only for the workspace that carries its name.
Noted(p, r) ==
  IF p \in Id /\ ident[r] = p THEN [owner EXCEPT ![p] = r] ELSE owner

-----------------------------------------------------------------------------
(* The processes that index and serve a root's graph.  DuckDB opens a file   *)
(* for one process.                                                          *)

\* A new version of the database at p, for everyone who works with it.
Renewed(p) == [r \in Root |-> IF r \in there /\ Resolved(r) = p THEN clock + 1 ELSE newest[r]]

Open(r) ==
  /\ r \in there
  /\ held[r] = None
  /\ "race" \in plan \/ pc = "idle"
  /\ LET p == Resolved(r) IN
       /\ Holders(p) = {}
       /\ db[p] # Torn
       /\ held' = [held EXCEPT ![r] = p]
       /\ owner' = Noted(p, r)
       /\ IF db[p] # Absent
          THEN UNCHANGED <<db, newest, clock>>
          ELSE /\ clock < MaxVersion
               /\ clock' = clock + 1
               /\ db' = [db EXCEPT ![p] = clock + 1]
               /\ newest' = Renewed(p)
  /\ UNCHANGED <<plan, there, ident, side, gone, pc, job, doomed>>

Write(r) ==
  /\ held[r] # None
  /\ clock < MaxVersion
  /\ clock' = clock + 1
  /\ IF r \in gone
     THEN newest' = [newest EXCEPT ![r] = clock + 1] /\ UNCHANGED db
     ELSE /\ newest' = Renewed(held[r])
          /\ db' = [db EXCEPT ![held[r]] = clock + 1]
  /\ UNCHANGED <<plan, there, ident, side, owner, held, gone, pc, job, doomed>>

\* The fingerprint goes beside the file that was opened, the watermark beside
\* the one that is resolved by then (freshness.py:78-80).
NoteVersion(r) ==
  /\ held[r] # None
  /\ \E p \in {held[r], Resolved(r)} :
       side' = [side EXCEPT ![p] = IF r \in gone THEN newest[r] ELSE db[held[r]]]
  /\ UNCHANGED <<plan, users, db, owner, pc, job, doomed>>

Close(r) ==
  /\ held[r] # None
  /\ held' = [held EXCEPT ![r] = None]
  /\ gone' = gone \ {r}
  /\ UNCHANGED <<plan, files, there, ident, newest, clock, pc, job, doomed>>

-----------------------------------------------------------------------------
(* workspace migrate-state --apply.                                          *)

Goes(where) ==
  /\ pc' = where
  /\ UNCHANGED <<plan, there, ident, held, newest, clock, doomed>>

\* Both ends are resolved and the source is there.  That the destination is
\* not there is left to the user ("fork").  Bound: one migration at a time.
Start(r, restore) ==
  /\ pc = "idle"
  /\ r \in there
  /\ ident[r] # None
  /\ LET from == IF restore THEN ident[r] ELSE r
         to == IF restore THEN r ELSE ident[r]
     IN  /\ db[from] # Absent
         /\ "fork" \in plan \/ db[to] = Absent
         /\ job' = [root |-> r, from |-> from, to |-> to, snap |-> Absent, side |-> FALSE]
  /\ Goes("probe")
  /\ UNCHANGED <<files, gone>>

\* Mutants: only an unreadable source is refused; the sidecar is not looked for
\* by the name it has (paths.py:197-202 tells of that one).
ProbeLax ==
  /\ pc = "probe"
  /\ IF db[job.from] = Torn
     THEN Goes("idle") /\ UNCHANGED job
     ELSE Goes("copy") /\ job' = [job EXCEPT !.side = side[job.from] # Absent]
  /\ UNCHANGED <<files, gone>>
ProbeNoSidecar ==
  /\ pc = "probe"
  /\ Goes(IF Holders(job.from) # {} \/ db[job.from] = Torn THEN "idle" ELSE "copy")
  /\ UNCHANGED <<files, gone, job>>

\* Refused: a process has the source open, or it cannot be opened.  Then the
\* sidecar that has to move with it is looked for.
Probe ==
  /\ pc = "probe"
  /\ IF db[job.from] # Absent /\ (Holders(job.from) # {} \/ db[job.from] = Torn)
     THEN Goes("idle") /\ UNCHANGED job
     ELSE Goes("copy") /\ job' = [job EXCEPT !.side = side[job.from] # Absent]
  /\ UNCHANGED <<files, gone>>

\* Mutant: the file is moved.
CopyByMove ==
  /\ pc = "copy"
  /\ owner' = Noted(job.to, job.root)
  /\ db' = [db EXCEPT ![job.to] = Torn, ![job.from] = Absent]
  /\ job' = [job EXCEPT !.snap = db[job.from]]
  /\ Goes("copying")
  /\ UNCHANGED <<side, gone>>

\* A source that has gone is a failed copy, and a failed copy unlinks the
\* destination.
Copy ==
  /\ pc = "copy"
  /\ owner' = Noted(job.to, job.root)
  /\ IF db[job.from] = Absent
     THEN Remove(job.to) /\ Goes("idle") /\ UNCHANGED job
     ELSE /\ db' = [db EXCEPT ![job.to] = Torn]
          /\ job' = [job EXCEPT !.snap = db[job.from]]
          /\ Goes("copying")
          /\ UNCHANGED gone
  /\ UNCHANGED side

\* Mutant: a failed copy is left where it is.
CopiedLeft ==
  /\ pc = "copying"
  /\ \/ Goes("verify") /\ db' = [db EXCEPT ![job.to] = job.snap]
     \/ "io" \in plan /\ Goes("idle") /\ UNCHANGED db
  /\ UNCHANGED <<side, owner, gone, job>>

\* The copy of a source that was written meanwhile may be any mixture.
Copied ==
  /\ pc = "copying"
  /\ \/ /\ Goes("verify")
        /\ \E v \in {job.snap, Torn} :
             /\ v = Torn => db[job.from] \notin {job.snap, Absent}
             /\ db' = [db EXCEPT ![job.to] = v]
        /\ UNCHANGED gone
     \/ "io" \in plan /\ Remove(job.to) /\ Goes("idle")
  /\ UNCHANGED <<side, owner, job>>

\* Mutant: a copy that does not verify is left where it is.
VerifyLeft ==
  /\ pc = "verify"
  /\ Goes(IF db[job.from] # db[job.to] THEN "idle" ELSE IF job.side THEN "side" ELSE "unlink")
  /\ UNCHANGED <<files, gone, job>>

\* Both files are hashed; an end that has gone raises, and nothing is undone.
Verify ==
  /\ pc = "verify"
  /\ \/ /\ Absent \in {db[job.from], db[job.to]}
        /\ Goes("idle")
        /\ UNCHANGED <<db, gone>>
     \/ /\ Absent \notin {db[job.from], db[job.to]}
        /\ db[job.from] # db[job.to]
        /\ Remove(job.to)
        /\ Goes("idle")
     \/ /\ db[job.from] = db[job.to]
        /\ db[job.from] # Absent
        /\ Goes(IF job.side THEN "side" ELSE "unlink")
        /\ UNCHANGED <<db, gone>>
  /\ UNCHANGED <<side, owner, job>>

\* If the sidecar cannot be copied the database stays at both ends.
CopySide ==
  /\ pc = "side"
  /\ \/ /\ side[job.from] # Absent
        /\ side' = [side EXCEPT ![job.to] = side[job.from]]
        /\ Goes("unlink")
     \/ /\ side[job.from] = Absent \/ "io" \in plan
        /\ side' = [side EXCEPT ![job.to] = Absent]
        /\ Goes("idle")
  /\ UNCHANGED <<db, owner, gone, job>>

Unlink ==
  /\ pc = "unlink"
  /\ Remove(job.from)
  /\ Goes(IF job.side THEN "unlinkSide" ELSE "idle")
  /\ UNCHANGED <<side, owner, job>>

UnlinkSide ==
  /\ pc = "unlinkSide"
  /\ side' = [side EXCEPT ![job.from] = Absent]
  /\ Goes("idle")
  /\ UNCHANGED <<db, owner, gone, job>>

\* Killed or interrupted: nothing is cleaned up.
Crash ==
  /\ "crash" \in plan
  /\ pc # "idle"
  /\ Goes("idle")
  /\ UNCHANGED <<files, gone, job>>

Migration ==
  \/ \E r \in Root, restore \in BOOLEAN : Start(r, restore)
  \/ Probe \/ Copy \/ Copied \/ Verify \/ CopySide \/ Unlink \/ UnlinkSide \/ Crash

-----------------------------------------------------------------------------
(* gc --apply.                                                               *)

\* Mutant: a directory that nobody has recorded is an orphan.
OrphanedUnverifiable(i) == owner[i] \notin there \/ ident[owner[i]] # i

Orphaned(i) ==
  /\ owner[i] # None
  /\ owner[i] \notin there \/ ident[owner[i]] # i

PlanGc ==
  /\ "gc" \in plan
  /\ doomed = {}
  /\ doomed' = {i \in Id : Orphaned(i)}
  /\ UNCHANGED <<plan, files, users, pc, job>>

RemoveState(i) ==
  /\ i \in doomed
  /\ doomed' = doomed \ {i}
  /\ Remove(i)
  /\ side' = [side EXCEPT ![i] = Absent]
  /\ owner' = [owner EXCEPT ![i] = None]
  /\ UNCHANGED <<plan, there, ident, held, newest, clock, pc, job>>

-----------------------------------------------------------------------------
(* What users do with their checkouts.                                       *)

Quiet(r) == held[r] = None /\ (pc # "idle" => job.root # r)

\* A workspace gets its id, which nobody else has or ever had.
Adopt(r, i) ==
  /\ r \in there
  /\ Quiet(r)
  /\ ident[r] = None
  /\ \A s \in Root : ident[s] # i
  /\ owner[i] = None /\ db[i] = Absent /\ side[i] = Absent
  /\ ident' = [ident EXCEPT ![r] = i]
  /\ UNCHANGED <<plan, files, there, held, gone, newest, clock, pc, job, doomed>>

\* The registration of a workspace that commits no id goes, and the graph in
\* its tree, if any, is its graph again.
Forget(r) ==
  /\ "gc" \in plan
  /\ Quiet(r)
  /\ ident[r] # None
  /\ ident' = [ident EXCEPT ![r] = None]
  /\ newest' = [newest EXCEPT ![r] = IF db[r] = Torn THEN Absent ELSE db[r]]
  /\ UNCHANGED <<plan, files, there, held, gone, clock, pc, job, doomed>>

\* The files of a tree go with it.
DeleteRoot(r) ==
  /\ r \in there
  /\ Quiet(r)
  /\ there' = there \ {r}
  /\ ident' = [ident EXCEPT ![r] = None]
  /\ db' = [db EXCEPT ![r] = Absent]
  /\ side' = [side EXCEPT ![r] = Absent]
  /\ newest' = [newest EXCEPT ![r] = Absent]
  /\ UNCHANGED <<plan, owner, held, gone, clock, pc, job, doomed>>

Rename(r, s) ==
  /\ "rename" \in plan
  /\ r \in there /\ s \notin there
  /\ Quiet(r)
  /\ there' = (there \ {r}) \cup {s}
  /\ ident' = [ident EXCEPT ![s] = ident[r], ![r] = None]
  /\ db' = [db EXCEPT ![s] = db[r], ![r] = Absent]
  /\ side' = [side EXCEPT ![s] = side[r], ![r] = Absent]
  /\ newest' = [newest EXCEPT ![s] = newest[r], ![r] = Absent]
  /\ UNCHANGED <<plan, owner, held, gone, clock, pc, job, doomed>>

\* git clone or git worktree: the id is committed, the database is not.
Clone(r, s) ==
  /\ "clone" \in plan
  /\ r \in there /\ s \notin there
  /\ ident[r] # None
  /\ there' = there \cup {s}
  /\ ident' = [ident EXCEPT ![s] = ident[r]]
  /\ newest' = [newest EXCEPT ![s] = IF Resolved(r) = r THEN Absent ELSE newest[r]]
  /\ UNCHANGED <<plan, files, held, gone, clock, pc, job, doomed>>

Users ==
  \/ \E r \in Root : Open(r) \/ Write(r) \/ NoteVersion(r) \/ Close(r)
                     \/ Forget(r) \/ DeleteRoot(r)
  \/ \E r \in Root, i \in Id : Adopt(r, i)
  \/ \E r, s \in Root : Rename(r, s) \/ Clone(r, s)

Next == Migration \/ PlanGc \/ (\E i \in Id : RemoveState(i)) \/ Users

Spec == Init /\ [][Next]_vars

-----------------------------------------------------------------------------
(* Correctness.                                                              *)

Excluded(events) == plan \cap events = {}

\* "The cost of deleting the only good copy" (workspace_migrate_state.py:77-79):
\* whatever fails or is killed, a whole copy of what was last written lies in
\* the tree or in the state directory.
NewestKept ==
  Excluded({"race", "fork", "gc", "clone"}) =>
    \A r \in there : newest[r] # 0 =>
      db[r] = newest[r] \/ (ident[r] # None /\ db[ident[r]] = newest[r])

\* Unless it is killed, a migration that succeeds, refuses or fails leaves the
\* resolution (paths.py:232-258) pointing at what was last written; so does gc.
ServedNewest ==
  Excluded({"race", "fork", "crash", "clone", "rename"}) =>
    \A r \in there : Quiet(r) => db[Resolved(r)] = newest[r]

\* What a root's graph is, if the migration under way were over: its source
\* until that is unlinked.
Served(r) ==
  IF pc \in {"probe", "copy", "copying", "verify", "side", "unlink"} /\ job.root = r
  THEN db[job.from]
  ELSE db[Resolved(r)]

Undisturbed == Excluded({"race", "fork", "crash", "clone", "rename"})

Graph == INSTANCE CheckoutGraph WITH
           graph <- [r \in Root |-> IF Undisturbed /\ r \in there THEN Served(r) ELSE 0]

\* Moving databases and collecting state directories is invisible: no step of a
\* migration, whether it goes on or fails, and none of gc changes a checkout's
\* graph ("nothing is deleted that was not first confirmed to have arrived
\* intact", workspace_migrate_state.py:11-12).
ImplementsGraph == Graph!Spec

\* "Leaving no partial file behind" (workspace_migrate_state.py:71): even if
\* the source is opened and written while it is copied.
NoTornLeft ==
  Excluded({"crash", "gc"}) =>
    \A p \in Place : db[p] = Torn => pc # "idle" /\ job.to = p

\* No process is left with a file that a migration has removed under it
\* (liveness.py:3-5).
NoneDetached ==
  Excluded({"race", "fork", "gc"}) => gone = {}

\* A sidecar of a root's two places was written for its newest version.
HasMark(r) == newest[r] # 0 /\ ident[r] # None /\ newest[r] \in {side[r], side[ident[r]]}

\* "The freshness watermark travels with the database so a migrated graph does
\* not look stale and re-index on first use" (docs/multi-project.md:163-165):
\* it is not lost, and when no migration is under way it lies where the
\* database is resolved.
MarkTravels ==
  [][Excluded({"race", "fork", "crash", "io", "clone", "rename"}) =>
       \A r \in there \cap there' :
         HasMark(r) /\ newest'[r] = newest[r] /\ ident'[r] = ident[r] =>
           (HasMark(r) /\ (Quiet(r) => side[Resolved(r)] = newest[r]))']_vars

\* gc removes no state directory that a checkout resolves to, although the
\* user goes on working between its plan and the removal.
GcSpares ==
  [][Excluded({"clone", "rename"}) =>
       \A i \in doomed \ doomed' : \A r \in there : ident[r] # i]_vars

\* When the graph in a tree is ignored, doctor says to "run migrate-state
\* --restore to go back to the workspace-root one" (doctor.py:852-856, and
\* docs/multi-project.md:409-412): so restoring does not lose that one.
IgnoredKept ==
  [][\A r \in there \cap there' :
       db[r] > 0 /\ ident[r] # None /\ Resolved(r) # r =>
         db[r] \in {db'[r], db'[ident[r]]}]_vars
=============================================================================
