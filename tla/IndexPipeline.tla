---------------------------- MODULE IndexPipeline ----------------------------
(***************************************************************************)
(* The index runs of graph/pipeline.py and graph/incremental.py: how the   *)
(* knowledge graph follows a source tree and the governance documents that *)
(* change while a run is reading them.                                     *)
(*                                                                         *)
(* A run holds the graph write lock from its start to its end, so there is *)
(* one at a time.  DuckDB commits every statement on its own; a step below *)
(* is a group of statements that a run does for one file, or for the graph *)
(* as a whole, and a run may die between any two of them.  The no-op probe *)
(* without the lock answers only what Diff would answer, and is left out.  *)
(*                                                                         *)
(* A version of a file stands for its content, hash, size and mtime.  Of   *)
(* the edges, IMPORTS and PLAN_IMPACTS are kept, and the DEFINES edges by  *)
(* which a file's definitions are found: calls, inheritance and            *)
(* configuration references are resolved in the phase and scope of the     *)
(* imports.  One kind of definition stands for functions, classes, methods *)
(* and interfaces, which are dropped one kind after the other.             *)
(***************************************************************************)
EXTENDS Naturals

CONSTANTS
  File,         \* the indexable paths of the workspace
  Imports,      \* [File -> [Version -> SUBSET File]]: what a version imports
  Impacts,      \* [Doc -> SUBSET File]: the files that the plans speak of
  MaxVersion,   \* bound: how often a file is changed
  MaxDoc,       \* bound: how often the governance documents are changed
  MaxFaults     \* bound: how often something goes wrong

Version == 1..MaxVersion
Doc == 1..MaxDoc

\* What repairs a fault that the changeset and the fingerprint cannot see: a
\* full run that clears the graph first, a full run that parses every file, or
\* an ingestion of the governance documents.
Debts == {"clear", "parse", "govern"}

ASSUME PipelineAssumption ==
  /\ MaxVersion \in Nat /\ MaxDoc \in Nat \ {0} /\ MaxFaults \in Nat
  /\ Imports \in [File -> [Version -> SUBSET File]]
  /\ Impacts \in [Doc -> SUBSET File]

VARIABLES
  tree,         \* per file: the version on disk, 0 when there is no such file
  last,         \* per file: the latest version there has been
  doc,          \* the version of the governance documents
  node,         \* per file: the version its File row has the hash of, 0 if none
  defs,         \* per file: the versions its definitions were extracted from
  defines,      \* per file: those of them that its DEFINES edges lead to
  imports,      \* the IMPORTS edges
  gov,          \* the versions that the governance rows were ingested from
  impacts,      \* the files with a PLAN_IMPACTS edge
  pstate,       \* pipelineState, "none" while there is no database
  phases,       \* how many phases phasesCompleted lists while it is partial
  stamp,        \* the version in the governance fingerprint file, 0 if none
  pc,           \* where the run is, "idle" between runs
  mode,         \* "full" or "incremental"
  todo,         \* the files that the current loop has yet to visit
  at,           \* the file some statements of which are done and others not
  found,        \* the versions of the definitions that those statements are about
  changed,      \* the added and modified files of the changeset
  deleted,      \* its deleted files
  dependents,   \* the direct importers of all of these
  refresh,      \* the governance documents are to be ingested again
  seen,         \* current_gov_fp, the fingerprint as the run saw it first
  faults,       \* how many faults there have been
  owed          \* history: what must be done again to repair a fault, see Debts

disk == <<tree, last, doc>>
graph == <<node, defs, defines, imports, gov, impacts>>
meta == <<pstate, phases>>
harm == <<faults, owed>>
changeset == <<changed, deleted, dependents, refresh, seen>>
place == <<pc, todo, at, found>>
vars == <<disk, graph, meta, stamp, place, mode, changeset, harm>>

PC == {"idle", "clear", "clearFiles", "clearRest", "structure", "parse", "resolve",
       "govern", "stamp", "finish", "diff", "drop", "dropDefs", "dropEdges", "dropRow",
       "add", "link", "clearGov"}

TypeOK ==
  /\ tree \in [File -> Version \cup {0}]
  /\ last \in [File -> Version \cup {0}]
  /\ doc \in Doc
  /\ node \in [File -> Version \cup {0}]
  /\ defs \in [File -> SUBSET Version] /\ defines \in [File -> SUBSET Version]
  /\ imports \subseteq File \X File
  /\ gov \subseteq Doc
  /\ impacts \subseteq File
  /\ pstate \in {"none", "initialized", "partial", "failed", "complete"}
  /\ phases \in {0, 1, 2, 3}
  /\ stamp \in Doc \cup {0}
  /\ pc \in PC
  /\ mode \in {"full", "incremental"}
  /\ todo \subseteq File /\ at \subseteq File /\ found \subseteq Version
  /\ changed \subseteq File
  /\ deleted \subseteq File /\ dependents \subseteq File
  /\ refresh \in BOOLEAN
  /\ seen \in Doc \cup {0}
  /\ faults \in Nat /\ owed \subseteq Debts
-----------------------------------------------------------------------------
Init ==
  /\ tree = [f \in File |-> 0]
  /\ last = tree
  /\ doc = 1
  /\ node = [f \in File |-> 0]
  /\ defs = [f \in File |-> {}] /\ defines = defs
  /\ imports = {} /\ gov = {} /\ impacts = {}
  /\ pstate = "none" /\ phases = 0 /\ stamp = 0
  /\ pc = "idle" /\ mode = "full"
  /\ todo = {} /\ at = {} /\ found = {}
  /\ changed = {} /\ deleted = {} /\ dependents = {}
  /\ refresh = FALSE /\ seen = 0
  /\ faults = 0 /\ owed = {}

Indexed == {f \in File : node[f] # 0}
OnDisk == {f \in File : tree[f] # 0}

\* What the import statements of f, as it is on disk, resolve to.
Targets(f) ==
  IF tree[f] = 0 THEN {} ELSE {g \in Imports[f][tree[f]] : tree[g] # 0 /\ node[g] # 0}

AtIn(label, m) == pc = label /\ mode = m
Enter(label, files) == pc' = label /\ todo' = files /\ at' = {} /\ found' = {}

\* A loop over files, in any order: the step for one file, or the loop's end.
Visit(f) == f \in todo /\ todo' = todo \ {f} /\ UNCHANGED <<pc, at, found>>

\* The first of several statements for one file, the next of which is about the
\* definitions vs; one that others follow; and the last, which ends the visit.
Begin(f, label, vs) ==
  f \in todo /\ todo' = todo \ {f} /\ pc' = label /\ at' = {f} /\ found' = vs
Continue(label) == pc' = label /\ found' = {} /\ UNCHANGED <<todo, at>>
EndOf(label) == Enter(label, todo)

Return ==
  /\ Enter("idle", {})
  /\ mode' = "full"
  /\ changed' = {} /\ deleted' = {} /\ dependents' = {}
  /\ refresh' = FALSE /\ seen' = 0

\* One fault more, after which these debts are open.
Suffer(debts) ==
  /\ faults < MaxFaults
  /\ faults' = faults + 1 /\ owed' = owed \cup debts

(***************************************************************************)
(* The working tree, which nobody locks.                                   *)
(***************************************************************************)
Edit(f) ==
  /\ last[f] < MaxVersion
  /\ last' = [last EXCEPT ![f] = @ + 1]
  /\ tree' = [tree EXCEPT ![f] = last[f] + 1]
  /\ UNCHANGED <<doc, graph, meta, stamp, place, mode, changeset, harm>>

Delete(f) ==
  /\ tree[f] # 0
  /\ tree' = [tree EXCEPT ![f] = 0]
  /\ UNCHANGED <<last, doc, graph, meta, stamp, place, mode, changeset, harm>>

\* An earlier content of the file comes back, with its mtime or its hash.
Revert(f) ==
  /\ \E v \in 1..last[f] : v # tree[f] /\ tree' = [tree EXCEPT ![f] = v]
  /\ Suffer({"clear"})
  /\ UNCHANGED <<last, doc, graph, meta, stamp, place, mode, changeset>>

\* The fingerprint that a full run takes covers an edit it has not ingested.
EditDoc ==
  /\ doc < MaxDoc
  /\ doc' = doc + 1
  /\ \/ ~AtIn("stamp", "full") /\ UNCHANGED harm
     \/ AtIn("stamp", "full") /\ Suffer({"govern"})
  /\ UNCHANGED <<tree, last, graph, meta, stamp, place, mode, changeset>>

(***************************************************************************)
(* run_pipeline without incremental: a run from scratch, or the rest of a  *)
(* run that died, by the phases that the graph says it completed.          *)
(***************************************************************************)
StartFull ==
  /\ pc = "idle" /\ mode' = "full"
  /\ pstate' = IF pstate = "none" THEN "initialized" ELSE pstate
  /\ \/ /\ pstate \in {"failed", "complete"}
        /\ phases' = 0 /\ Enter("clear", {})
     \/ /\ pstate \in {"none", "initialized"}
        /\ phases' = 0 /\ Enter("structure", File)
     \/ /\ pstate = "partial" /\ UNCHANGED phases
        /\ \/ phases = 1 /\ Enter("parse", Indexed)
           \/ phases = 2 /\ Enter("resolve", Indexed)
           \/ phases = 3 /\ Enter("govern", {})
  /\ UNCHANGED <<disk, graph, stamp, changeset, harm>>

\* clear_derived: the edge tables, then the node tables one after the other.
ClearEdges ==
  /\ pc = "clear" /\ Enter("clearFiles", {})
  /\ defines' = [f \in File |-> {}] /\ imports' = {} /\ impacts' = {}
  /\ UNCHANGED <<disk, node, defs, gov, meta, stamp, mode, changeset, harm>>

ClearFiles ==
  /\ pc = "clearFiles" /\ Enter("clearRest", {})
  /\ node' = [f \in File |-> 0]
  /\ UNCHANGED <<disk, defs, defines, imports, gov, impacts, meta, stamp, mode, changeset, harm>>

ClearRest ==
  /\ pc = "clearRest" /\ Enter("structure", File)
  /\ defs' = [f \in File |-> {}] /\ gov' = {}
  /\ owed' = {} /\ UNCHANGED faults
  /\ UNCHANGED <<disk, node, defines, imports, impacts, meta, stamp, mode, changeset>>

\* A row that a run left behind before it died is kept: ON CONFLICT DO NOTHING.
Structure(f) ==
  /\ pc = "structure" /\ Visit(f)
  /\ node' = IF node[f] = 0 THEN [node EXCEPT ![f] = tree[f]] ELSE node
  /\ UNCHANGED <<disk, defs, defines, imports, gov, impacts, meta, stamp, mode, changeset, harm>>

\* Mutant: the completed phases are appended to, by a run that resumes as well.
PhaseDoneAppended(n) == pstate' = "partial" /\ phases' = phases + n

PhaseDone(n) == pstate' = "partial" /\ phases' = n

StructureDone ==
  /\ pc = "structure" /\ todo = {}
  /\ Enter("parse", Indexed) /\ PhaseDone(1)
  /\ UNCHANGED <<disk, graph, stamp, mode, changeset, harm>>

(***************************************************************************)
(* The phases that both modes run, on all files or on the affected ones.   *)
(***************************************************************************)
\* process_parsing of one file: its definition rows, of the content read here.
Parse(f) ==
  /\ pc = "parse" /\ tree[f] # 0
  /\ Begin(f, "link", {tree[f]})
  /\ defs' = [defs EXCEPT ![f] = @ \cup {tree[f]}]
  /\ UNCHANGED <<disk, node, defines, imports, gov, impacts, meta, stamp, mode, changeset, harm>>

\* ... and the DEFINES edges from the file to these rows.
LinkDefs(f) ==
  /\ pc = "link" /\ at = {f} /\ EndOf("parse")
  /\ defines' = [defines EXCEPT ![f] = @ \cup found]
  /\ UNCHANGED <<disk, node, defs, imports, gov, impacts, meta, stamp, mode, changeset, harm>>

\* A file that is gone, or cannot be read, is skipped with its share of the graph.
Skip(f) ==
  /\ pc = "parse" /\ Visit(f)
  /\ \/ tree[f] = 0 /\ UNCHANGED harm
     \/ tree[f] # 0 /\ Suffer({"clear"})
  /\ UNCHANGED <<disk, graph, meta, stamp, mode, changeset>>

ParseFile(f) == Parse(f) \/ LinkDefs(f) \/ Skip(f)

\* Mutant: the phase is given the scope of an incremental run, here of nothing.
ParseDoneScoped ==
  /\ AtIn("parse", "full") /\ todo = {}
  /\ Enter("resolve", changed) /\ PhaseDone(2)
  /\ owed' = owed \ {"parse"} /\ UNCHANGED faults
  /\ UNCHANGED <<disk, graph, stamp, mode, changeset>>

ParseDone ==
  /\ AtIn("parse", "full") /\ todo = {}
  /\ Enter("resolve", Indexed) /\ PhaseDone(2)
  /\ owed' = owed \ {"parse"} /\ UNCHANGED faults
  /\ UNCHANGED <<disk, graph, stamp, mode, changeset>>

Resolve(f) ==
  /\ pc = "resolve" /\ Visit(f)
  /\ imports' = imports \cup ({f} \X Targets(f))
  /\ UNCHANGED <<disk, node, defs, defines, gov, impacts, meta, stamp, mode, changeset, harm>>

ResolveDone ==
  /\ AtIn("resolve", "full") /\ todo = {}
  /\ Enter("govern", {}) /\ PhaseDone(3)
  /\ UNCHANGED <<disk, graph, stamp, mode, changeset, harm>>

\* process_governance; a full run is complete at this point already.
Govern ==
  /\ pc = "govern" /\ Enter("stamp", {})
  /\ gov' = gov \cup {doc} /\ impacts' = impacts \cup (Impacts[doc] \cap Indexed)
  /\ pstate' = IF mode = "full" THEN "complete" ELSE pstate
  /\ owed' = owed \ {"govern"} /\ UNCHANGED faults
  /\ UNCHANGED <<disk, node, defs, defines, imports, phases, stamp, mode, changeset>>

\* Mutant: every run takes the fingerprint when it has ingested the documents.
StampNow ==
  /\ pc = "stamp" /\ Enter("finish", {})
  /\ stamp' = doc
  /\ UNCHANGED <<disk, graph, meta, mode, changeset, harm>>

\* A full run takes the fingerprint now; an incremental one took it at its start.
Stamp ==
  /\ pc = "stamp" /\ Enter("finish", {})
  /\ stamp' = IF mode = "full" THEN doc ELSE seen
  /\ UNCHANGED <<disk, graph, meta, mode, changeset, harm>>

Finish ==
  /\ pc = "finish" /\ Return
  /\ pstate' = "complete" /\ phases' = 0
  /\ UNCHANGED <<disk, graph, stamp, harm>>
-----------------------------------------------------------------------------
(***************************************************************************)
(* _run_incremental: the changeset, and the work that it calls for.        *)
(***************************************************************************)
StartIncremental ==
  /\ pc = "idle" /\ Enter("diff", {}) /\ mode' = "incremental"
  /\ pstate' = IF pstate = "none" THEN "initialized" ELSE pstate
  /\ UNCHANGED <<disk, graph, phases, stamp, changeset, harm>>

Added == OnDisk \ Indexed
Modified == {f \in OnDisk \cap Indexed : node[f] # tree[f]}

\* Mutant: only files that are on disk are compared.
DeletedForgotten == {}

Deleted == Indexed \ OnDisk
UpToDate == Added \cup Modified \cup Deleted = {} /\ stamp = doc

\* Nothing to do: the run ends here.
Noop ==
  /\ pc = "diff" /\ UpToDate
  /\ Return
  /\ pstate' = "complete" /\ phases' = 0
  /\ UNCHANGED <<disk, graph, stamp, harm>>

\* The importers are asked of the graph as it is, before any row is dropped.
Diff ==
  /\ pc = "diff" /\ ~UpToDate
  /\ changed' = Added \cup Modified /\ deleted' = Deleted
  /\ dependents' = {f \in File : \E g \in Added \cup Modified \cup Deleted :
                                    <<f, g>> \in imports}
  /\ refresh' = (stamp # doc \/ Added # {} \/ Deleted # {})
  /\ seen' = doc
  /\ Enter("drop", Modified \cup Deleted)
  /\ UNCHANGED <<disk, graph, meta, stamp, mode, harm>>

(***************************************************************************)
(* remove_file_nodes.  The definitions of a file are found by its DEFINES  *)
(* edges, and those are deleted before the rows that they lead to.         *)
(***************************************************************************)
CutDefines(f) ==
  /\ pc = "drop"
  /\ Begin(f, IF defines[f] = {} THEN "dropEdges" ELSE "dropDefs", defines[f])
  /\ defines' = [defines EXCEPT ![f] = {}]
  /\ UNCHANGED <<disk, node, defs, imports, gov, impacts, meta, stamp, mode, changeset, harm>>

\* Mutant: the definitions are looked up when their edges are gone already.
DropDefsLate(f) ==
  /\ pc = "dropDefs" /\ at = {f} /\ Continue("dropEdges")
  /\ defs' = [defs EXCEPT ![f] = @ \ defines[f]]
  /\ UNCHANGED <<disk, node, defines, imports, gov, impacts, meta, stamp, mode, changeset, harm>>

DropDefs(f) ==
  /\ pc = "dropDefs" /\ at = {f} /\ Continue("dropEdges")
  /\ defs' = [defs EXCEPT ![f] = @ \ found]
  /\ UNCHANGED <<disk, node, defines, imports, gov, impacts, meta, stamp, mode, changeset, harm>>

\* Mutant: the edges that the importers of the file own are left alone.
DropOwnEdges(f) ==
  /\ pc = "dropEdges" /\ at = {f} /\ Continue("dropRow")
  /\ imports' = {e \in imports : e[1] # f}
  /\ impacts' = impacts \ {f}
  /\ UNCHANGED <<disk, node, defs, defines, gov, meta, stamp, mode, changeset, harm>>

\* Every other edge that the file is an end of, whoever owns it.
DropEdges(f) ==
  /\ pc = "dropEdges" /\ at = {f} /\ Continue("dropRow")
  /\ imports' = {e \in imports : e[1] # f /\ e[2] # f}
  /\ impacts' = impacts \ {f}
  /\ UNCHANGED <<disk, node, defs, defines, gov, meta, stamp, mode, changeset, harm>>

DropRow(f) ==
  /\ pc = "dropRow" /\ at = {f} /\ EndOf("drop")
  /\ node' = [node EXCEPT ![f] = 0]
  /\ UNCHANGED <<disk, defs, defines, imports, gov, impacts, meta, stamp, mode, changeset, harm>>

RemoveFile(f) == CutDefines(f) \/ DropDefs(f) \/ DropEdges(f) \/ DropRow(f)

DropDone ==
  /\ pc = "drop" /\ todo = {} /\ Enter("add", changed)
  /\ UNCHANGED <<disk, graph, meta, stamp, mode, changeset, harm>>

\* add_file_node, of the file as it is by now.
Add(f) ==
  /\ pc = "add" /\ Visit(f)
  /\ node' = [node EXCEPT ![f] = tree[f]]
  /\ UNCHANGED <<disk, defs, defines, imports, gov, impacts, meta, stamp, mode, changeset, harm>>

AddDone ==
  /\ pc = "add" /\ todo = {} /\ Enter("parse", changed \cap Indexed)
  /\ UNCHANGED <<disk, graph, meta, stamp, mode, changeset, harm>>

Affected == ((changed \cup dependents) \ deleted) \cap Indexed

\* process_imports on the affected files: it clears their edges, then resolves.
\* Nothing after this asks for the changeset again, so it is forgotten here.
Scope ==
  /\ AtIn("parse", "incremental") /\ todo = {} /\ Enter("resolve", Affected)
  /\ imports' = {e \in imports : e[1] \notin Affected}
  /\ changed' = {} /\ deleted' = {} /\ dependents' = {}
  /\ UNCHANGED <<disk, node, defs, defines, gov, impacts, meta, stamp, mode, refresh, seen, harm>>

\* The governance documents are ingested again only if they, or the set of
\* files, changed.
Scoped ==
  /\ AtIn("resolve", "incremental") /\ todo = {}
  /\ \/ refresh /\ Enter("clearGov", {})
     \/ ~refresh /\ Enter("finish", {})
  /\ UNCHANGED <<disk, graph, meta, stamp, mode, changeset, harm>>

ClearGovernance ==
  /\ pc = "clearGov" /\ Enter("govern", {})
  /\ gov' = {} /\ impacts' = {}
  /\ UNCHANGED <<disk, node, defs, defines, imports, meta, stamp, mode, changeset, harm>>

(***************************************************************************)
(* Faults.                                                                 *)
(***************************************************************************)
\* What a run that stops here leaves undone and the next changeset will not see.
\* Definition rows without their edges are found by no later drop, and the next
\* parse keeps them: the row of a file is current while they are not its own.
\* An incremental run does not complete an earlier run that was to be resumed:
\* resuming that one adds its governance rows to those of the incremental run.
Abandoned ==
  {d \in Debts :
     \/ d = "clear" /\ pc \in {"clearFiles", "clearRest", "dropDefs", "link"}
     \/ d = "clear" /\ pc \in {"stamp", "finish"} /\ mode = "incremental"
        /\ pstate \in {"initialized", "partial"}
     \/ d = "parse" /\ (pc \in {"add", "parse"} \/ AtIn("structure", "full"))
     \/ d = "govern" /\ stamp = doc
        /\ pc \in {"clearFiles", "clearRest", "structure", "parse", "link", "resolve",
                                      "govern"}
        /\ (mode = "full" \/ pc = "govern")}

\* The process dies, or _run_incremental raises: the graph stays as it is.
Crash ==
  /\ pc # "idle" /\ Return
  /\ Suffer(Abandoned)
  /\ UNCHANGED <<disk, graph, meta, stamp>>

\* A full run records which phase failed, and its successor starts from scratch.
PhaseFails ==
  /\ mode = "full" /\ pc \in {"structure", "parse", "link", "resolve"}
  /\ Return
  /\ pstate' = "failed" /\ phases' = 0
  /\ Suffer(Abandoned)
  /\ UNCHANGED <<disk, graph, stamp>>

\* "Governance failure is non-fatal": the run completes without its rows.
GovernanceFails ==
  /\ pc = "govern" /\ Enter("finish", {})
  /\ Suffer(Abandoned)
  /\ UNCHANGED <<disk, graph, meta, stamp, mode, changeset>>
-----------------------------------------------------------------------------
Loops ==
  \E f \in File :
    Structure(f) \/ ParseFile(f) \/ Resolve(f) \/ RemoveFile(f) \/ Add(f)

RunStep ==
  \/ ClearEdges \/ ClearFiles \/ ClearRest \/ StructureDone \/ ParseDone \/ ResolveDone
  \/ Loops \/ Govern \/ Stamp \/ Finish
  \/ Noop \/ Diff \/ DropDone \/ AddDone \/ Scope \/ Scoped \/ ClearGovernance

Environment == EditDoc \/ \E f \in File : Edit(f) \/ Delete(f) \/ Revert(f)

Fault == Crash \/ PhaseFails \/ GovernanceFails

Next == StartFull \/ StartIncremental \/ RunStep \/ Environment \/ Fault

Spec == Init /\ [][Next]_vars

\* A run goes on until it ends, and the next incremental one is started.
FairSpec == Spec /\ WF_vars(RunStep) /\ WF_vars(StartIncremental)
-----------------------------------------------------------------------------
(***************************************************************************)
(* Properties.                                                             *)
(***************************************************************************)
\* A row with the hash of the file on disk: the next changeset passes it over.
Unchanged(f) == node[f] # 0 /\ node[f] = tree[f]

\* A file that the changeset takes for unchanged has the definitions of exactly
\* that content: whatever was edited while a run read the file twice, once for
\* its hash (add_file_node) and once for its definitions (process_parsing).  All
\* of them hang on the file, so that the next drop will find them.
UnchangedIsParsed ==
  pc = "idle" /\ owed \cap {"clear", "parse"} = {} =>
    \A f \in File : Unchanged(f) => defs[f] = {node[f]} /\ defines[f] = defs[f]

\* While the fingerprint says that the governance documents are the ones that
\* were ingested, the rows are those of these documents and of no others, also
\* when a document was edited during the run that wrote the fingerprint.
GovernanceTracked ==
  pc = "idle" /\ owed \cap {"clear", "govern"} = {} /\ stamp = doc => gov = {doc}

\* Impact analysis shows no phantom: an edge out of a file whose row is current
\* is an import that this content has, of a file that has a row, after any
\* number of runs, crashed ones included.
ImportsSound ==
  pc = "idle" /\ "clear" \notin owed =>
    \A e \in imports : Unchanged(e[1]) => e[2] \in Imports[e[1]][tree[e[1]]] /\ node[e[2]] # 0

Linked ==
  \A f, g \in File :
    Unchanged(f) /\ Unchanged(g) /\ g \in Imports[f][tree[f]] => <<f, g>> \in imports

\* ... and a full run leaves no import out: when it has resolved the files, also
\* if it resumes a run that died and files are edited under it, the edges of
\* every import from one unchanged file to another are there.
FullRunResolves ==
  [][AtIn("resolve", "full") /\ pc' = "govern" /\ "clear" \notin owed => Linked]_vars

\* The graph says of every file and document what a run from scratch would say.
Faithful ==
  /\ \A f \in File : node[f] = tree[f] /\ defs[f] = {tree[f]} \ {0}
  /\ stamp = doc /\ gov = {doc}

\* "Nothing to do" is never said of a graph that is wrong: when no fault is left
\* to be repaired and the next run would find no change (pipeline.py:658-708),
\* rows, definitions and governance documents are those that are on disk.
UpToDateIsFaithful == pc = "idle" /\ owed = {} /\ UpToDate => Faithful

\* Once the faults are over and what they left undone is done, the graph catches
\* up with the tree and the documents and stays so, however edits and runs overlapped.
CaughtUp ==
  <>[](owed = {}) => <>[](pc = "idle" => Faithful)

\* pipeline.py:807-812: a run that only modifies code may skip the governance
\* documents since it rewires no plan-impact edge.  So the plans' edges to the
\* indexed files are there whenever the documents are up to date.
ImpactsKept ==
  pc = "idle" /\ owed = {} /\ stamp = doc /\ gov = {doc} =>
    impacts = Impacts[doc] \cap Indexed
=============================================================================
