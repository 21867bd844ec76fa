--------------------------- MODULE GovernanceStore ---------------------------
(***************************************************************************)
(* Findings, backlog items and sessions: what agents record, kept in the   *)
(* graph database and written through to an artifact committed to git      *)
(* (graph/governance_store.py, findings.py, backlog.py, sessions.py,       *)
(* prune.py), restored from it by the index (graph/governance.py) and      *)
(* carried over a rebuild of the database when the schema changes          *)
(* (graph/pipeline.py).                                                    *)
(*                                                                         *)
(* One process works on the database at a time: the index holds the graph  *)
(* write lock throughout, a tool holds it around each write and the write  *)
(* that follows it, and DuckDB opens a file for one process.  Git, a user  *)
(* who deletes the cache, and crashes respect neither.                     *)
(***************************************************************************)
EXTENDS Naturals

CONSTANTS
  Item,        \* findings and backlog items, by the hash of their content
  Session,     \* session ids; uuids, so never used twice
  PlanText,    \* the items whose text stands in a plan document
  MaxVersion,  \* the last schema version the program reaches
  None,        \* no session
  Plans        \* what a behaviour may meet: events, and the rows they are about

Row == Item \cup Session
Status == {"absent", "open", "done"}
Rows == [Row -> Status]
Empty == [r \in Row |-> "absent"]
Events == {"crash", "io", "import", "phase", "force",
           "upgrade", "delete", "pull", "conflict"}

ASSUME StoreAssumption ==
  /\ PlanText \subseteq Item
  /\ Item \cap Session = {}
  /\ None \notin Session
  /\ MaxVersion \in Nat \ {0}
  /\ Plans \subseteq [events : SUBSET Events, rows : SUBSET Row]

VARIABLES
  plan,      \* the faults and outside events of this behaviour, and its rows
  version,   \* the schema version of the program
  stored,    \* the schema version of the database; 0: there is no database
  graph,     \* the rows of the database
  artifact,  \* the rows of the artifact in the working tree
  readable,  \* whether the artifact parses; FALSE: conflict markers
  exports,   \* graph_export_v<n>.json for every version n
  pc,        \* where the process that works on the database is
  todo,      \* the rows it will answer for, or has yet to delete
  fresh,     \* the session it creates after closing others
  from,      \* the version whose export it holds in memory
  told       \* the status of every row when a caller was last answered about it

disk == <<graph, stored, artifact, readable, exports>>
proc == <<pc, todo, fresh, from>>
vars == <<plan, version, disk, proc, told>>

TypeOK ==
  /\ plan \in Plans
  /\ version \in 1..MaxVersion
  /\ stored \in 0..version
  /\ graph \in Rows
  /\ artifact \in Rows
  /\ readable \in BOOLEAN
  /\ exports \in [1..MaxVersion -> Rows]
  /\ pc \in {"idle", "sync", "create", "prune",
             "export", "clear", "import", "phases", "texts"}
  /\ todo \subseteq Row
  /\ fresh \in Session \cup {None}
  /\ from \in 0..MaxVersion
  /\ told \in [Row -> Status \cup {"pruned"}]

Init ==
  /\ plan \in Plans
  /\ version = 1
  /\ stored = 0
  /\ graph = Empty
  /\ artifact = Empty
  /\ readable = TRUE
  /\ exports = [v \in 1..MaxVersion |-> Empty]
  /\ pc = "idle"
  /\ todo = {}
  /\ fresh = None
  /\ from = 0
  /\ told = Empty

\* Mutant of Inserted: the rows that come in win (ON CONFLICT DO UPDATE).
InsertedOver(rows, S) ==
  [r \in Row |-> IF rows[r] # "absent" /\ r \in S THEN rows[r] ELSE graph[r]]

\* Inserting rows never changes one that is there (ON CONFLICT DO NOTHING);
\* only those of S have been inserted.
Inserted(rows, S) ==
  [r \in Row |-> IF graph[r] = "absent" /\ r \in S THEN rows[r] ELSE graph[r]]

Marked(S, status) == [r \in Row |-> IF r \in S THEN status ELSE graph[r]]

\* Mutant of OpenSessions: the query asks for a status that no session has.
OpenSessionsNone == {s \in Session : graph[s] = "pruned"}

OpenSessions == {s \in Session : graph[s] = "open"}

\* Finished: the process closes the database.
Close ==
  /\ pc' = "idle"
  /\ todo' = {}
  /\ fresh' = None
  /\ from' = 0

\* Mutant of Opens: a database that is not there is made.
OpensAnyway == pc = "idle"

\* A tool opens the database only if there is one.
Opens == pc = "idle" /\ stored # 0

\* The tool has changed the rows of graph' and goes on to write them through.
Commit(S, s) ==
  /\ pc' = "sync"
  /\ todo' = S
  /\ fresh' = s
  /\ UNCHANGED <<plan, version, stored, artifact, readable, exports, from, told>>

-----------------------------------------------------------------------------
(* The tools. *)

Record(S) ==
  /\ Opens
  /\ S # {}
  /\ graph' = Inserted([r \in Row |-> "open"], S)
  /\ Commit(S, None)

ResolveUnmapped(r) ==  \* mutant: the disposition is stored as it was spelt
  /\ Opens
  /\ graph[r] # "absent"
  /\ graph' = Marked({r}, "resolved")
  /\ Commit({r}, None)

\* Dispose of a finding, archive a backlog item, end a session; a row that is
\* not there is answered with not_found.
Resolve(r) ==
  /\ Opens
  /\ graph[r] # "absent"
  /\ graph' = Marked({r}, "done")
  /\ Commit({r}, None)

Unused(s) ==
  /\ graph[s] = "absent" /\ artifact[s] = "absent" /\ told[s] = "absent"
  /\ \A v \in 1..MaxVersion : exports[v][s] = "absent"

\* The sessions in S are idle, or the caller forces a new one: they are closed
\* first, and written through.  A session that is still open is reused.
StartSession(s, S) ==
  /\ Opens
  /\ Unused(s)
  /\ S \subseteq OpenSessions
  /\ \/ /\ S # {}
        /\ graph' = Marked(S, "done")
        /\ Commit(S, IF S = OpenSessions THEN s ELSE None)
     \/ /\ S = {} /\ OpenSessions # {}
        /\ UNCHANGED graph
        /\ Commit({}, None)
     \/ /\ OpenSessions = {}
        /\ graph' = Marked({s}, "open")
        /\ Commit({s}, None)

CreateSession ==
  /\ pc = "create"
  /\ graph' = Marked({fresh}, "open")
  /\ Commit({fresh}, None)

\* Rewrite the artifact from the graph, by rename; a failure is only logged.
\* Then the caller gets its answer.
Sync ==
  /\ pc = "sync"
  /\ \/ artifact' = graph /\ readable' = TRUE
     \/ "io" \in plan.events /\ UNCHANGED <<artifact, readable>>
  /\ told' = [r \in Row |-> IF r \in todo THEN graph[r] ELSE told[r]]
  /\ IF fresh = None
     THEN Close
     ELSE pc' = "create" /\ UNCHANGED <<todo, fresh, from>>
  /\ UNCHANGED <<plan, version, stored, graph, exports>>

\* Disposed items and old sessions, the open ones too, may be selected.
Prune(S) ==
  /\ Opens
  /\ S # {}
  /\ \A r \in S : graph[r] = "done" \/ (r \in Session /\ graph[r] # "absent")
  /\ pc' = "prune"
  /\ todo' = S
  /\ UNCHANGED <<plan, version, disk, fresh, from, told>>

DeleteRow(r) ==
  /\ pc = "prune"
  /\ r \in todo
  /\ graph' = Marked({r}, "absent")
  /\ told' = [told EXCEPT ![r] = "pruned"]
  /\ todo' = todo \ {r}
  /\ UNCHANGED <<plan, version, stored, artifact, readable, exports, pc, fresh, from>>

PrunedQuietly ==  \* mutant: the deletions are not written through
  /\ pc = "prune"
  /\ todo = {}
  /\ Close
  /\ UNCHANGED <<plan, version, disk, told>>

Pruned ==
  /\ pc = "prune"
  /\ todo = {}
  /\ UNCHANGED graph
  /\ Commit({}, None)

-----------------------------------------------------------------------------
(* The index, as far as it touches these rows: a full run, or an incremental *)
(* one that found the governance files changed.                              *)

StartIndex ==
  /\ pc = "idle"
  /\ pc' = IF stored \in 1..(version - 1) THEN "export" ELSE "phases"
  /\ stored' = IF stored = 0 THEN version ELSE stored
  /\ UNCHANGED <<plan, version, graph, artifact, readable, exports, todo, fresh, from, told>>

ExportOpen ==  \* mutant: the rebuild goes on without the export
  /\ pc = "export"
  /\ \/ exports' = [exports EXCEPT ![stored] = graph]
     \/ "io" \in plan.events /\ UNCHANGED exports
  /\ pc' = "clear"
  /\ from' = stored
  /\ UNCHANGED <<plan, version, stored, graph, artifact, readable, told, todo, fresh>>

\* Fail-closed: without the export the rebuild is given up, and the database
\* is left alone.
Export ==
  /\ pc = "export"
  /\ \/ /\ exports' = [exports EXCEPT ![stored] = graph]
        /\ pc' = "clear"
        /\ from' = stored
        /\ UNCHANGED <<todo, fresh>>
     \/ "io" \in plan.events /\ UNCHANGED exports /\ Close
  /\ UNCHANGED <<plan, version, stored, graph, artifact, readable, told>>

\* --force-rebuild: the user lets the rows go that could not be exported.
ForceRebuild ==
  /\ pc = "export"
  /\ {"io", "force"} \subseteq plan.events
  /\ pc' = "clear"
  /\ from' = 0
  /\ told' = Empty
  /\ UNCHANGED <<plan, version, disk, todo, fresh>>

Clear ==
  /\ pc = "clear"
  /\ graph' = Empty
  /\ stored' = version
  /\ pc' = IF from = 0 THEN "phases" ELSE "import"
  /\ UNCHANGED <<plan, version, artifact, readable, exports, todo, fresh, from, told>>

\* What is being inserted: the export held in memory, the artifact - one that
\* does not parse is logged and skipped - or the findings of the plans' text.
Texts == [r \in Row |-> IF r \in PlanText THEN "open" ELSE "absent"]

Incoming ==
  IF pc = "import" THEN exports[from]
  ELSE IF pc = "phases" THEN (IF readable THEN artifact ELSE Empty)
  ELSE Texts

\* An insertion that fails half way, or a table with no place in the new
\* schema, is reported and the run goes on.
Insert ==
  \E S \in SUBSET Row :
    /\ "import" \in plan.events \/ S = Row
    /\ graph' = Inserted(Incoming, S)

Import ==
  /\ pc = "import"
  /\ Insert
  /\ pc' = "phases"
  /\ UNCHANGED <<plan, version, stored, artifact, readable, exports,
                 todo, fresh, from, told>>

\* A phase before the governance phase fails, and the run ends with it.
PhaseFails ==
  /\ pc = "phases"
  /\ "phase" \in plan.events
  /\ Close
  /\ UNCHANGED <<plan, version, disk, told>>

Ingest ==
  /\ pc = "phases"
  /\ Insert
  /\ pc' = "texts"
  /\ UNCHANGED <<plan, version, stored, artifact, readable, exports,
                 todo, fresh, from, told>>

ReadPlans ==
  /\ pc = "texts"
  /\ Insert
  /\ Close
  /\ UNCHANGED <<plan, version, stored, artifact, readable, exports, told>>

-----------------------------------------------------------------------------
(* What happens around it. *)

\* Rows are inserted one by one, the export is written in place, and the
\* database file is deleted before it is made anew.
Crash ==
  /\ "crash" \in plan.events
  /\ pc # "idle"
  /\ Close
  /\ \/ UNCHANGED disk
     \/ /\ pc = "export"
        /\ exports' = [exports EXCEPT ![stored] = Empty]
        /\ UNCHANGED <<graph, stored, artifact, readable>>
     \/ /\ pc = "clear"
        /\ graph' = Empty
        /\ stored' = 0
        /\ UNCHANGED <<artifact, readable, exports>>
     \/ /\ pc \in {"import", "phases", "texts"}
        /\ \E S \in SUBSET Row : graph' = Inserted(Incoming, S)
        /\ UNCHANGED <<stored, artifact, readable, exports>>
  /\ UNCHANGED <<plan, version, told>>

\* The user installs a release with another schema.
Upgrade ==
  /\ "upgrade" \in plan.events
  /\ pc = "idle"
  /\ version < MaxVersion
  /\ version' = version + 1
  /\ UNCHANGED <<plan, disk, proc, told>>

\* The cache is derived: it may be deleted, or never have been there.
DeleteCache ==
  /\ "delete" \in plan.events
  /\ pc = "idle"
  /\ graph' = Empty
  /\ stored' = 0
  /\ UNCHANGED <<plan, version, artifact, readable, exports, proc, told>>

\* Git merges into the artifact that a teammate recorded, or disposed of, r.
Pull(r) ==
  /\ "pull" \in plan.events
  /\ readable
  /\ \/ artifact[r] = "absent" /\ artifact' = [artifact EXCEPT ![r] = "open"]
     \/ artifact[r] = "open" /\ artifact' = [artifact EXCEPT ![r] = "done"]
  /\ UNCHANGED <<plan, version, graph, stored, readable, exports, proc, told>>

\* Git leaves conflict markers in the artifact, or the user resolves them.
Conflict ==
  /\ "conflict" \in plan.events
  /\ readable' = ~readable
  /\ UNCHANGED <<plan, version, graph, stored, artifact, exports, proc, told>>

Tools ==
  \/ \E S \in SUBSET ((Item \ PlanText) \cap plan.rows) : Record(S)
  \/ \E r \in Row : Resolve(r)
  \/ \E s \in Session \cap plan.rows : \E S \in SUBSET Session : StartSession(s, S)
  \/ CreateSession
  \/ Sync
  \/ \E S \in SUBSET Row : Prune(S)
  \/ \E r \in Row : DeleteRow(r)
  \/ Pruned

Index ==
  \/ StartIndex \/ Export \/ ForceRebuild \/ Clear \/ Import
  \/ PhaseFails \/ Ingest \/ ReadPlans

Outside ==
  \/ Crash \/ Upgrade \/ DeleteCache \/ Conflict
  \/ \E r \in plan.rows : Pull(r)

Next == Tools \/ Index \/ Outside

Spec == Init /\ [][Next]_vars

-----------------------------------------------------------------------------
(* Correctness. *)

\* The exports of the versions the database has left behind.
Past == IF stored = 0 THEN 1..(version - 1) ELSE 1..(stored - 1)

\* What a caller was told is recorded, and neither the user nor a prune has
\* given up, is in the database or in the export of a version it has left,
\* whatever fails or dies on the way: the export precedes the rebuild, and
\* without it there is none (pipeline.py:131-217).  Only a deleted cache is
\* another matter.
NothingLost ==
  "delete" \notin plan.events =>
    \A r \in Row :
      told[r] \in {"open", "done"} =>
        graph[r] # "absent" \/ \E v \in Past : exports[v][r] # "absent"

\* A disposition a caller was told of is not taken back by an artifact that
\* missed it, because its write failed or git brought an older one: the index
\* never changes a row it finds (findings.py:203, governance.py:1303-1306).
DispositionStands ==
  plan.events \cap {"crash", "import", "delete", "force"} = {} =>
    \A r \in Row : told[r] = "done" => graph[r] # "open"

\* At most one session is open: the one there is is reused or closed before
\* another is started (sessions.py:387-394), and neither a rebuild, a restore that
\* fails half way nor a deleted cache brings back one that was closed.
OneOpenSession ==
  plan.events \cap {"crash", "io", "pull"} = {} =>
    \A s, t \in Session : graph[s] = "open" /\ graph[t] = "open" => s = t

\* No row leaves the artifact unless it was pruned, although every write through
\* replaces all of it (governance_store.py:89) and the database may have been
\* deleted, rebuilt for another schema, or out of step after writes that failed:
\* no tool opens a database that the index has not filled again.
ArtifactKept ==
  [][plan.events \cap {"crash", "import", "phase", "pull", "conflict"} = {} =>
       \A r \in Row : artifact[r] # "absent" /\ artifact'[r] = "absent"
                         => told[r] = "pruned"]_vars

-----------------------------------------------------------------------------
(* The ledger behind it: where the database is missing or still empty, the *)
(* rows are those it is about to be given back.                            *)

Rebuilding == stored = 0 \/ pc \in {"import", "phases"}

Behind == IF pc = "import" THEN exports[from] ELSE artifact

Kept(r) == IF graph[r] = "absent" /\ Rebuilding THEN Behind[r] ELSE graph[r]

sheltered == plan.events \subseteq {"delete", "upgrade"}

ledger ==
  [r \in Row |-> IF ~sheltered \/ (Kept(r) = "absent" /\ r \in PlanText)
                 THEN IF r \in PlanText THEN "open" ELSE "absent"
                 ELSE Kept(r)]

Ledger == INSTANCE GovernanceLedger WITH ledger <- ledger

\* Where nothing fails, deleting the cache, rebuilding it and changing the
\* schema are invisible: the rows behave as one ledger, in which only the
\* tools change anything and at most one session is open at a time
\* (governance_store.py:3-9, sessions.py:387-394).
Implements == Ledger!Spec

\* The artifact is the durable system of record (governance_store.py:3-9):
\* no row leaves it unless it was pruned.
SystemOfRecord ==
  [][\A r \in Row : artifact[r] # "absent" /\ artifact'[r] = "absent"
                      => told[r] = "pruned"]_vars
=============================================================================
