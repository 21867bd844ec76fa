------------------------- MODULE RefreshCoordinator -------------------------
(***************************************************************************)
(* Freshness in one MCP server process, for one project: the dispatch of   *)
(* tool calls (mcp/server.py), the oracle and the refresh coordinator      *)
(* (mcp/freshness.py) and the embedding lane (graph/embedding_scheduler.py)*)
(* beside the scaffold index that an edit hook starts in a process of its  *)
(* own.  The tool handler is synchronous, so one call is in flight; the    *)
(* two lanes run index() in daemon threads.                                *)
(*                                                                         *)
(* The content of the repository is the number of changes made to it.  The *)
(* git signals are HEAD (with the mtime of .git/index: head counts both)   *)
(* and whether tracked files are dirty; the git calls of one reading are   *)
(* one step.  A call that finds the database locked by the other process   *)
(* is answered graph_locked and changes nothing.                           *)
(***************************************************************************)
EXTENDS Naturals

CONSTANTS
  Thread,      \* the worker threads a lane may have
  None,        \* no watermark, nobody holds the write lock
  MaxChange,   \* bound: changes to the content of the repository
  MaxHead,     \* bound: commits and pulls
  MaxFaults    \* bound: failed runs, lock timeouts, git calls that fail

ASSUME RefreshAssumption ==
  /\ Thread # {}
  /\ None \notin {"refresh", "embed", "hook"} \cup ((0..MaxHead) \X BOOLEAN)
  /\ MaxChange \in Nat /\ MaxHead \in Nat /\ MaxFaults \in Nat

Lane == {"refresh", "embed"}
Tool == {"gate", "eligible", "other"}

VARIABLES
  repo, head, dirty,   \* the repository: its content and its git signals
  graph,               \* the content that the graph holds
  wm,                  \* freshness_watermark.json
  lock,                \* the holder of graph.write.lock
  hook,                \* the phase of the hook's index
  running, pending,    \* the state of each lane's coordinator
  recent,              \* the debounce interval of the refresh lane lasts
  wpc, seen,           \* the lanes' threads and what they have scanned
  dpc, call,           \* the dispatcher and the call it works on; blind and due are
                       \* history: the last change that the watermark it loaded hides,
                       \* and the last one that it has to see when a gate lets it through
  faults,              \* faults so far
  owed,                \* history: what each lane's requests asked to be indexed
  blind                \* history: the last change that the watermark hides

repository == <<repo, head, dirty>>
coordinator == <<running, pending, recent, owed>>
workers == <<wpc, seen>>
vars == <<repository, graph, wm, lock, hook, coordinator, workers, dpc, call,
          faults, blind>>

Change == 0..MaxChange
Signals == (0..MaxHead) \X BOOLEAN
NoCall == [tool |-> "other", wm |-> None, blind |-> 0, due |-> 0, status |-> "stale"]
Status == {"fresh", "stale", "refreshing"}

TypeOK ==
  /\ repo \in Change /\ head \in 0..MaxHead /\ dirty \in BOOLEAN
  /\ graph \in Change
  /\ wm \in Signals \cup {None}
  /\ lock \in Lane \cup {"hook", None}
  /\ hook \in {"off", "waiting", "open"}
  /\ running \in [Lane -> BOOLEAN] /\ pending \in [Lane -> BOOLEAN]
  /\ recent \in BOOLEAN
  /\ wpc \in [Lane -> [Thread -> {"none", "probe", "lock", "commit", "mark", "finish"}]]
  /\ seen \in [Lane -> [Thread -> Change]]
  /\ dpc \in {"idle", "signals", "schedule", "embed", "run"}
  /\ call \in [tool : Tool, wm : Signals \cup {None}, blind : Change, due : Change,
               status : Status]
  /\ faults \in 0..MaxFaults
  /\ owed \in [Lane -> Change]
  /\ blind \in Change
-----------------------------------------------------------------------------
Init ==
  /\ repo = 0 /\ head = 0 /\ dirty = FALSE
  /\ graph = 0
  /\ wm = None
  /\ lock = None
  /\ hook = "off"
  /\ running = [l \in Lane |-> FALSE]
  /\ pending = [l \in Lane |-> FALSE]
  /\ recent = FALSE
  /\ wpc = [l \in Lane |-> [t \in Thread |-> "none"]]
  /\ seen = [l \in Lane |-> [t \in Thread |-> 0]]
  /\ dpc = "idle" /\ call = NoCall
  /\ faults = 0
  /\ owed = [l \in Lane |-> 0]
  /\ blind = 0

Current == <<head, dirty>>
Fault == faults < MaxFaults /\ faults' = faults + 1
At(l, t, label) == wpc[l][t] = label
Goto(l, t, label) == wpc' = [wpc EXCEPT ![l][t] = label]

\* _current_git_signals.  Without an answer from rev-parse there are none, but a
\* git diff that fails or times out is taken for one that found the tree clean.
Read(s) ==
  \/ s = Current /\ UNCHANGED faults
  \/ s \in {None, <<head, FALSE>>} \ {Current} /\ Fault

(***************************************************************************)
(* The repository.  A change after which the signals are those of a        *)
(* watermark is one that the oracle cannot see by it.                      *)
(***************************************************************************)
Becomes(r, h, d) ==
  /\ repo' = r /\ head' = h /\ dirty' = d
  /\ blind' = IF r # repo /\ wm = <<h, d>> THEN r ELSE blind
  /\ call' = IF r # repo /\ call.wm = <<h, d>> THEN [call EXCEPT !.blind = r] ELSE call
  /\ UNCHANGED <<graph, wm, lock, coordinator, workers, dpc, faults>>

\* Editing a tracked file makes the tree dirty, and undoing that by hand makes it
\* clean; a new file that git does not track leaves it as it is.  An edit by an
\* agent starts the hook; one by hand does not.
Edit ==
  /\ repo < MaxChange
  /\ \E d \in BOOLEAN : Becomes(repo + 1, head, d)
  /\ hook' \in {hook, IF hook = "off" THEN "waiting" ELSE hook}

\* A commit, of all or of some of what there is, or git add.
Commit ==
  /\ head < MaxHead
  /\ \E d \in BOOLEAN : Becomes(repo, head + 1, d)
  /\ UNCHANGED hook

Pull ==
  /\ repo < MaxChange /\ head < MaxHead
  /\ Becomes(repo + 1, head + 1, dirty)
  /\ UNCHANGED hook

(***************************************************************************)
(* The index an edit hook runs in another process.  It holds index.lock    *)
(* from its start, and the database while it is open.  When it scans the   *)
(* repository, within the time it holds the database, makes no difference. *)
(***************************************************************************)
\* It takes the write lock and opens the database.  DuckDB gives the file to
\* one process: not while a tool call has it open, and then the hook gives up.
HookOpen ==
  /\ hook = "waiting" /\ lock = None
  /\ \/ dpc = "idle" /\ hook' = "open" /\ lock' = "hook"
     \/ dpc # "idle" /\ hook' = "off" /\ UNCHANGED lock
  /\ UNCHANGED <<repository, graph, wm, coordinator, workers, dpc, call, faults, blind>>

HookDone ==
  /\ hook = "open"
  /\ graph' = repo
  /\ hook' = "off" /\ lock' = None
  /\ UNCHANGED <<repository, wm, coordinator, workers, dpc, call, faults, blind>>

(***************************************************************************)
(* maybe_schedule_async_refresh, maybe_schedule_async_embeddings: under    *)
(* the coordinator's lock.  The embedding lane gives way to index.lock.    *)
(***************************************************************************)
Idle(l) == {t \in Thread : At(l, t, "none")}

StartThread(l) ==
  /\ Idle(l) # {}
  /\ Goto(l, CHOOSE t \in Idle(l) : TRUE, "probe")
  /\ running' = [running EXCEPT ![l] = TRUE]
  /\ pending' = [pending EXCEPT ![l] = FALSE]
  /\ recent' = (recent \/ l = "refresh")
  /\ owed' = [owed EXCEPT ![l] = repo]

\* debounced; deferred_structural_lock.  (embedding_min_interval_seconds is 0 by
\* default, so the embedding lane is not debounced.)
MustWait(l) == IF l = "refresh" THEN recent ELSE hook # "off"

\* Mutant of Request: the flag is tested outside the lock, that is not at all.
RequestUnguarded(l) ==
  IF l = "refresh" /\ recent THEN UNCHANGED <<coordinator, wpc>> ELSE StartThread(l)

Request(l) ==
  \/ /\ running[l]
     /\ pending' = [pending EXCEPT ![l] = TRUE]
     /\ owed' = [owed EXCEPT ![l] = repo]
     /\ UNCHANGED <<running, recent, wpc>>
  \/ /\ ~running[l] /\ MustWait(l)
     /\ UNCHANGED <<coordinator, wpc>>
  \/ /\ ~running[l] /\ ~MustWait(l)
     /\ StartThread(l)

\* The debounce interval is over.
Cool ==
  /\ recent
  /\ recent' = FALSE
  /\ UNCHANGED <<repository, graph, wm, lock, hook, running, pending, owed, workers,
                 dpc, call, faults, blind>>
-----------------------------------------------------------------------------
(***************************************************************************)
(* _refresh_worker and _embedding_worker, with the index() they call.      *)
(***************************************************************************)
Workless(l, t) ==
  /\ Goto(l, t, "none")
  /\ pending' = [pending EXCEPT ![l] = FALSE]
  /\ owed' = [owed EXCEPT ![l] = 0]
  /\ UNCHANGED recent

\* Mutant of Abandon: running stays set.
AbandonStillRunning(l, t) == Workless(l, t) /\ UNCHANGED running

\* The except clause: what was coalesced is dropped with the run.
Abandon(l, t) == Workless(l, t) /\ running' = [running EXCEPT ![l] = FALSE]

\* An incremental index looks for changes before it takes the lock.
Probe(l, t) ==
  /\ At(l, t, "probe")
  /\ \/ hook = "open" /\ Abandon(l, t)
     \/ /\ hook # "open" /\ l = "refresh" /\ graph = repo
        /\ Goto(l, t, "mark") /\ UNCHANGED coordinator
     \/ /\ hook # "open" /\ (l = "embed" \/ graph # repo)
        /\ Goto(l, t, "lock") /\ UNCHANGED coordinator
  /\ UNCHANGED <<repository, graph, wm, lock, hook, seen, dpc, call, faults, blind>>

\* Mutant of Lock: the lane does not wait for who has the write lock.
LockUnguarded(l, t) ==
  /\ At(l, t, "lock")
  /\ lock' = l
  /\ seen' = [seen EXCEPT ![l][t] = repo]
  /\ Goto(l, t, "commit")
  /\ UNCHANGED <<repository, graph, wm, hook, coordinator, dpc, call, faults, blind>>

Lock(l, t) ==
  /\ At(l, t, "lock")
  /\ lock = None
  /\ lock' = l
  /\ seen' = [seen EXCEPT ![l][t] = repo]
  /\ Goto(l, t, "commit")
  /\ UNCHANGED <<repository, graph, wm, hook, coordinator, dpc, call, faults, blind>>

LockTimeout(l, t) ==
  /\ At(l, t, "lock")
  /\ lock # None
  /\ Fault
  /\ Abandon(l, t)
  /\ UNCHANGED <<repository, graph, wm, lock, hook, seen, dpc, call, blind>>

IndexDone(l, t) ==
  /\ At(l, t, "commit")
  /\ graph' = seen[l][t]
  /\ seen' = [seen EXCEPT ![l][t] = 0]
  /\ lock' = None
  /\ Goto(l, t, IF l = "refresh" THEN "mark" ELSE "finish")
  /\ UNCHANGED <<repository, wm, hook, coordinator, dpc, call, faults, blind>>

\* Any exception of the pipeline; the store's close releases the lock.
IndexFails(l, t) ==
  /\ At(l, t, "commit")
  /\ Fault
  /\ seen' = [seen EXCEPT ![l][t] = 0]
  /\ lock' = None
  /\ Abandon(l, t)
  /\ UNCHANGED <<repository, graph, wm, hook, dpc, call, blind>>

\* write_watermark takes the signals now, not those of the scan; without an
\* answer from git the old watermark stays.
WriteWatermark(l, t) ==
  /\ At(l, t, "mark")
  /\ \E s \in Signals \cup {None} :
       /\ Read(s)
       /\ wm' = IF s = None THEN wm ELSE s
       /\ blind' = IF s = Current /\ graph < repo THEN repo ELSE blind
  /\ Goto(l, t, "finish")
  /\ UNCHANGED <<repository, graph, lock, hook, coordinator, seen, dpc, call>>

\* Mutant of Finish: what was asked for during the run is forgotten.
FinishForgetful(l, t) ==
  /\ At(l, t, "finish")
  /\ Goto(l, t, "none")
  /\ pending' = [pending EXCEPT ![l] = FALSE]
  /\ running' = [running EXCEPT ![l] = FALSE]
  /\ UNCHANGED <<repository, graph, wm, lock, hook, recent, owed, seen, dpc, call,
                 faults, blind>>

Finish(l, t) ==
  /\ At(l, t, "finish")
  /\ Goto(l, t, IF pending[l] THEN "probe" ELSE "none")
  /\ pending' = [pending EXCEPT ![l] = FALSE]
  /\ running' = [running EXCEPT ![l] = pending[l]]
  /\ owed' = [owed EXCEPT ![l] = IF pending[l] THEN @ ELSE 0]
  /\ recent' = (recent \/ (l = "refresh" /\ pending[l]))
  /\ UNCHANGED <<repository, graph, wm, lock, hook, seen, dpc, call, faults, blind>>
-----------------------------------------------------------------------------
(***************************************************************************)
(* _dispatch_resolved: one tool call, with strict gates.                   *)
(***************************************************************************)
Handle(from, to, c) ==
  /\ dpc = from /\ dpc' = to
  /\ call' = c
  /\ UNCHANGED <<repository, graph, wm, lock, hook, seen, blind>>

\* open_graph succeeds unless the hook's process has the database; then the
\* oracle loads the watermark.
OpenStore(tool) ==
  /\ hook # "open"
  /\ Handle("idle", "signals", [NoCall EXCEPT !.tool = tool, !.wm = wm, !.blind = blind])
  /\ UNCHANGED <<coordinator, wpc, faults>>

\* Mutant of Evaluate: a status that no caller knows.
EvaluateUnknown ==
  /\ Handle("signals", "schedule",
            [call EXCEPT !.wm = None,
                         !.status = IF call.wm = Current THEN "fresh" ELSE "unknown"])
  /\ UNCHANGED <<coordinator, wpc, faults>>

\* History: no git call failed, and the watermark does not hide the last change.
MustSee(s) == call.tool = "gate" /\ s = Current /\ call.blind < repo

\* The git signals and then the coordinator's flag, which nobody locks.  "stale"
\* stands for stale and unknown, which the dispatch treats alike.
Evaluate ==
  /\ \E s \in Signals \cup {None} :
       /\ Read(s)
       /\ Handle("signals", "schedule",
                 [call EXCEPT !.wm = None, !.blind = 0,
                              !.due = IF MustSee(s) THEN repo ELSE 0,
                              !.status = IF running["refresh"] THEN "refreshing"
                                         ELSE IF s # None /\ s = call.wm THEN "fresh"
                                         ELSE "stale"])
  /\ UNCHANGED <<coordinator, wpc>>

\* Only a gate looks at the status again.
Schedule ==
  /\ Handle("schedule", "embed", IF call.tool = "gate" THEN call ELSE NoCall)
  /\ IF call.status = "stale" /\ call.tool # "other"
     THEN Request("refresh")
     ELSE UNCHANGED <<coordinator, wpc>>
  /\ UNCHANGED faults

\* Mutant of Gate: nothing is deferred.
GateOpen == Handle("embed", "run", call)

\* The strict gate looks at the oracle's status.
Gate ==
  IF call.tool = "gate" /\ call.status # "fresh"
  THEN Handle("embed", "idle", NoCall)
  ELSE Handle("embed", "run", call)

\* Whether retrieval is degraded, so that the embedding lane is asked, is left
\* open.
ScheduleEmbedding ==
  /\ Request("embed") \/ UNCHANGED <<coordinator, wpc>>
  /\ Gate
  /\ UNCHANGED faults

RunTool ==
  /\ Handle("run", "idle", NoCall)
  /\ UNCHANGED <<coordinator, wpc, faults>>
-----------------------------------------------------------------------------
Dispatch ==
  \/ Evaluate \/ Schedule \/ ScheduleEmbedding \/ RunTool

Hook == HookOpen \/ HookDone

Work(l, t) ==
  \/ Probe(l, t) \/ Lock(l, t) \/ IndexDone(l, t)
  \/ (l = "refresh" /\ WriteWatermark(l, t)) \/ Finish(l, t)

Next ==
  \/ Edit \/ Commit \/ Pull
  \/ Hook
  \/ Cool
  \/ \E l \in Lane, t \in Thread : Work(l, t) \/ LockTimeout(l, t) \/ IndexFails(l, t)
  \/ \E tool \in Tool : OpenStore(tool)
  \/ Dispatch

Spec == Init /\ [][Next]_vars

\* Calls run to their end, threads and the hook's process go on, time passes.
\* Nobody has to edit, to call a tool or to fail.  A thread gets graph.write.lock
\* although the others keep taking it: that is strong fairness, and what a
\* 30 second wait against runs that end stands for.
FairSpec ==
  /\ Spec
  /\ WF_vars(Dispatch) /\ WF_vars(Hook)
  /\ WF_vars(Cool)
  /\ \A l \in Lane :
       /\ WF_vars(\E t \in Thread : Work(l, t))
       /\ SF_vars(\E t \in Thread : Lock(l, t))
-----------------------------------------------------------------------------
Active(l) == {t \in Thread : wpc[l][t] # "none"}

\* "Single-flight locking prevents duplicate refresh jobs" (docs/
\* platform-integration.md:214): a lane has at most one thread, and running is
\* set exactly as long as it has one, so that it is never left "refreshing".
SingleFlight ==
  \A l \in Lane :
    /\ \A s, t \in Active(l) : s = t
    /\ running[l] <=> Active(l) # {}

\* A lane that ends without an error has indexed all that was in the repository
\* when its last request came, whether that request started the run or was
\* coalesced into it ("setting a pending rerun", docs/configuration.md:704).
RequestsServed ==
  [][\A l \in Lane, t \in Thread :
       At(l, t, "finish") /\ wpc'[l][t] = "none" => owed[l] <= graph]_vars

\* The graph never goes back to an earlier content: of two runs, of whichever
\* lanes or processes, the one that commits last has scanned last, since a run
\* that had to wait for the write lock scans again when it has it.
GraphAdvances == [][graph <= graph']_vars

\* Who has the graph under the write lock: a lane between scan and commit, the
\* hook's process.
Writers == {l \in Lane : \E t \in Thread : At(l, t, "commit")}
           \cup (IF hook = "open" THEN {"hook"} ELSE {})

GraphLock == INSTANCE WriteLock WITH
               Writer <- Lane \cup {"hook"}, holder <- lock, inside <- Writers

\* A gated call that is let through sees every change made before its oracle
\* read the git signals, unless one of its git calls failed, except those that
\* the watermark it loaded hides: changes of a tree that was dirty already, new
\* files that git does not track, edits that are undone by hand, and changes made
\* between a refresh's scan and its watermark.
GateSeesVisible ==
  dpc = "run" /\ call.tool = "gate" => call.due <= graph

\* While the agent keeps calling eligible tools, what the oracle can see gets
\* indexed: in the end the graph is up to date or the watermark hides what is
\* missing.  No interleaving of refreshes, embedding runs, hook runs and
\* failures leaves the coordinator stuck.
Asking == dpc = "schedule" /\ call.tool # "other"
VisibleIndexed == []<>Asking => <>[](graph = repo \/ graph < blind)
=============================================================================
