--------------------------- MODULE HookIndexWorker ---------------------------
(***************************************************************************)
(* The detached workers behind the edit and commit hooks (hooks/worker.py).*)
(* Every edit starts one index worker, every commit one embedding worker.  *)
(* They share a state directory: the lock directories index.lock and       *)
(* embedding.lock, the last_success files, and index.request, which holds  *)
(* the time of the edit that was written last.                             *)
(*                                                                         *)
(* Each read or write of the state directory is a step of its own.  Times  *)
(* are only ever compared in one place, an edit's against the start of a   *)
(* run, so the model keeps the order and not the times: late[w] holds the  *)
(* edits whose hook read the clock after w last started the indexer.  (Two *)
(* readings by two processes are many clock ticks apart, none are equal.)  *)
(***************************************************************************)
EXTENDS Naturals

CONSTANTS
  IndexWorkers,   \* the index workers, one per edit
  EmbedWorkers,   \* the embedding workers, one per commit
  None,           \* no lock directory, an index.request that is empty
  Throttle,       \* the *_min_interval_seconds settings are above 0
  FaultPlans      \* sets of FaultKinds: what may go wrong

\* crash: a worker is killed.  expire: a lock gets older than
\* LOCK_STALE_SECONDS.  run: the scaffold subprocess fails, which nobody
\* checks.  io: an OSError in the loop, which ends the worker.
FaultKinds == {"crash", "expire", "run", "io"}

Workers == IndexWorkers \cup EmbedWorkers
Kinds == {"index", "embed"}
Kind(w) == IF w \in IndexWorkers THEN "index" ELSE "embed"

ASSUME WorkerAssumption ==
  /\ IndexWorkers \cap EmbedWorkers = {}
  /\ None \notin Workers
  /\ Throttle \in BOOLEAN
  /\ FaultPlans \subseteq SUBSET FaultKinds

VARIABLES
  pc,          \* where each worker is
  late,        \* per worker: the edits later than its last run's start
  request,     \* the worker whose time index.request holds
  lock,        \* per kind: the worker that made the lock directory
  old,         \* per kind: the lock directory is stale
  success,     \* per kind: last_success exists
  indexed,     \* history: the edits that an index run has picked up
  faults       \* the plan that this behaviour follows

vars == <<pc, late, request, lock, old, success, indexed, faults>>
locks == <<lock, old>>

PC == {"new", "deferCheck", "lockCheck", "intervalCheck", "truncate", "request",
       "reap", "reapRmdir", "mkdir", "waitGraph", "start", "run", "note",
       "recheck", "rmdir", "indexed", "busy", "throttled", "deferred", "crashed"}

Finished == {"indexed", "busy", "throttled", "deferred", "crashed"}

TypeOK ==
  /\ pc \in [Workers -> PC]
  /\ late \in [Workers -> SUBSET IndexWorkers]
  /\ request \in IndexWorkers \cup {None}
  /\ lock \in [Kinds -> Workers \cup {None}]
  /\ old \in [Kinds -> BOOLEAN]
  /\ success \in [Kinds -> BOOLEAN]
  /\ indexed \subseteq IndexWorkers
  /\ faults \in FaultPlans
-----------------------------------------------------------------------------
Init ==
  /\ pc = [w \in Workers |-> "new"]
  /\ late = [w \in Workers |-> {}]
  /\ request = None
  /\ lock = [k \in Kinds |-> None]
  /\ old = [k \in Kinds |-> FALSE]
  /\ success \in [Kinds -> BOOLEAN]
  /\ indexed = {}
  /\ faults \in FaultPlans

At(w, label) == pc[w] = label
Goto(w, label) == pc' = [pc EXCEPT ![w] = label]
Looping(w) == pc[w] \in {"run", "note", "recheck"}

\* The hook starts the worker, which reads the clock first.
Begin(w) ==
  /\ At(w, "new")
  /\ late' = [v \in Workers |-> IF Looping(v) THEN late[v] \cup ({w} \cap IndexWorkers)
                                ELSE late[v]]
  /\ Goto(w, IF w \in EmbedWorkers THEN "deferCheck"
             ELSE IF Throttle THEN "lockCheck" ELSE "truncate")
  /\ UNCHANGED <<request, locks, success, indexed, faults>>

\* Mutant of DeferCheck: it reports a status that no caller knows.
DeferCheckRenamed(w) ==
  /\ At(w, "deferCheck")
  /\ Goto(w, IF lock["index"] # None THEN "skipped" ELSE "reap")
  /\ UNCHANGED <<late, request, locks, success, indexed, faults>>

\* An embedding worker gives way to an index that is running.
DeferCheck(w) ==
  /\ At(w, "deferCheck")
  /\ Goto(w, IF lock["index"] # None THEN "deferred"
             ELSE IF Throttle THEN "intervalCheck" ELSE "reap")
  /\ UNCHANGED <<late, request, locks, success, indexed, faults>>

\* The interval guard of an index worker does not apply while an index runs.
LockCheck(w) ==
  /\ At(w, "lockCheck")
  /\ Goto(w, IF lock["index"] = None THEN "intervalCheck" ELSE "truncate")
  /\ UNCHANGED <<late, request, locks, success, indexed, faults>>

\* How much time has passed since the last success is left open.
IntervalCheck(w) ==
  /\ At(w, "intervalCheck")
  /\ \/ success[Kind(w)] /\ Goto(w, "throttled")
     \/ Goto(w, IF w \in IndexWorkers THEN "truncate" ELSE "reap")
  /\ UNCHANGED <<late, request, locks, success, indexed, faults>>

\* request.write_text opens the file, which empties it, and then writes.
TruncateRequest(w) ==
  /\ At(w, "truncate")
  /\ request' = None
  /\ Goto(w, "request")
  /\ UNCHANGED <<late, locks, success, indexed, faults>>

WriteRequest(w) ==
  /\ At(w, "request")
  /\ request' = w
  /\ Goto(w, "reap")
  /\ UNCHANGED <<late, locks, success, indexed, faults>>

(***************************************************************************)
(* reap_stale_lock and the mkdir that takes the lock.                      *)
(***************************************************************************)
Reap(w) ==
  /\ At(w, "reap")
  /\ Goto(w, IF lock[Kind(w)] # None /\ old[Kind(w)] THEN "reapRmdir" ELSE "mkdir")
  /\ UNCHANGED <<late, request, locks, success, indexed, faults>>

RemoveLock(k) ==
  /\ lock' = [lock EXCEPT ![k] = None]
  /\ old' = [old EXCEPT ![k] = FALSE]

ReapRmdir(w) ==
  /\ At(w, "reapRmdir")
  /\ RemoveLock(Kind(w))
  /\ Goto(w, "mkdir")
  /\ UNCHANGED <<late, request, success, indexed, faults>>

TakeLock(w) ==
  /\ lock' = [lock EXCEPT ![Kind(w)] = w]
  /\ old' = [old EXCEPT ![Kind(w)] = FALSE]
  /\ Goto(w, IF w \in IndexWorkers THEN "waitGraph" ELSE "run")
  /\ UNCHANGED <<late, request, success, indexed, faults>>

\* Mutant of Mkdir: mkdir(exist_ok=True).
MkdirExistOk(w) ==
  /\ At(w, "mkdir")
  /\ TakeLock(w)

Mkdir(w) ==
  /\ At(w, "mkdir")
  /\ lock[Kind(w)] = None
  /\ TakeLock(w)

Busy(w) ==
  /\ At(w, "mkdir")
  /\ lock[Kind(w)] # None
  /\ Goto(w, "busy")
  /\ UNCHANGED <<late, request, locks, success, indexed, faults>>

(***************************************************************************)
(* The loop of the lock holder.                                            *)
(***************************************************************************)
\* wait_for_graph_writer: graph.write.lock is clear, or 600 s are over; the
\* answer is not looked at.
WaitGraph(w) ==
  /\ At(w, "waitGraph")
  /\ Goto(w, "start")
  /\ UNCHANGED <<late, request, locks, success, indexed, faults>>

StartRun(w) ==
  /\ At(w, "start")
  /\ late' = [late EXCEPT ![w] = {}]
  /\ Goto(w, "run")
  /\ UNCHANGED <<request, locks, success, indexed, faults>>

\* The edits that w's run is sure to see: those made before it started.
EditsBefore(w) == {e \in IndexWorkers : ~At(e, "new")} \ late[w]

\* Mutant of Run: the run is taken to start when it ends.
RunStampedLate(w) ==
  /\ At(w, "run")
  /\ indexed' = indexed \cup EditsBefore(w)
  /\ late' = [late EXCEPT ![w] = {}]
  /\ Goto(w, "note")
  /\ UNCHANGED <<request, locks, success, faults>>

\* The scaffold subprocess; its exit status is not looked at.
Run(w) ==
  /\ At(w, "run")
  /\ \/ indexed' = indexed \cup EditsBefore(w)
     \/ "run" \in faults /\ UNCHANGED indexed
  /\ Goto(w, "note")
  /\ UNCHANGED <<late, request, locks, success, faults>>

NoteSuccess(w) ==
  /\ At(w, "note")
  /\ success' = [success EXCEPT ![Kind(w)] = TRUE]
  /\ Goto(w, IF w \in IndexWorkers THEN "recheck" ELSE "rmdir")
  /\ UNCHANGED <<late, request, locks, indexed, faults>>

\* An empty index.request reads as 0, which is before any start.
Recheck(w) ==
  /\ At(w, "recheck")
  /\ Goto(w, IF request \in late[w] THEN "waitGraph" ELSE "rmdir")
  /\ UNCHANGED <<late, request, locks, success, indexed, faults>>

\* Mutant of Unlock: no finally clause, an OSError leaves the lock.
UnlockSkipped(w) ==
  /\ At(w, "rmdir")
  /\ Goto(w, "indexed")
  /\ UNCHANGED <<late, request, locks, success, indexed, faults>>

\* The finally clause removes whatever directory is there.
Unlock(w) ==
  /\ At(w, "rmdir")
  /\ RemoveLock(Kind(w))
  /\ Goto(w, "indexed")
  /\ UNCHANGED <<late, request, success, indexed, faults>>
-----------------------------------------------------------------------------
\* OSError between the mkdir and the finally clause.
Fail(w) ==
  /\ "io" \in faults
  /\ pc[w] \in {"run", "note"}
  /\ Goto(w, "rmdir")
  /\ UNCHANGED <<late, request, locks, success, indexed, faults>>

Crash(w) ==
  /\ "crash" \in faults
  /\ pc[w] \notin Finished \cup {"new"}
  /\ Goto(w, "crashed")
  /\ UNCHANGED <<late, request, locks, success, indexed, faults>>

Expire(k) ==
  /\ "expire" \in faults
  /\ lock[k] # None /\ ~old[k]
  /\ old' = [old EXCEPT ![k] = TRUE]
  /\ UNCHANGED <<pc, late, request, lock, success, indexed, faults>>

\* The steps of both kinds of workers, and those of one kind only.
Step(w) ==
  \/ Begin(w) \/ IntervalCheck(w) \/ Reap(w) \/ ReapRmdir(w)
  \/ Mkdir(w) \/ Busy(w) \/ Run(w) \/ NoteSuccess(w) \/ Unlock(w)
  \/ Fail(w) \/ Crash(w)

IndexStep(w) ==
  \/ LockCheck(w) \/ TruncateRequest(w) \/ WriteRequest(w)
  \/ WaitGraph(w) \/ StartRun(w) \/ Recheck(w)

Next ==
  \/ \E w \in Workers : Step(w)
  \/ \E w \in IndexWorkers : IndexStep(w)
  \/ \E w \in EmbedWorkers : DeferCheck(w)
  \/ \E k \in Kinds : Expire(k)

Spec == Init /\ [][Next]_vars
-----------------------------------------------------------------------------
Working(w) == pc[w] \in {"waitGraph", "start", "run", "note", "recheck", "rmdir"}

\* At most one index and one embedding worker is between its mkdir and its
\* rmdir (worker.py:10-11: "at most one index runs per database"), as long as no
\* lock gets stale under a worker that is still running.
SingleFlight ==
  "expire" \notin faults =>
    \A v, w \in Workers : Working(v) /\ Working(w) /\ Kind(v) = Kind(w) => v = w

\* Then each of the two directories is a lock: one that is free is taken, and it
\* is removed by its maker only.
LockOf(k) == INSTANCE WriteLock WITH
               Writer <- {w \in Workers : Kind(w) = k},
               holder <- IF "expire" \in faults THEN None ELSE lock[k],
               inside <- {w \in Workers : "expire" \notin faults /\ Working(w) /\ Kind(w) = k}

\* A worker that leaves its loop leaves no request unanswered, as long as the
\* indexer does not fail: if it read a request, the edit behind that request has
\* been indexed.
RequestAnswered ==
  [][\A w \in IndexWorkers :
       "run" \notin faults /\ At(w, "recheck") /\ pc'[w] = "rmdir" /\ request # None
       => request \in indexed]_vars

\* When all workers are done and none was killed, no lock is left behind, even
\* if locks were reaped under running workers.
NoLockLeft ==
  (\A w \in Workers : pc[w] \in Finished \ {"crashed"}) => \A k \in Kinds : lock[k] = None

\* "An edit that arrives while it runs records a request, and the running
\* worker indexes once more afterwards so the last edit of a burst is never
\* left out" (worker.py:11-13): once every worker has returned, every edit
\* has been indexed.
NoEditLeftOut ==
  (\A w \in Workers : pc[w] \in Finished) => indexed = IndexWorkers
=============================================================================
