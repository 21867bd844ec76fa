--------------------------- MODULE GraphWriteLock ---------------------------
(***************************************************************************)
(* The cross-process graph write lock of graph/locks.py: a directory       *)
(* graph.write.lock beside the database, made with mkdir, which holds an   *)
(* owner.json naming the pid of its maker.  A caller that finds the        *)
(* directory first tries to reap it (dead pid, or an mtime older than      *)
(* stale_after), then polls until its deadline.                            *)
(*                                                                         *)
(* Every filesystem call is a step of its own, because another process may *)
(* run between any two of them.  One element of Proc is one OS process,    *)
(* that is one pid; a pid is never reused.                                 *)
(***************************************************************************)
EXTENDS Naturals

CONSTANTS
  Proc,      \* the processes that use one graph database
  None,      \* "no directory", "no owner.json", "no pid"
  Torn,      \* an owner.json whose content cannot be read as a pid
  FaultPlans \* sets of FaultKinds: what may go wrong in the environment

\* exit: a process between two calls ends normally.  crash: a process dies in
\* the middle of a call.  expire: the lock directory gets older than
\* stale_after.  io: writing owner.json raises OSError.  unknown: os.kill(pid,
\* 0) cannot tell whether the pid lives.
FaultKinds == {"exit", "crash", "expire", "io", "unknown"}

ASSUME LockAssumption ==
  /\ None \notin Proc
  /\ Torn \notin Proc
  /\ Torn # None
  /\ FaultPlans \subseteq SUBSET FaultKinds

VARIABLES
  pc,        \* where each process is in its call
  call,      \* the function of locks.py it is in
  seen,      \* the pid a reaper read from owner.json and is about to probe
  ret,       \* where _release_lock_dir returns to
  dir,       \* the maker of the lock directory, None when there is none
  owner,     \* the pid in owner.json, Torn, or None when there is no file
  old,       \* the directory's mtime is older than stale_after
  faults     \* the plan that this behaviour follows

vars == <<pc, call, seen, ret, dir, owner, old, faults>>
disk == <<dir, owner, old>>

\* graph_write_lock, wait_for_graph_write_lock_clear, graph_write_lock_held
Calls == {"lock", "wait", "held"}

\* "exited" between two calls, "crashed" inside one.
Dead == {"exited", "crashed"}

PC == Dead \cup
      {"idle", "reap", "read", "probe", "stat", "relCheck", "unlink", "rmdir",
       "after", "note", "hold"}

\* "reap": back to the caller of _reap_stale_lock; "again": to the second
\* release of a failed owner write; "exit": out of graph_write_lock.
Returns == {"reap", "again", "exit"}

TypeOK ==
  /\ pc \in [Proc -> PC]
  /\ call \in [Proc -> Calls]
  /\ seen \in [Proc -> Proc \cup {None}]
  /\ ret \in [Proc -> Returns]
  /\ dir \in Proc \cup {None}
  /\ owner \in Proc \cup {None, Torn}
  /\ old \in BOOLEAN
  /\ faults \in FaultPlans
-----------------------------------------------------------------------------
Init ==
  /\ pc = [p \in Proc |-> "idle"]
  /\ call = [p \in Proc |-> "held"]
  /\ seen = [p \in Proc |-> None]
  /\ ret = [p \in Proc |-> "exit"]
  /\ dir = None
  /\ owner = None
  /\ old = FALSE
  /\ faults \in FaultPlans

Alive(p) == pc[p] \notin Dead
At(p, label) == pc[p] = label
Goto(p, label) == pc' = [pc EXCEPT ![p] = label]

Call(p, c) ==
  /\ At(p, "idle")
  /\ call' = [call EXCEPT ![p] = c]
  /\ Goto(p, "reap")
  /\ UNCHANGED <<seen, ret, disk, faults>>

(***************************************************************************)
(* _reap_stale_lock: exists, read owner.json, probe the pid, stat.         *)
(***************************************************************************)
ReapExists(p) ==
  /\ At(p, "reap")
  /\ Goto(p, IF dir = None THEN "after" ELSE "read")
  /\ UNCHANGED <<call, seen, ret, disk, faults>>

\* Mutant of ReapRead: the pid is used without the isinstance(pid, int) test.
ReapReadUntyped(p) ==
  /\ At(p, "read")
  /\ seen' = [seen EXCEPT ![p] = owner]
  /\ Goto(p, IF owner \in Proc THEN "probe" ELSE "stat")
  /\ UNCHANGED <<call, ret, disk, faults>>

ReapRead(p) ==
  /\ At(p, "read")
  /\ seen' = [seen EXCEPT ![p] = IF owner \in Proc THEN owner ELSE None]
  /\ Goto(p, IF owner \in Proc THEN "probe" ELSE "stat")
  /\ UNCHANGED <<call, ret, disk, faults>>

BeginRelease(p, r) ==
  /\ ret' = [ret EXCEPT ![p] = r]
  /\ Goto(p, "relCheck")

ReapProbe(p) ==
  /\ At(p, "probe")
  /\ \/ /\ ~Alive(seen[p])
        /\ BeginRelease(p, "reap")
     \/ /\ Alive(seen[p]) \/ "unknown" \in faults
        /\ Goto(p, "stat")
        /\ UNCHANGED ret
  /\ seen' = [seen EXCEPT ![p] = None]
  /\ UNCHANGED <<call, disk, faults>>

\* Mutants of ReapStat: the age test is lost; nothing is reaped by age.
ReapStatAnyAge(p) ==
  /\ At(p, "stat")
  /\ IF dir # None THEN BeginRelease(p, "reap") ELSE Goto(p, "after") /\ UNCHANGED ret
  /\ UNCHANGED <<call, seen, disk, faults>>

ReapStatNever(p) ==
  /\ At(p, "stat")
  /\ Goto(p, "after")
  /\ UNCHANGED <<call, seen, ret, disk, faults>>

ReapStat(p) ==
  /\ At(p, "stat")
  /\ \/ /\ dir # None /\ old
        /\ BeginRelease(p, "reap")
     \/ /\ dir = None \/ ~old
        /\ Goto(p, "after")
        /\ UNCHANGED ret
  /\ UNCHANGED <<call, seen, disk, faults>>

(***************************************************************************)
(* _release_lock_dir: look for owner.json, unlink it, rmdir.  It acts on   *)
(* the path, whoever made the directory that is there now, and swallows    *)
(* OSError: the unlink of a file that is gone skips the rmdir, the rmdir   *)
(* of a directory that is not empty does nothing.                          *)
(***************************************************************************)
ReturnFromRelease(p) ==
  \/ /\ ret[p] = "reap"
     /\ Goto(p, "after")
     /\ ret' = [ret EXCEPT ![p] = "exit"]
  \/ ret[p] = "again" /\ BeginRelease(p, "exit")
  \/ ret[p] = "exit" /\ Goto(p, "idle") /\ UNCHANGED ret

ReleaseCheck(p) ==
  /\ At(p, "relCheck")
  /\ Goto(p, IF owner = None THEN "rmdir" ELSE "unlink")
  /\ UNCHANGED <<call, seen, ret, disk, faults>>

ReleaseUnlink(p) ==
  /\ At(p, "unlink")
  /\ \/ /\ owner # None
        /\ owner' = None
        /\ old' = FALSE
        /\ Goto(p, "rmdir")
        /\ UNCHANGED <<dir, ret>>
     \/ /\ owner = None
        /\ ReturnFromRelease(p)
        /\ UNCHANGED disk
  /\ UNCHANGED <<call, seen, faults>>

ReleaseRmdir(p) ==
  /\ At(p, "rmdir")
  /\ \/ /\ dir # None /\ owner = None
        /\ dir' = None
        /\ old' = FALSE
        /\ UNCHANGED owner
     \/ /\ dir = None \/ owner # None
        /\ UNCHANGED disk
  /\ ReturnFromRelease(p)
  /\ UNCHANGED <<call, seen, faults>>

(***************************************************************************)
(* After the reap attempt: mkdir, or the exists test of the two waiters.   *)
(***************************************************************************)
\* Mutant of Mkdir: mkdir(exist_ok=True).
MkdirExistOk(p) ==
  /\ At(p, "after") /\ call[p] = "lock"
  /\ dir' = p
  /\ old' = FALSE
  /\ Goto(p, "note")
  /\ UNCHANGED <<call, seen, ret, owner, faults>>

Mkdir(p) ==
  /\ At(p, "after") /\ call[p] = "lock"
  /\ dir = None
  /\ dir' = p
  /\ owner' = None
  /\ old' = FALSE
  /\ Goto(p, "note")
  /\ UNCHANGED <<call, seen, ret, faults>>

Blocked(p) == At(p, "after") /\ call[p] # "held" /\ dir # None

Poll(p) ==
  /\ Blocked(p)
  /\ Goto(p, "reap")
  /\ UNCHANGED <<call, seen, ret, disk, faults>>

\* The deadline has passed: TimeoutError, or False from the wait.
Timeout(p) ==
  /\ Blocked(p)
  /\ Goto(p, "idle")
  /\ UNCHANGED <<call, seen, ret, disk, faults>>

\* The path is clear for a waiter, or graph_write_lock_held has its answer.
Answer(p) ==
  /\ At(p, "after")
  /\ call[p] = "held" \/ (call[p] = "wait" /\ dir = None)
  /\ Goto(p, "idle")
  /\ UNCHANGED <<call, seen, ret, disk, faults>>

(***************************************************************************)
(* _write_owner and the body of the with statement.                        *)
(***************************************************************************)
WriteOwner(p) ==
  /\ At(p, "note")
  /\ dir # None
  /\ owner' = p
  /\ old' = (old /\ owner # None)
  /\ Goto(p, "hold")
  /\ UNCHANGED <<call, seen, ret, dir, faults>>

\* Mutant of WriteOwnerFails: the failure is raised without any release.
WriteOwnerFailsBare(p) ==
  /\ At(p, "note")
  /\ dir = None \/ "io" \in faults
  /\ Goto(p, "idle")
  /\ UNCHANGED <<call, seen, ret, disk, faults>>

\* OSError: the directory is gone, or the write failed before or after the
\* file was created.  The directory is released here and once more by the
\* finally clause.
WriteOwnerFails(p) ==
  /\ At(p, "note")
  /\ \/ dir = None /\ UNCHANGED owner
     \/ dir # None /\ "io" \in faults /\ owner' \in {owner, Torn}
  /\ old' = (old /\ (owner' = owner \/ owner # None))
  /\ BeginRelease(p, "again")
  /\ UNCHANGED <<call, seen, dir, faults>>

Leave(p) ==
  /\ At(p, "hold")
  /\ BeginRelease(p, "exit")
  /\ UNCHANGED <<call, seen, disk, faults>>
-----------------------------------------------------------------------------
(***************************************************************************)
(* The environment.                                                        *)
(***************************************************************************)
\* The locals of a process die with it; what it left on disk stays.
Die(p) ==
  /\ \/ At(p, "idle") /\ "exit" \in faults /\ Goto(p, "exited")
     \/ Alive(p) /\ ~At(p, "idle") /\ "crash" \in faults /\ Goto(p, "crashed")
  /\ call' = [call EXCEPT ![p] = "held"]
  /\ seen' = [seen EXCEPT ![p] = None]
  /\ ret' = [ret EXCEPT ![p] = "exit"]
  /\ UNCHANGED <<disk, faults>>

Expire ==
  /\ "expire" \in faults
  /\ dir # None /\ ~old
  /\ old' = TRUE
  /\ UNCHANGED <<pc, call, seen, ret, dir, owner, faults>>

\* What a running call does next, unless it waits for the path to clear.
Step(p) ==
  \/ ReapExists(p) \/ ReapRead(p) \/ ReapProbe(p) \/ ReapStat(p)
  \/ ReleaseCheck(p) \/ ReleaseUnlink(p) \/ ReleaseRmdir(p)
  \/ Mkdir(p) \/ Answer(p) \/ Poll(p)
  \/ WriteOwner(p) \/ WriteOwnerFails(p) \/ Leave(p)

Next ==
  \/ \E p \in Proc : Step(p) \/ Timeout(p) \/ Die(p)
  \/ \E p \in Proc, c \in Calls : Call(p, c)
  \/ Expire

Spec == Init /\ [][Next]_vars

\* A running process runs its call to the end and time passes; nobody has to
\* call, and nobody has to give up or to die.
FairSpec == Spec /\ (\A p \in Proc : WF_vars(Step(p))) /\ WF_vars(Expire)
-----------------------------------------------------------------------------
Holding(p) == pc[p] = "hold"

\* At most one process is inside the with statement of graph_write_lock: the
\* lock "coordinates those AgentScaffold writers" (locks.py:6).
MutualExclusion ==
  \A p, q \in Proc : Holding(p) /\ Holding(q) => p = q

\* Long-lived servers: no process exits or crashes, no holder outlives
\* stale_after and owner.json can be written; a pid may be impossible to probe.
Servers == faults \subseteq {"unknown"}

\* Among them the lock does what it is for.
ServersExclude == Servers => MutualExclusion

\* While one of them holds the lock, the directory on disk is the one it made
\* and owner.json names it, so that no reaper finds a reason to remove it.
HolderOnRecord ==
  Servers => \A p \in Proc : Holding(p) => dir = p /\ owner = p /\ ~old

\* From a successful mkdir to the end of the release in the finally clause.
Owning(p) ==
  \/ pc[p] \in {"note", "hold"}
  \/ pc[p] \in {"relCheck", "unlink", "rmdir"} /\ ret[p] # "reap"

Lock == INSTANCE WriteLock WITH
          Writer <- Proc,
          holder <- IF Servers THEN dir ELSE None,
          inside <- {p \in Proc : Servers /\ Owning(p)}

\* Its many file system calls behave as one lock that is taken when it is free
\* and given up by its holder: "lock ownership is still the directory itself"
\* (locks.py:99-104), whatever is reaped on the way.
ImplementsLock == Lock!Spec

\* When every call has returned, no lock directory is left behind, whatever
\* exits, expiries and failed owner writes happened on the way, and even when
\* processes removed each other's directory.  Only a crash inside a call
\* leaves one.
QuietClean ==
  (\A p \in Proc : pc[p] \in {"idle", "exited"}) => dir = None

\* A live process that polls for the path.
Waiter == \E p \in Proc : Alive(p) /\ pc[p] # "idle" /\ call[p] # "held"

\* A lock directory never wedges the callers: while somebody keeps asking for
\* it, the directory there is removed in the end, at whatever point its maker
\* crashed (before owner.json was written, or between the unlink and the rmdir
\* of the release, too).
AbandonedLockRecovered ==
  (dir # None /\ Waiter) ~> (dir = None \/ ~Waiter)
=============================================================================
