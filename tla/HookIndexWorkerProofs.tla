----------------------- MODULE HookIndexWorkerProofs -----------------------
(***************************************************************************)
(* What holds of the hook workers for any number of edits and commits.     *)
(***************************************************************************)
EXTENDS HookIndexWorker, TLAPS

LEMMA KindTyping == \A w \in Workers : Kind(w) \in Kinds
BY DEF Kind, Kinds

\* A behaviour keeps its fault plan.
LEMMA PlanIsRigid == [Next]_vars => UNCHANGED faults
<1>1. ASSUME NEW w \in Workers, Step(w) PROVE UNCHANGED faults
  BY <1>1 DEF Step, Begin, IntervalCheck, Reap, ReapRmdir, Mkdir, TakeLock, Busy, Run,
     NoteSuccess, Unlock, Fail, Crash
<1>2. ASSUME NEW w \in IndexWorkers, IndexStep(w) PROVE UNCHANGED faults
  BY <1>2 DEF IndexStep, LockCheck, TruncateRequest, WriteRequest, WaitGraph, StartRun,
     Recheck
<1>3. QED
  BY <1>1, <1>2 DEF Next, DeferCheck, Expire, vars

\* Every variable keeps its type.
THEOREM WorkerTyping == Spec => []TypeOK
<1> USE WorkerAssumption, KindTyping DEF TypeOK
<1>1. Init => TypeOK
  BY DEF Init, PC
<1>2. TypeOK /\ [Next]_vars => TypeOK'
  <2> SUFFICES ASSUME TypeOK, [Next]_vars PROVE TypeOK'
    OBVIOUS
  <2> USE DEF PC, At, Goto, locks
  <2>1. ASSUME NEW w \in Workers, Begin(w) PROVE TypeOK'
    BY <2>1 DEF Begin
  <2>2. ASSUME NEW w \in Workers, IntervalCheck(w) \/ Reap(w) \/ Busy(w) PROVE TypeOK'
    BY <2>2 DEF IntervalCheck, Reap, Busy
  <2>3. ASSUME NEW w \in Workers, ReapRmdir(w) \/ Unlock(w) PROVE TypeOK'
    BY <2>3 DEF ReapRmdir, Unlock, RemoveLock
  <2>4. ASSUME NEW w \in Workers, Mkdir(w) PROVE TypeOK'
    BY <2>4 DEF Mkdir, TakeLock
  <2>5. ASSUME NEW w \in Workers, Run(w) PROVE TypeOK'
    BY <2>5 DEF Run, EditsBefore
  <2>6. ASSUME NEW w \in Workers, NoteSuccess(w) \/ Fail(w) \/ Crash(w) PROVE TypeOK'
    BY <2>6 DEF NoteSuccess, Fail, Crash
  <2>7. ASSUME NEW w \in IndexWorkers, LockCheck(w) \/ WaitGraph(w) PROVE TypeOK'
    BY <2>7 DEF LockCheck, WaitGraph, Workers
  <2>8. ASSUME NEW w \in IndexWorkers, TruncateRequest(w) \/ WriteRequest(w) PROVE TypeOK'
    BY <2>8 DEF TruncateRequest, WriteRequest, Workers
  <2>9. ASSUME NEW w \in IndexWorkers, StartRun(w) \/ Recheck(w) PROVE TypeOK'
    BY <2>9 DEF StartRun, Recheck, Workers
  <2>10. ASSUME NEW w \in EmbedWorkers, DeferCheck(w) PROVE TypeOK'
    BY <2>10 DEF DeferCheck, Workers
  <2>11. ASSUME NEW k \in Kinds, Expire(k) PROVE TypeOK'
    BY <2>11 DEF Expire
  <2>12. CASE UNCHANGED vars
    BY <2>12 DEF vars
  <2>13. QED
    BY <2>1, <2>2, <2>3, <2>4, <2>5, <2>6, <2>7, <2>8, <2>9, <2>10, <2>11,
       <2>12 DEF Next, Step, IndexStep
<1>3. QED
  BY <1>1, <1>2, PTL DEF Spec
-----------------------------------------------------------------------------
(***************************************************************************)
(* Single flight: a working worker made the directory that is on disk, and *)
(* while no lock gets stale nobody but its maker removes it.               *)
(***************************************************************************)
MakerWorks ==
  /\ \A k \in Kinds : ~old[k]
  /\ \A w \in Workers : pc[w] # "reapRmdir"
  /\ \A w \in Workers : Working(w) => lock[Kind(w)] = w

\* A step that moves w, keeps the locks, and after which w works only if it
\* did before.
LEMMA KeepsLocks ==
  ASSUME NEW w \in Workers, TypeOK, MakerWorks, NEW label, Goto(w, label),
         UNCHANGED locks, label # "reapRmdir",
         label \in {"waitGraph", "start", "run", "note", "recheck", "rmdir"} => Working(w)
  PROVE  MakerWorks'
BY DEF MakerWorks, Working, TypeOK, Goto, locks

LEMMA MakerWorksStep ==
  ASSUME "expire" \notin faults, TypeOK, MakerWorks, [Next]_vars
  PROVE  MakerWorks'
<1> USE WorkerAssumption, KindTyping DEF At
<1>1. ASSUME NEW w \in Workers, Begin(w) \/ IntervalCheck(w) \/ Busy(w) PROVE MakerWorks'
  BY <1>1, KeepsLocks DEF Begin, IntervalCheck, Busy
<1>2. ASSUME NEW w \in Workers, Reap(w) PROVE MakerWorks'
  <2>1. ~old[Kind(w)]
    BY DEF MakerWorks
  <2>2. QED
    BY <1>2, <2>1, KeepsLocks DEF Reap
<1>3. ASSUME NEW w \in Workers, ReapRmdir(w) PROVE MakerWorks'
  BY <1>3 DEF ReapRmdir, MakerWorks
<1>4. ASSUME NEW w \in Workers, Mkdir(w) PROVE MakerWorks'
  <2>1. lock[Kind(w)] = None
    BY <1>4 DEF Mkdir
  <2>2. \A v \in Workers : Working(v) => Kind(v) # Kind(w)
    BY <2>1 DEF MakerWorks
  <2>3. QED
    BY <1>4, <2>2 DEF Mkdir, TakeLock, MakerWorks, Working, TypeOK, Goto
<1>5. ASSUME NEW w \in Workers, Unlock(w) PROVE MakerWorks'
  <2>1. Working(w)
    BY <1>5 DEF Unlock, Working
  <2>2. \A v \in Workers : Working(v) /\ v # w => Kind(v) # Kind(w)
    BY <2>1 DEF MakerWorks
  <2>3. QED
    BY <1>5, <2>2 DEF Unlock, RemoveLock, MakerWorks, Working, TypeOK, Goto
<1>6. ASSUME NEW w \in Workers, Run(w) \/ NoteSuccess(w) \/ Fail(w) \/ Crash(w)
      PROVE MakerWorks'
  BY <1>6, KeepsLocks DEF Run, NoteSuccess, Fail, Crash, Working, locks
<1>7. ASSUME NEW w \in IndexWorkers, IndexStep(w) PROVE MakerWorks'
  <2>1. w \in Workers
    BY DEF Workers
  <2>2. CASE LockCheck(w) \/ TruncateRequest(w) \/ WriteRequest(w)
    BY <2>1, <2>2, KeepsLocks DEF LockCheck, TruncateRequest, WriteRequest
  <2>3. CASE WaitGraph(w) \/ StartRun(w) \/ Recheck(w)
    BY <2>1, <2>3, KeepsLocks DEF WaitGraph, StartRun, Recheck, Working
  <2>4. QED
    BY <1>7, <2>2, <2>3 DEF IndexStep
<1>8. ASSUME NEW w \in EmbedWorkers, DeferCheck(w) PROVE MakerWorks'
  BY <1>8, KeepsLocks DEF DeferCheck, Workers
<1>9. CASE \E k \in Kinds : Expire(k)
  BY <1>9 DEF Expire
<1>10. CASE UNCHANGED vars
  BY <1>10 DEF vars, MakerWorks, Working
<1>11. QED
  BY <1>1, <1>2, <1>3, <1>4, <1>5, <1>6, <1>7, <1>8, <1>9, <1>10 DEF Next, Step

LEMMA MakerInvariant == Spec => []("expire" \notin faults => MakerWorks)
<1> DEFINE Inv == "expire" \notin faults => MakerWorks
<1>1. Init => Inv
  BY DEF Init, MakerWorks, Working
<1>2. TypeOK /\ Inv /\ [Next]_vars => Inv'
  BY MakerWorksStep, PlanIsRigid
<1> HIDE DEF Inv
<1>3. Spec => []Inv
  BY <1>1, <1>2, WorkerTyping, PTL DEF Spec
<1>4. QED
  BY <1>3 DEF Inv

\* At most one worker of a kind is at work, however many edits and commits
\* come in, as long as no lock outlives LOCK_STALE_SECONDS.
THEOREM OneWorkerOfAKind == Spec => []SingleFlight
<1>1. ("expire" \notin faults => MakerWorks) => SingleFlight
  BY DEF MakerWorks, SingleFlight
<1>2. QED
  BY <1>1, MakerInvariant, PTL

(***************************************************************************)
(* Refinement of WriteLock: what a step does to a lock and to the workers  *)
(* under it.                                                               *)
(***************************************************************************)
LEMMA WorkSteps ==
  ASSUME "expire" \notin faults, TypeOK, MakerWorks, [Next]_vars
  PROVE  \/ UNCHANGED lock /\ \A v \in Workers : Working(v)' <=> Working(v)
         \/ \E w \in Workers :
              /\ \A v \in Workers \ {w} : Working(v)' <=> Working(v)
              /\ \/ Mkdir(w) /\ Working(w)'
                 \/ Unlock(w) /\ ~Working(w)'
                 \/ UNCHANGED lock /\ Working(w) /\ ~Working(w)'
<1> USE WorkerAssumption, KindTyping DEF At
<1> DEFINE Idly == UNCHANGED lock /\ \A v \in Workers : Working(v)' <=> Working(v)
<1>0. ASSUME NEW w \in Workers, NEW label, Goto(w, label)
      PROVE  /\ pc'[w] = label
             /\ \A v \in Workers \ {w} : Working(v)' <=> Working(v)
  BY <1>0 DEF Goto, TypeOK, Working
<1>1. ASSUME NEW w \in Workers,
             Begin(w) \/ IntervalCheck(w) \/ Reap(w) \/ Busy(w) \/ Run(w) \/ NoteSuccess(w)
               \/ Fail(w)
      PROVE  Idly
  BY <1>0, <1>1 DEF Begin, IntervalCheck, Reap, Busy, Run, NoteSuccess, Fail, Working, locks
<1>2. ASSUME NEW w \in IndexWorkers, IndexStep(w) PROVE Idly
  <2>1. w \in Workers
    BY DEF Workers
  <2>2. CASE LockCheck(w) \/ TruncateRequest(w) \/ WriteRequest(w)
    BY <1>0, <2>1, <2>2 DEF LockCheck, TruncateRequest, WriteRequest, Working, locks
  <2>3. CASE WaitGraph(w) \/ StartRun(w) \/ Recheck(w)
    BY <1>0, <2>1, <2>3 DEF WaitGraph, StartRun, Recheck, Working, locks
  <2>4. QED
    BY <1>2, <2>2, <2>3 DEF IndexStep
<1>3. ASSUME NEW w \in EmbedWorkers, DeferCheck(w) PROVE Idly
  <2>1. w \in Workers
    BY DEF Workers
  <2>2. QED
    BY <1>0, <1>3, <2>1 DEF DeferCheck, Working, locks
<1>4. ASSUME NEW w \in Workers, ReapRmdir(w) PROVE FALSE
  BY <1>4 DEF ReapRmdir, MakerWorks
<1>5. ASSUME NEW w \in Workers, Mkdir(w)
      PROVE  Working(w)' /\ \A v \in Workers \ {w} : Working(v)' <=> Working(v)
  BY <1>0, <1>5 DEF Mkdir, TakeLock, Working
<1>6. ASSUME NEW w \in Workers, Unlock(w)
      PROVE  ~Working(w)' /\ \A v \in Workers \ {w} : Working(v)' <=> Working(v)
  BY <1>0, <1>6 DEF Unlock, Working
<1>7. ASSUME NEW w \in Workers, Crash(w)
      PROVE  /\ UNCHANGED lock /\ ~Working(w)'
             /\ \A v \in Workers \ {w} : Working(v)' <=> Working(v)
  BY <1>0, <1>7 DEF Crash, Working, locks
<1>8. CASE UNCHANGED vars
  BY <1>8 DEF vars, Working
<1>9. CASE \E k \in Kinds : Expire(k)
  BY <1>9 DEF Expire
<1>10. QED
  BY <1>1, <1>2, <1>3, <1>4, <1>5, <1>6, <1>7, <1>8, <1>9 DEF Next, Step

\* While no lock outlives LOCK_STALE_SECONDS each of the two lock directories
\* is the abstract lock, with killed workers as its dead holders.
THEOREM WorkerLocksRefine ==
  ASSUME NEW k \in Kinds
  PROVE  Spec => LockOf(k)!Spec
<1> USE WorkerAssumption
<1> DEFINE in == {w \in Workers : "expire" \notin faults /\ Working(w) /\ Kind(w) = k}
           Inv == "expire" \notin faults => MakerWorks
<1>1. Init => LockOf(k)!Init
  BY DEF Init, LockOf!Init, Working
<1>2. TypeOK /\ Inv /\ [Next]_vars => [LockOf(k)!Next]_(LockOf(k)!vars)
  <2> SUFFICES ASSUME TypeOK, Inv, [Next]_vars PROVE [LockOf(k)!Next]_(LockOf(k)!vars)
    OBVIOUS
  <2>1. CASE "expire" \in faults
    BY <2>1, PlanIsRigid DEF LockOf!vars
  <2>2. CASE "expire" \notin faults
    <3>0. "expire" \notin faults' /\ MakerWorks
      BY <2>2, PlanIsRigid
    <3>1. CASE UNCHANGED lock /\ \A v \in Workers : Working(v)' <=> Working(v)
      BY <2>2, <3>0, <3>1 DEF LockOf!vars
    <3>2. ASSUME NEW w \in Workers, \A v \in Workers \ {w} : Working(v)' <=> Working(v),
                 Mkdir(w), Working(w)'
          PROVE  [LockOf(k)!Next]_(LockOf(k)!vars)
      <4>1. lock[Kind(w)] = None /\ lock' = [lock EXCEPT ![Kind(w)] = w]
        BY <3>2 DEF Mkdir, TakeLock
      <4>2. CASE Kind(w) = k
        <5>1. in = {} /\ in' = {w}
          BY <2>2, <3>0, <3>2, <4>1, <4>2 DEF MakerWorks
        <5>2. lock[k] = None /\ lock'[k] = w
          BY <4>1, <4>2 DEF TypeOK
        <5>3. LockOf(k)!Take(w)
          BY <2>2, <3>0, <5>1, <5>2 DEF LockOf!Take
        <5>4. QED
          BY <4>2, <5>3 DEF LockOf!Next
      <4>3. CASE Kind(w) # k
        BY <2>2, <3>0, <3>2, <4>1, <4>3 DEF LockOf!vars, TypeOK
      <4>4. QED
        BY <4>2, <4>3
    <3>3. ASSUME NEW w \in Workers, \A v \in Workers \ {w} : Working(v)' <=> Working(v),
                 Unlock(w), ~Working(w)'
          PROVE  [LockOf(k)!Next]_(LockOf(k)!vars)
      <4>1. Working(w) /\ lock[Kind(w)] = w /\ lock' = [lock EXCEPT ![Kind(w)] = None]
        BY <3>0, <3>3 DEF Unlock, RemoveLock, Working, At, MakerWorks
      <4>2. CASE Kind(w) = k
        <5>1. in = {w} /\ in' = {}
          BY <2>2, <3>0, <3>3, <4>1, <4>2 DEF MakerWorks
        <5>2. lock[k] = w /\ lock'[k] = None
          BY <4>1, <4>2 DEF TypeOK
        <5>3. LockOf(k)!Give(w)
          BY <2>2, <3>0, <5>1, <5>2 DEF LockOf!Give
        <5>4. QED
          BY <4>2, <5>3 DEF LockOf!Next
      <4>3. CASE Kind(w) # k
        BY <2>2, <3>0, <3>3, <4>1, <4>3 DEF LockOf!vars, TypeOK
      <4>4. QED
        BY <4>2, <4>3
    <3>4. ASSUME NEW w \in Workers, \A v \in Workers \ {w} : Working(v)' <=> Working(v),
                 UNCHANGED lock, Working(w), ~Working(w)'
          PROVE  [LockOf(k)!Next]_(LockOf(k)!vars)
      <4>1. CASE Kind(w) = k
        <5>1. in = {w} /\ in' = {}
          BY <2>2, <3>0, <3>4, <4>1 DEF MakerWorks
        <5>2. LockOf(k)!Die(w)
          BY <2>2, <3>0, <3>4, <5>1 DEF LockOf!Die
        <5>3. QED
          BY <4>1, <5>2 DEF LockOf!Next
      <4>2. CASE Kind(w) # k
        BY <2>2, <3>0, <3>4, <4>2 DEF LockOf!vars
      <4>3. QED
        BY <4>1, <4>2
    <3>5. QED
      BY <2>2, <3>0, <3>1, <3>2, <3>3, <3>4, WorkSteps
  <2>3. QED
    BY <2>1, <2>2
<1>3. QED
  BY <1>1, <1>2, WorkerTyping, MakerInvariant, PTL DEF Spec, LockOf!Spec
-----------------------------------------------------------------------------
(***************************************************************************)
(* No lock is left: a lock directory on disk has a worker of its kind that *)
(* is on its way to the finally clause, or was killed on that way.         *)
(***************************************************************************)
LockHasWorker ==
  \A k \in Kinds : lock[k] # None =>
    \E w \in Workers : Kind(w) = k /\ (Working(w) \/ pc[w] = "crashed")

\* A step of w that takes no lock, and after which w still works or is crashed
\* if it was before.
LEMMA StaysResponsible ==
  ASSUME NEW w \in Workers, TypeOK, LockHasWorker, NEW label, Goto(w, label),
         \A k \in Kinds : lock'[k] \in {lock[k], None},
         Working(w) \/ pc[w] = "crashed" =>
           label \in {"waitGraph", "start", "run", "note", "recheck", "rmdir", "crashed"}
  PROVE  LockHasWorker'
<1>1. \A v \in Workers : Working(v) \/ pc[v] = "crashed"
                           => Working(v)' \/ pc'[v] = "crashed"
  BY DEF Working, TypeOK, Goto
<1>2. QED
  BY <1>1 DEF LockHasWorker, Kind

LEMMA LockHasWorkerStep ==
  ASSUME TypeOK, LockHasWorker, [Next]_vars
  PROVE  LockHasWorker'
<1> USE WorkerAssumption, KindTyping DEF At, locks
<1>1. ASSUME NEW w \in Workers, Begin(w) \/ IntervalCheck(w) \/ Busy(w) \/ Reap(w)
      PROVE LockHasWorker'
  BY <1>1, StaysResponsible DEF Begin, IntervalCheck, Busy, Reap, Working
<1>2. ASSUME NEW w \in Workers, ReapRmdir(w) PROVE LockHasWorker'
  BY <1>2, StaysResponsible DEF ReapRmdir, RemoveLock, Working, TypeOK
<1>3. ASSUME NEW w \in Workers, Mkdir(w) PROVE LockHasWorker'
  <2>1. Working(w)' /\ \A v \in Workers \ {w} : pc'[v] = pc[v]
    BY <1>3 DEF Mkdir, TakeLock, Working, TypeOK, Goto
  <2>2. \A k \in Kinds \ {Kind(w)} : lock'[k] = lock[k]
    BY <1>3 DEF Mkdir, TakeLock, TypeOK
  <2>3. ~Working(w) /\ pc[w] # "crashed"
    BY <1>3 DEF Mkdir, Working
  <2>4. QED
    BY <2>1, <2>2, <2>3 DEF LockHasWorker, Working, Kind
<1>4. ASSUME NEW w \in Workers, Unlock(w) PROVE LockHasWorker'
  <2>1. \A v \in Workers \ {w} : pc'[v] = pc[v]
    BY <1>4 DEF Unlock, TypeOK, Goto
  <2>2. lock'[Kind(w)] = None /\ \A k \in Kinds \ {Kind(w)} : lock'[k] = lock[k]
    BY <1>4 DEF Unlock, RemoveLock, TypeOK
  <2>3. QED
    BY <2>1, <2>2 DEF LockHasWorker, Working, Kind
<1>5. ASSUME NEW w \in Workers, Run(w) \/ NoteSuccess(w) \/ Fail(w) \/ Crash(w)
      PROVE LockHasWorker'
  BY <1>5, StaysResponsible DEF Run, NoteSuccess, Fail, Crash
<1>6. ASSUME NEW w \in IndexWorkers, IndexStep(w) PROVE LockHasWorker'
  <2>1. w \in Workers
    BY DEF Workers
  <2>2. CASE LockCheck(w) \/ TruncateRequest(w) \/ WriteRequest(w)
    BY <2>1, <2>2, StaysResponsible DEF LockCheck, TruncateRequest, WriteRequest, Working
  <2>3. CASE WaitGraph(w) \/ StartRun(w) \/ Recheck(w)
    BY <2>1, <2>3, StaysResponsible DEF WaitGraph, StartRun, Recheck
  <2>4. QED
    BY <1>6, <2>2, <2>3 DEF IndexStep
<1>7. ASSUME NEW w \in EmbedWorkers, DeferCheck(w) PROVE LockHasWorker'
  BY <1>7, StaysResponsible DEF DeferCheck, Workers, Working
<1>8. CASE \E k \in Kinds : Expire(k)
  BY <1>8 DEF Expire, LockHasWorker, Working, Kind
<1>9. CASE UNCHANGED vars
  BY <1>9 DEF vars, LockHasWorker, Working, Kind
<1>10. QED
  BY <1>1, <1>2, <1>3, <1>4, <1>5, <1>6, <1>7, <1>8, <1>9 DEF Next, Step

\* Whatever fails or expires, workers that return leave no lock behind.
THEOREM ReturnedWorkersUnlock == Spec => []NoLockLeft
<1>1. Init => LockHasWorker
  BY DEF Init, LockHasWorker
<1>2. TypeOK /\ LockHasWorker /\ [Next]_vars => LockHasWorker'
  BY LockHasWorkerStep
<1>3. LockHasWorker => NoLockLeft
  BY DEF LockHasWorker, NoLockLeft, Working, Finished
<1>4. QED
  BY <1>1, <1>2, <1>3, WorkerTyping, PTL DEF Spec
-----------------------------------------------------------------------------
(***************************************************************************)
(* A request that was read has been answered.  After its run a worker has  *)
(* indexed every edit that is not later than the start of the run.         *)
(***************************************************************************)
RunCovers ==
  /\ request # None => ~At(request, "new")
  /\ \A w \in Workers : pc[w] \in {"note", "recheck"} => EditsBefore(w) \subseteq indexed

\* A step after which no worker is newly behind its run, and that starts no
\* edit: it moves w, which had begun, to a place where nothing is claimed of it
\* or where it was already behind the run.
LEMMA KeepsCovering ==
  ASSUME NEW w \in Workers, TypeOK, RunCovers, NEW label, Goto(w, label),
         ~At(w, "new"), label # "new",
         label \in {"note", "recheck"} => At(w, "note"),
         \A v \in Workers : v # w => late'[v] = late[v],
         At(w, "note") => late'[w] = late[w],
         request' \in {request, None}, UNCHANGED indexed
  PROVE  RunCovers'
BY WorkerAssumption DEF RunCovers, EditsBefore, At, Goto, TypeOK, Workers

LEMMA RunCoversStep ==
  ASSUME "run" \notin faults, TypeOK, RunCovers, [Next]_vars
  PROVE  RunCovers'
<1> USE WorkerAssumption
<1>1. ASSUME NEW w \in Workers, Begin(w) PROVE RunCovers'
  <2>1. \A e \in Workers \ {w} : pc'[e] = pc[e]
    BY <1>1 DEF Begin, Goto, TypeOK
  <2>2. pc[w] = "new" /\ pc'[w] \in {"deferCheck", "lockCheck", "truncate"}
    BY <1>1 DEF Begin, Goto, At, TypeOK
  <2>3. ASSUME NEW v \in Workers, pc'[v] \in {"note", "recheck"}
        PROVE EditsBefore(v)' \subseteq indexed'
    <3>1. v # w /\ pc'[v] = pc[v] /\ Looping(v)
      BY <2>1, <2>2, <2>3 DEF Looping
    <3>2. late'[v] = late[v] \cup ({w} \cap IndexWorkers)
      BY <1>1, <3>1 DEF Begin
    <3>3. EditsBefore(v)' \subseteq EditsBefore(v)
      BY <2>1, <3>2 DEF EditsBefore, At, Workers
    <3>4. QED
      BY <1>1, <2>3, <3>1, <3>3 DEF RunCovers, Begin
  <2>4. (request # None => ~At(request, "new"))'
    BY <1>1, <2>1, <2>2 DEF RunCovers, Begin, At, TypeOK, Workers
  <2>5. QED
    BY <2>3, <2>4 DEF RunCovers
<1>2. ASSUME NEW w \in Workers, IntervalCheck(w) \/ Busy(w) \/ Reap(w) \/ ReapRmdir(w)
      PROVE RunCovers'
  BY <1>2, KeepsCovering DEF IntervalCheck, Busy, Reap, ReapRmdir, At
<1>3. ASSUME NEW w \in Workers, Mkdir(w) PROVE RunCovers'
  BY <1>3, KeepsCovering DEF Mkdir, TakeLock, At
<1>4. ASSUME NEW w \in Workers, Run(w) PROVE RunCovers'
  <2>1. indexed' = indexed \cup EditsBefore(w) /\ UNCHANGED <<late, request>>
    BY <1>4 DEF Run
  <2>2. pc[w] = "run" /\ pc' = [pc EXCEPT ![w] = "note"]
    BY <1>4 DEF Run, At, Goto
  <2>3. \A v \in Workers : EditsBefore(v)' = EditsBefore(v)
    BY <2>1, <2>2 DEF EditsBefore, At, TypeOK, Workers
  <2>4. QED
    BY <2>1, <2>2, <2>3 DEF RunCovers, At, TypeOK, Workers
<1>5. ASSUME NEW w \in Workers, NoteSuccess(w) \/ Unlock(w) PROVE RunCovers'
  BY <1>5, KeepsCovering DEF NoteSuccess, Unlock, At
<1>6. ASSUME NEW w \in Workers, Fail(w) \/ Crash(w) PROVE RunCovers'
  BY <1>6, KeepsCovering DEF Fail, Crash, At
<1>7. ASSUME NEW w \in IndexWorkers, LockCheck(w) \/ TruncateRequest(w) \/ WaitGraph(w)
      PROVE RunCovers'
  BY <1>7, KeepsCovering DEF LockCheck, TruncateRequest, WaitGraph, At, Workers
<1>8. ASSUME NEW w \in IndexWorkers, WriteRequest(w) PROVE RunCovers'
  <2>1. \A v \in Workers : EditsBefore(v)' = EditsBefore(v)
    BY <1>8 DEF WriteRequest, EditsBefore, At, Goto, TypeOK, Workers
  <2>2. QED
    BY <1>8, <2>1 DEF WriteRequest, RunCovers, At, Goto, TypeOK, Workers
<1>9. ASSUME NEW w \in IndexWorkers, StartRun(w) \/ Recheck(w) PROVE RunCovers'
  BY <1>9, KeepsCovering DEF StartRun, Recheck, At, TypeOK, Workers
<1>10. ASSUME NEW w \in EmbedWorkers, DeferCheck(w) PROVE RunCovers'
  BY <1>10, KeepsCovering DEF DeferCheck, At, Workers
<1>11. CASE \E k \in Kinds : Expire(k)
  BY <1>11 DEF Expire, RunCovers, EditsBefore, At
<1>12. CASE UNCHANGED vars
  BY <1>12 DEF vars, RunCovers, EditsBefore, At
<1>13. QED
  BY <1>1, <1>2, <1>3, <1>4, <1>5, <1>6, <1>7, <1>8, <1>9, <1>10, <1>11, <1>12
     DEF Next, Step, IndexStep

\* A worker that stops has indexed the edit whose request it read last, as
\* long as the indexer does what it is asked to; locks may expire, workers may
\* be killed, and requests may be overwritten.
THEOREM ReadRequestAnswered == Spec => RequestAnswered
<1> DEFINE Inv == "run" \notin faults => RunCovers
<1>1. Init => Inv
  BY DEF Init, RunCovers
<1>2. TypeOK /\ Inv /\ [Next]_vars => Inv'
  BY RunCoversStep, PlanIsRigid
<1>3. ASSUME TypeOK, RunCovers, [Next]_vars,
             NEW w \in IndexWorkers, At(w, "recheck"), pc'[w] = "rmdir", request # None
      PROVE  request \in indexed
  <2>1. Recheck(w)
    <3>1. pc' # pc
      BY <1>3 DEF At
    <3>2. ASSUME NEW v \in Workers, v # w, NEW label, Goto(v, label) PROVE FALSE
      BY <1>3, <3>2 DEF Goto, TypeOK, At, Workers
    <3>3. w \in Workers /\ w \notin EmbedWorkers
      BY WorkerAssumption DEF Workers
    <3>4. ASSUME NEW v \in Workers, Step(v) PROVE FALSE
      <4>1. v = w
        BY <3>2, <3>4 DEF Step, Begin, IntervalCheck, Reap, ReapRmdir, Mkdir, TakeLock,
           Busy, Run, NoteSuccess, Unlock, Fail, Crash
      <4>2. QED
        BY <1>3, <3>4, <4>1 DEF Step, Begin, IntervalCheck, Reap, ReapRmdir, Mkdir,
           TakeLock, Busy, Run, NoteSuccess, Unlock, Fail, Crash, Goto, At, TypeOK, Workers
    <3>5. ASSUME NEW v \in IndexWorkers, IndexStep(v) PROVE Recheck(w)
      <4>1. v = w
        BY <3>2, <3>5 DEF IndexStep, LockCheck, TruncateRequest, WriteRequest, WaitGraph,
           StartRun, Recheck, Workers
      <4>2. QED
        BY <1>3, <3>5, <4>1 DEF IndexStep, LockCheck, TruncateRequest, WriteRequest,
           WaitGraph, StartRun, At
    <3>6. ASSUME NEW v \in EmbedWorkers, DeferCheck(v) PROVE FALSE
      BY <3>2, <3>3, <3>6 DEF DeferCheck, Workers
    <3>7. QED
      BY <1>3, <3>1, <3>4, <3>5, <3>6 DEF Next, Expire, vars
  <2>2. request \notin late[w]
    BY <1>3, <2>1 DEF Recheck, Goto, TypeOK, Workers
  <2>3. request \in EditsBefore(w)
    BY <1>3, <2>2 DEF RunCovers, EditsBefore, TypeOK
  <2>4. QED
    BY <1>3, <2>3 DEF RunCovers, At, Workers
<1>4. TypeOK /\ Inv /\ [Next]_vars =>
        [\A w \in IndexWorkers :
           "run" \notin faults /\ At(w, "recheck") /\ pc'[w] = "rmdir" /\ request # None
           => request \in indexed]_vars
  BY <1>3
<1> HIDE DEF Inv
<1>5. QED
  BY <1>1, <1>2, <1>4, WorkerTyping, PTL DEF Spec, RequestAnswered
=============================================================================
