----------------------- MODULE RefreshCoordinatorProofs -----------------------
(***************************************************************************)
(* Proofs about RefreshCoordinator, for any threads, changes, moves of     *)
(* HEAD and failures.  An action is described by what it does to each part *)
(* of the state, in lemmas that the invariants share.                      *)
(***************************************************************************)
EXTENDS RefreshCoordinator, TLAPS

\* A lane's thread starts: one that was idle.
LEMMA Started ==
  ASSUME NEW l \in Lane, StartThread(l)
  PROVE  \E t \in Thread : At(l, t, "none") /\ Goto(l, t, "probe")
<1> DEFINE t == CHOOSE t \in Idle(l) : TRUE
<1>1. t \in Idle(l)
  BY DEF StartThread
<1>2. Goto(l, t, "probe")
  BY DEF StartThread
<1> HIDE DEF t
<1> QED BY <1>1, <1>2 DEF Idle

\* What a request does to the threads and the coordinator of its lane.
LEMMA Requested ==
  ASSUME TypeOK, NEW l \in Lane, Request(l)
  PROVE  /\ \/ UNCHANGED wpc
            \/ ~running[l] /\ \E t \in Thread : At(l, t, "none") /\ Goto(l, t, "probe")
         /\ running' \in [Lane -> BOOLEAN] /\ pending' \in [Lane -> BOOLEAN]
         /\ recent' \in BOOLEAN
         /\ owed' \in [Lane -> Change]
<1>1. CASE running[l] /\ owed' = [owed EXCEPT ![l] = repo]
             /\ pending' = [pending EXCEPT ![l] = TRUE] /\ UNCHANGED <<running, recent, wpc>>
  BY <1>1 DEF TypeOK
<1>2. CASE UNCHANGED <<coordinator, wpc>>
  BY <1>2 DEF TypeOK, coordinator
<1>3. CASE ~running[l] /\ StartThread(l)
  BY <1>3, Started DEF TypeOK, StartThread
<1> QED BY <1>1, <1>2, <1>3 DEF Request

-----------------------------------------------------------------------------
Calls == [tool : Tool, wm : Signals \cup {None}, blind : Change, due : Change,
          status : Status]

LEMMA NoCallTyped == NoCall \in Calls
<1>1. 0 \in Change
  BY RefreshAssumption DEF Change
<1> QED BY <1>1 DEF NoCall, Calls, Tool, Status

LEMMA CurrentTyped ==
  ASSUME TypeOK
  PROVE  Current \in Signals
BY DEF TypeOK, Current, Signals

LEMMA InitTyped == Init => TypeOK
<1> SUFFICES ASSUME Init PROVE TypeOK
  OBVIOUS
<1>1. 0 \in Change /\ 0 \in 0..MaxHead /\ 0 \in 0..MaxFaults
  BY RefreshAssumption DEF Change
<1>2. call \in Calls
  BY NoCallTyped DEF Init
<1> QED BY <1>1, <1>2 DEF Init, TypeOK, Calls

\* The variables keep their types.
THEOREM RefreshTyping == Spec => []TypeOK
<1>1. Init => TypeOK
  BY InitTyped
<1>2. TypeOK /\ [Next]_vars => TypeOK'
  <2> SUFFICES ASSUME TypeOK, [Next]_vars PROVE TypeOK'
    OBVIOUS
  <2> USE RefreshAssumption
  <2>0. ASSUME NEW r, NEW h, NEW d, r \in Change, h \in 0..MaxHead, d \in BOOLEAN,
               Becomes(r, h, d), hook' \in {"off", "waiting", "open"}
        PROVE  TypeOK'
    <3>1. call' \in Calls
      BY <2>0 DEF Becomes, TypeOK, Calls
    <3> QED BY <2>0, <3>1 DEF TypeOK, Becomes, coordinator, workers, Change, Calls
  <2>1. CASE Edit
    <3>1. repo + 1 \in Change
      BY <2>1 DEF Edit, TypeOK, Change
    <3> QED BY <2>0, <2>1, <3>1 DEF Edit, TypeOK
  <2>2. CASE Commit
    <3>1. head + 1 \in 0..MaxHead
      BY <2>2 DEF Commit, TypeOK
    <3> QED BY <2>0, <2>2, <3>1 DEF Commit, TypeOK
  <2>3. CASE Pull
    <3>1. head + 1 \in 0..MaxHead /\ repo + 1 \in Change
      BY <2>3 DEF Pull, TypeOK, Change
    <3> QED BY <2>0, <2>3, <3>1 DEF Pull, TypeOK
  <2>4. CASE Hook
    BY <2>4 DEF Hook, HookOpen, HookDone, TypeOK, repository, coordinator, workers
  <2>5. CASE Cool
    BY <2>5 DEF Cool, TypeOK, repository, coordinator, workers
  <2>6. ASSUME NEW l \in Lane, NEW t \in Thread,
               Work(l, t) \/ LockTimeout(l, t) \/ IndexFails(l, t)
        PROVE  TypeOK'
    <3>0. Fault => faults' \in 0..MaxFaults
      BY DEF Fault, TypeOK
    <3>1. CASE Probe(l, t)
      <4>1. CASE Abandon(l, t)
        BY <3>1, <4>1 DEF Probe, Abandon, Workless, Goto, TypeOK, repository, Change
      <4>2. CASE (Goto(l, t, "mark") \/ Goto(l, t, "lock")) /\ UNCHANGED coordinator
        <5>1. wpc' \in [Lane -> [Thread -> {"none", "probe", "lock", "commit", "mark", "finish"}]]
          <6>1. CASE Goto(l, t, "mark")
            BY <6>1 DEF Goto, TypeOK
          <6>2. CASE Goto(l, t, "lock")
            BY <6>2 DEF Goto, TypeOK
          <6> QED BY <4>2, <6>1, <6>2
        <5>2. UNCHANGED <<repository, graph, wm, lock, hook, seen, dpc, call, faults, blind>>
          BY <3>1 DEF Probe
        <5> QED BY <4>2, <5>1, <5>2 DEF TypeOK, repository, coordinator
      <4> QED BY <3>1, <4>1, <4>2 DEF Probe
    <3>2. CASE Lock(l, t)
      BY <3>2 DEF Lock, Goto, TypeOK, repository, coordinator
    <3>3. CASE IndexDone(l, t)
      BY <3>3 DEF IndexDone, Goto, TypeOK, repository, coordinator, Change
    <3>4. CASE WriteWatermark(l, t)
      <4>1. wm' \in Signals \cup {None} /\ blind' \in Change /\ faults' \in 0..MaxFaults
        BY <3>0, <3>4 DEF WriteWatermark, Read, TypeOK
      <4> QED BY <3>4, <4>1 DEF WriteWatermark, Goto, TypeOK, repository, coordinator
    <3>5. CASE Finish(l, t)
      BY <3>5 DEF Finish, Goto, TypeOK, repository, Change
    <3>6. CASE LockTimeout(l, t)
      BY <3>6, <3>0 DEF LockTimeout, Abandon, Workless, Goto, TypeOK, repository, Change
    <3>7. CASE IndexFails(l, t)
      BY <3>7, <3>0 DEF IndexFails, Abandon, Workless, Goto, TypeOK, repository, Change
    <3> QED BY <2>6, <3>1, <3>2, <3>3, <3>4, <3>5, <3>6, <3>7 DEF Work
  <2>7. ASSUME NEW tool \in Tool, OpenStore(tool) PROVE TypeOK'
    <3>1. [NoCall EXCEPT !.tool = tool, !.wm = wm, !.blind = blind] \in Calls
      BY NoCallTyped, <2>7 DEF Calls, TypeOK
    <3> QED BY <2>7, <3>1 DEF OpenStore, Handle, TypeOK, repository, coordinator, Calls
  <2>8. CASE Evaluate
    <3>0. PICK s \in Signals \cup {None}, status \in Status :
            /\ Read(s)
            /\ call' = [call EXCEPT !.wm = None, !.blind = 0,
                                    !.due = IF MustSee(s) THEN repo ELSE 0,
                                    !.status = status]
      <4>1. PICK s \in Signals \cup {None} :
              /\ Read(s)
              /\ call' = [call EXCEPT !.wm = None, !.blind = 0,
                                      !.due = IF MustSee(s) THEN repo ELSE 0,
                                      !.status = IF running["refresh"] THEN "refreshing"
                                                 ELSE IF s # None /\ s = call.wm THEN "fresh"
                                                 ELSE "stale"]
        BY <2>8 DEF Evaluate, Handle
      <4> QED BY <4>1 DEF Status
    <3>1. faults' \in 0..MaxFaults
      <4>1. UNCHANGED faults \/ Fault
        BY <3>0 DEF Read
      <4> QED BY <4>1 DEF Fault, TypeOK
    <3>2. call' \in Calls
      <4>1. 0 \in Change /\ repo \in Change
        BY DEF TypeOK, Change
      <4> QED BY <3>0, <4>1 DEF TypeOK, Calls
    <3> QED BY <2>8, <3>1, <3>2 DEF Evaluate, Handle, TypeOK, repository, coordinator, Calls
  <2>9. ASSUME NEW l \in Lane, Request(l) \/ UNCHANGED <<coordinator, wpc>>,
               dpc' \in {"idle", "embed", "run"}, call' \in {call, NoCall},
               UNCHANGED <<repository, graph, wm, lock, hook, seen, blind, faults>>
        PROVE  TypeOK'
    <3>1. wpc' \in [Lane -> [Thread -> {"none", "probe", "lock", "commit", "mark", "finish"}]]
      <4>1. CASE UNCHANGED wpc
        BY <4>1 DEF TypeOK
      <4>2. CASE \E t \in Thread : Goto(l, t, "probe")
        BY <4>2 DEF Goto, TypeOK
      <4> QED BY <2>9, <4>1, <4>2, Requested
    <3>2. /\ running' \in [Lane -> BOOLEAN] /\ pending' \in [Lane -> BOOLEAN]
          /\ recent' \in BOOLEAN /\ owed' \in [Lane -> Change]
      BY <2>9, Requested DEF TypeOK, coordinator
    <3>3. call' \in Calls
      BY <2>9, NoCallTyped DEF TypeOK, Calls
    <3> QED BY <2>9, <3>1, <3>2, <3>3 DEF TypeOK, repository, Calls
  <2>10. CASE Schedule
    BY <2>9, <2>10 DEF Schedule, Handle, Lane
  <2>11. CASE ScheduleEmbedding
    BY <2>9, <2>11 DEF ScheduleEmbedding, Gate, Handle, Lane
  <2>12. CASE RunTool
    BY <2>9, <2>12 DEF RunTool, Handle, Lane
  <2>13. CASE UNCHANGED vars
    BY <2>13 DEF vars, TypeOK, repository, coordinator, workers
  <2> QED BY <2>1, <2>2, <2>3, <2>4, <2>5, <2>6, <2>7, <2>8, <2>10, <2>11, <2>12, <2>13
          DEF Next, Dispatch
<1> QED BY <1>1, <1>2, PTL DEF Spec

-----------------------------------------------------------------------------
(***************************************************************************)
(* One thread per lane.                                                    *)
(***************************************************************************)
LaneFree(l) == \A t \in Thread : wpc[l][t] = "none"
LaneOf(l, t) == \A s \in Thread : wpc[l][s] # "none" => s = t

\* SingleFlight, lane by lane: a lane runs for one thread or is free.
OneThread(l) ==
  \/ ~running[l] /\ LaneFree(l)
  \/ running[l] /\ \E t \in Thread : wpc[l][t] # "none" /\ LaneOf(l, t)

LEMMA SingleFlightByLane ==
  ASSUME TypeOK
  PROVE  SingleFlight <=> \A l \in Lane : OneThread(l)
BY DEF SingleFlight, OneThread, LaneFree, LaneOf, Active, TypeOK

\* A lane whose thread goes on, or ends and clears running.
LEMMA Advanced ==
  ASSUME TypeOK, NEW l \in Lane, NEW t \in Thread, NEW x,
         \A k \in Lane : OneThread(k),
         wpc[l][t] # "none", Goto(l, t, x),
         \/ x # "none" /\ UNCHANGED running
         \/ x = "none" /\ running' = [running EXCEPT ![l] = FALSE]
  PROVE  \A k \in Lane : OneThread(k)'
<1>1. running[l] /\ LaneOf(l, t)
  BY DEF OneThread, LaneFree, LaneOf
<1>2. \A s \in Thread : wpc'[l][s] = IF s = t THEN x ELSE wpc[l][s]
  BY DEF Goto, TypeOK
<1>3. OneThread(l)'
  <2>1. CASE x # "none" /\ UNCHANGED running
    BY <1>1, <1>2, <2>1 DEF OneThread, LaneOf
  <2>2. CASE x = "none" /\ running' = [running EXCEPT ![l] = FALSE]
    <3>1. ~running'[l]
      BY <2>2 DEF TypeOK
    <3>2. LaneFree(l)'
      BY <1>1, <1>2, <2>2 DEF LaneFree, LaneOf
    <3> QED BY <3>1, <3>2 DEF OneThread
  <2> QED BY <2>1, <2>2
<1>4. ASSUME NEW k \in Lane, k # l PROVE OneThread(k)'
  <2>1. wpc'[k] = wpc[k]
    BY <1>4 DEF Goto, TypeOK
  <2>2. running'[k] = running[k]
    BY <1>4 DEF TypeOK
  <2> QED BY <2>1, <2>2 DEF OneThread, LaneFree, LaneOf
<1> QED BY <1>3, <1>4

\* A request gives a thread to a lane that has none, or none at all.
LEMMA Begun ==
  ASSUME TypeOK, NEW l \in Lane, Request(l),
         \A k \in Lane : OneThread(k)
  PROVE  \A k \in Lane : OneThread(k)'
<1>1. CASE UNCHANGED <<running, wpc>>
  BY <1>1 DEF OneThread, LaneFree, LaneOf
<1>2. CASE ~running[l] /\ StartThread(l)
  <2>1. PICK t \in Thread : At(l, t, "none") /\ Goto(l, t, "probe")
    BY <1>2, Started
  <2>2. LaneFree(l)
    BY <1>2 DEF OneThread
  <2>3. \A s \in Thread : wpc'[l][s] = IF s = t THEN "probe" ELSE wpc[l][s]
    BY <2>1 DEF Goto, TypeOK
  <2>4. running'[l] /\ \A k \in Lane : k # l => running'[k] = running[k]
    BY <1>2 DEF StartThread, TypeOK
  <2>5. OneThread(l)'
    BY <2>2, <2>3, <2>4 DEF OneThread, LaneFree, LaneOf
  <2>6. ASSUME NEW k \in Lane, k # l PROVE OneThread(k)'
    <3>1. wpc'[k] = wpc[k]
      BY <2>1, <2>6 DEF Goto, TypeOK
    <3> QED BY <2>4, <2>6, <3>1 DEF OneThread, LaneFree, LaneOf
  <2> QED BY <2>5, <2>6
<1> QED BY <1>1, <1>2 DEF Request, coordinator

LEMMA OneThreadStep ==
  ASSUME TypeOK, [Next]_vars, \A l \in Lane : OneThread(l)
  PROVE  \A l \in Lane : OneThread(l)'
<1>0. CASE UNCHANGED <<running, wpc>>
  BY <1>0 DEF OneThread, LaneFree, LaneOf
<1>1. CASE Edit \/ Commit \/ Pull
  BY <1>0, <1>1 DEF Edit, Commit, Pull, Becomes, coordinator, workers
<1>2. CASE Hook \/ Cool \/ UNCHANGED vars
  BY <1>0, <1>2 DEF Hook, HookOpen, HookDone, Cool, vars, coordinator, workers
<1>3. ASSUME NEW l \in Lane, NEW t \in Thread,
             Work(l, t) \/ LockTimeout(l, t) \/ IndexFails(l, t)
      PROVE  \A k \in Lane : OneThread(k)'
  <2>0. wpc[l][t] # "none"
    BY <1>3 DEF Work, Probe, Lock, IndexDone, WriteWatermark, Finish, LockTimeout,
                IndexFails, At
  <2>1. CASE Abandon(l, t)
    BY <2>0, <2>1, Advanced DEF Abandon, Workless
  <2>2. CASE UNCHANGED running
             /\ \E x \in {"lock", "commit", "mark", "finish"} : Goto(l, t, x)
    BY <2>0, <2>2, Advanced
  <2>3. CASE Finish(l, t)
    <3>1. pending[l] \in BOOLEAN
      BY DEF TypeOK
    <3>2. CASE pending[l]
      <4>1. running[l]
        BY <2>0 DEF OneThread, LaneFree
      <4>2. UNCHANGED running /\ Goto(l, t, "probe")
        BY <2>3, <3>2, <4>1 DEF Finish, TypeOK
      <4> QED BY <2>0, <4>2, Advanced
    <3>3. CASE ~pending[l]
      <4>1. running' = [running EXCEPT ![l] = FALSE] /\ Goto(l, t, "none")
        BY <2>3, <3>1, <3>3 DEF Finish
      <4> QED BY <2>0, <4>1, Advanced
    <3> QED BY <3>1, <3>2, <3>3
  <2> QED
    BY <1>3, <2>1, <2>2, <2>3
    DEF Work, Probe, Lock, IndexDone, WriteWatermark, LockTimeout, IndexFails, coordinator
<1>4. CASE \E tool \in Tool : OpenStore(tool)
  BY <1>0, <1>4 DEF OpenStore, coordinator
<1>5. CASE Dispatch
  <2>1. UNCHANGED <<running, wpc>> \/ \E l \in Lane : Request(l)
    BY <1>5 DEF Dispatch, Evaluate, Schedule, ScheduleEmbedding, RunTool, coordinator, Lane
  <2> QED BY <1>0, <2>1, Begun
<1> QED BY <1>1, <1>2, <1>3, <1>4, <1>5 DEF Next

\* A lane has at most one thread, and running is set exactly as long as it has
\* one: no failure leaves a lane that refuses every request.
THEOREM RefreshSingleFlight == Spec => []SingleFlight
<1>1. Init => \A l \in Lane : OneThread(l)
  BY DEF Init, OneThread, LaneFree
<1>2. TypeOK /\ (\A l \in Lane : OneThread(l)) /\ [Next]_vars => (\A l \in Lane : OneThread(l))'
  BY OneThreadStep
<1>3. TypeOK /\ (\A l \in Lane : OneThread(l)) => SingleFlight
  BY SingleFlightByLane
<1> QED BY <1>1, <1>2, <1>3, RefreshTyping, PTL DEF Spec

-----------------------------------------------------------------------------
(***************************************************************************)
(* What a lane owes.  The graph never goes back: who is about to write it  *)
(* holds the write lock and has scanned what the graph had.                *)
(***************************************************************************)
Busy == {l \in Lane : \E t \in Thread : wpc[l][t] = "commit"}

Locked ==
  /\ \A l \in Busy : lock = l
  /\ hook = "open" => lock = "hook"

Bounded ==
  /\ graph <= repo /\ blind <= repo
  /\ \A l \in Lane : owed[l] <= repo
  /\ \A l \in Lane, t \in Thread : seen[l][t] <= repo

Ahead == \A l \in Lane, t \in Thread : At(l, t, "commit") => graph <= seen[l][t]

\* Until a request is coalesced, a run that has scanned covers what is owed.
Covers ==
  \A l \in Lane, t \in Thread :
    ~pending[l] =>
      /\ At(l, t, "commit") => owed[l] <= seen[l][t]
      /\ wpc[l][t] \in {"mark", "finish"} => owed[l] <= graph

FlowInv ==
  /\ \A l \in Lane : OneThread(l)
  /\ Locked /\ Bounded /\ Ahead /\ Covers

LEMMA FlowInit == Init => FlowInv
BY DEF Init, FlowInv, OneThread, LaneFree, Busy, Locked, Bounded, Ahead, Covers, NoCall, At

\* What cannot disturb it: nothing that a run has seen is touched.
LEMMA FlowRequested ==
  ASSUME TypeOK, FlowInv, NEW l \in Lane, Request(l),
         UNCHANGED <<repository, graph, lock, hook, seen, blind>>
  PROVE  (Locked /\ Bounded /\ Ahead /\ Covers)'
<1>0. repo \in Nat /\ \A k \in Lane : owed[k] \in Nat
  BY RefreshAssumption DEF TypeOK, Change
<1>1. CASE /\ running[l]
           /\ pending' = [pending EXCEPT ![l] = TRUE]
           /\ owed' = [owed EXCEPT ![l] = repo]
           /\ UNCHANGED <<running, recent, wpc>>
  <2>1. \A k \in Lane : owed'[k] <= repo
    BY <1>0, <1>1 DEF FlowInv, Bounded, TypeOK
  <2>2. Covers'
    BY <1>1 DEF FlowInv, Covers, At, TypeOK
  <2> QED BY <1>1, <2>1, <2>2 DEF FlowInv, Locked, Busy, Bounded, Ahead, At, repository
<1>2. CASE UNCHANGED <<coordinator, wpc>>
  BY <1>2 DEF FlowInv, Locked, Busy, Bounded, Ahead, Covers, At, coordinator, repository
<1>3. CASE ~running[l] /\ StartThread(l)
  <2>1. PICK t \in Thread : At(l, t, "none") /\ Goto(l, t, "probe")
    BY <1>3, Started
  <2>2. \A k \in Lane, s \in Thread :
          wpc'[k][s] = IF k = l /\ s = t THEN "probe" ELSE wpc[k][s]
    BY <2>1 DEF Goto, TypeOK
  <2>3. LaneFree(l)
    BY <1>3 DEF FlowInv, OneThread
  <2>4. /\ owed' = [owed EXCEPT ![l] = repo]
        /\ pending' = [pending EXCEPT ![l] = FALSE]
    BY <1>3 DEF StartThread
  <2>5. \A k \in Lane : owed'[k] <= repo
    BY <1>0, <2>4 DEF FlowInv, Bounded, TypeOK
  <2>6. Covers'
    <3>1. \A s \in Thread : wpc'[l][s] \in {"none", "probe"}
      BY <2>2, <2>3 DEF LaneFree
    <3>2. \A k \in Lane : k # l => owed'[k] = owed[k] /\ pending'[k] = pending[k]
      BY <2>4 DEF TypeOK
    <3> QED BY <2>2, <3>1, <3>2 DEF FlowInv, Covers, At
  <2>7. Locked' /\ Ahead'
    BY <2>2 DEF FlowInv, Locked, Busy, Ahead, At
  <2> QED BY <2>5, <2>6, <2>7 DEF FlowInv, Bounded, repository
<1> QED BY <1>1, <1>2, <1>3 DEF Request

\* A thread that gives up leaves nothing to cover.
LEMMA FlowAbandoned ==
  ASSUME TypeOK, FlowInv, NEW l \in Lane, NEW t \in Thread,
         wpc[l][t] \in {"probe", "lock", "commit"}, Abandon(l, t),
         lock' = (IF wpc[l][t] = "commit" THEN None ELSE lock),
         seen' = seen \/ seen' = [seen EXCEPT ![l][t] = 0],
         UNCHANGED <<repository, graph, hook, blind>>
  PROVE  (Locked /\ Bounded /\ Ahead /\ Covers)'
<1>1. \A k \in Lane, s \in Thread : wpc'[k][s] = IF k = l /\ s = t THEN "none" ELSE wpc[k][s]
  BY DEF Abandon, Workless, Goto, TypeOK
<1>2. LaneOf(l, t)
  BY DEF FlowInv, OneThread, LaneFree, LaneOf
<1>3. \A s \in Thread : wpc'[l][s] = "none"
  BY <1>1, <1>2 DEF LaneOf
<1>4. \A k \in Lane : k # l => owed'[k] = owed[k] /\ pending'[k] = pending[k]
  BY DEF Abandon, Workless, TypeOK
<1>5. owed'[l] = 0
  BY DEF Abandon, Workless, TypeOK
<1>6. \A k \in Lane, s \in Thread : k # l => seen'[k][s] = seen[k][s]
  BY DEF TypeOK
<1>7. \A k \in Lane, s \in Thread : seen'[k][s] \in {0, seen[k][s]}
  BY DEF TypeOK
<1>8. repo \in Nat
  BY DEF TypeOK, Change
<1>9. Locked'
  <2>1. \A k \in Busy' : k # l /\ k \in Busy
    BY <1>1, <1>3 DEF Busy
  <2>2. CASE wpc[l][t] = "commit"
    <3>1. lock = l
      BY <2>2 DEF FlowInv, Locked, Busy
    <3> QED BY <2>1, <3>1, RefreshAssumption DEF FlowInv, Locked, Lane
  <2>3. CASE wpc[l][t] # "commit"
    BY <2>1, <2>3 DEF FlowInv, Locked
  <2> QED BY <2>2, <2>3
<1>10. Bounded'
  BY <1>4, <1>5, <1>7, <1>8 DEF FlowInv, Bounded, repository
<1>11. Ahead'
  BY <1>1, <1>3, <1>6 DEF FlowInv, Ahead, At
<1>12. Covers'
  BY <1>1, <1>3, <1>4, <1>6 DEF FlowInv, Covers, At
<1> QED BY <1>9, <1>10, <1>11, <1>12

LEMMA FlowStep ==
  ASSUME TypeOK, FlowInv, [Next]_vars
  PROVE  FlowInv'
<1> USE DEF FlowInv
<1>0. /\ repo \in Nat /\ graph \in Nat /\ blind \in Nat
      /\ \A l \in Lane : owed[l] \in Nat
      /\ \A l \in Lane, t \in Thread : seen[l][t] \in Nat
  BY DEF TypeOK, Change
<1>1. (\A l \in Lane : OneThread(l))'
  BY OneThreadStep
<1> SUFFICES (Locked /\ Bounded /\ Ahead /\ Covers)'
  BY <1>1
<1>2. CASE Edit \/ Commit \/ Pull
  <2>0. ASSUME NEW r, NEW h, NEW d, Becomes(r, h, d)
        PROVE  /\ repo' = r /\ blind' \in {blind, repo'}
               /\ UNCHANGED <<graph, lock, coordinator, workers>>
    BY <2>0 DEF Becomes
  <2>1. /\ repo' \in {repo, repo + 1} /\ blind' \in {blind, repo'}
        /\ UNCHANGED <<graph, lock, coordinator, workers>>
    BY <1>2, <2>0 DEF Edit, Commit, Pull
  <2>2. hook' = "open" => hook = "open"
    BY <1>2 DEF Edit, Commit, Pull
  <2>3. repo' \in Nat /\ repo <= repo'
    BY <1>0, <2>1
  <2>4. (Locked /\ Ahead /\ Covers)'
    BY <2>1, <2>2 DEF Locked, Busy, Ahead, Covers, At, coordinator, workers
  <2>5. Bounded'
    BY <1>0, <2>1, <2>3 DEF Bounded, coordinator, workers
  <2> QED BY <2>4, <2>5
<1>3. CASE HookOpen
  BY <1>3, RefreshAssumption
  DEF HookOpen, Locked, Busy, Bounded, Ahead, Covers, At, coordinator, workers, repository, Lane
<1>4. CASE HookDone
  <2>1. lock = "hook"
    BY <1>4 DEF HookDone, Locked
  <2>2. Busy = {}
    BY <2>1 DEF Locked, Busy, Lane
  <2> QED BY <1>0, <1>4, <2>1, <2>2
          DEF HookDone, Locked, Busy, Bounded, Ahead, Covers, At, coordinator, workers, repository
<1>5. CASE Cool \/ UNCHANGED vars
  BY <1>5 DEF Cool, vars, Locked, Busy, Bounded, Ahead, Covers, At, coordinator, workers, repository
<1>6. ASSUME NEW l \in Lane, NEW t \in Thread,
             Work(l, t) \/ LockTimeout(l, t) \/ IndexFails(l, t)
      PROVE  (Locked /\ Bounded /\ Ahead /\ Covers)'
  <2>0. ASSUME NEW x, Goto(l, t, x)
        PROVE  \A k \in Lane, s \in Thread : wpc'[k][s] = IF k = l /\ s = t THEN x ELSE wpc[k][s]
    BY <2>0 DEF Goto, TypeOK
  <2>1. CASE Probe(l, t)
    <3>1. CASE Abandon(l, t)
      BY <2>1, <3>1, FlowAbandoned DEF Probe, At
    <3>2. CASE graph = repo /\ Goto(l, t, "mark") /\ UNCHANGED coordinator
      <4>1. Covers'
        BY <2>0, <2>1, <3>2 DEF Probe, Covers, Bounded, At, coordinator, repository
      <4> QED BY <2>0, <2>1, <3>2, <4>1 DEF Probe, Locked, Busy, Bounded, Ahead, At, coordinator, repository
    <3>3. CASE Goto(l, t, "lock") /\ UNCHANGED coordinator
      <4>1. Covers'
        BY <2>0, <2>1, <3>3 DEF Probe, Covers, At, coordinator
      <4> QED BY <2>0, <2>1, <3>3, <4>1 DEF Probe, Locked, Busy, Bounded, Ahead, At, coordinator, repository
    <3> QED BY <2>1, <3>1, <3>2, <3>3 DEF Probe
  <2>2. CASE Lock(l, t)
    <3>1. \A k \in Lane, s \in Thread :
            wpc'[k][s] = IF k = l /\ s = t THEN "commit" ELSE wpc[k][s]
      BY <2>0, <2>2 DEF Lock
    <3>2. \A k \in Lane, s \in Thread :
            seen'[k][s] = IF k = l /\ s = t THEN repo ELSE seen[k][s]
      BY <2>2 DEF Lock, TypeOK
    <3>3. lock = None /\ lock' = l
          /\ UNCHANGED <<repository, graph, wm, hook, coordinator, blind>>
      BY <2>2 DEF Lock
    <3>4. Busy = {} /\ hook # "open"
      BY <3>3, RefreshAssumption DEF Locked, Busy, Lane
    <3>5. Locked'
      BY <3>1, <3>3, <3>4 DEF Locked, Busy
    <3>6. Bounded' /\ Ahead'
      BY <1>0, <3>1, <3>2, <3>3 DEF Bounded, Ahead, At, repository, coordinator
    <3>7. Covers'
      BY <3>1, <3>2, <3>3 DEF Covers, Bounded, At, coordinator
    <3> QED BY <3>5, <3>6, <3>7
  <2>3. CASE IndexDone(l, t)
    <3>1. At(l, t, "commit") /\ lock = l /\ graph <= seen[l][t]
          /\ graph' = seen[l][t] /\ lock' = None
          /\ UNCHANGED <<repository, wm, hook, coordinator, blind>>
      BY <2>3 DEF IndexDone, Locked, Busy, Ahead, At
    <3>2. PICK x \in {"mark", "finish"} : Goto(l, t, x)
      BY <2>3 DEF IndexDone
    <3>3. \A k \in Lane, s \in Thread : wpc'[k][s] = IF k = l /\ s = t THEN x ELSE wpc[k][s]
      BY <2>0, <3>2
    <3>4. \A k \in Lane, s \in Thread :
            seen'[k][s] = IF k = l /\ s = t THEN 0 ELSE seen[k][s]
      BY <2>3 DEF IndexDone, TypeOK
    <3>5. \A k \in Lane, s \in Thread : wpc'[k][s] # "commit"
      <4> SUFFICES ASSUME NEW k \in Lane, NEW s \in Thread, wpc'[k][s] = "commit"
                   PROVE  FALSE
        OBVIOUS
      <4>1. wpc[k][s] = "commit" /\ ~(k = l /\ s = t)
        BY <3>2, <3>3
      <4>2. k = l
        BY <3>1, <4>1 DEF Locked, Busy
      <4> QED BY <3>1, <4>1, <4>2 DEF OneThread, LaneFree, LaneOf, At
    <3>6. Locked'
      BY <3>1, <3>5 DEF Locked, Busy, Lane
    <3>7. Bounded'
      BY <1>0, <3>1, <3>4 DEF Bounded, repository, coordinator
    <3>8. Ahead'
      BY <3>5 DEF Ahead, At
    <3>9. Covers'
      <4> SUFFICES ASSUME NEW k \in Lane, NEW s \in Thread, ~pending[k],
                          wpc'[k][s] \in {"mark", "finish"}
                   PROVE  owed[k] <= seen[l][t]
        BY <3>1, <3>5 DEF Covers, At, coordinator
      <4>1. CASE k = l /\ s = t
        BY <3>1, <4>1 DEF Covers
      <4>2. CASE ~(k = l /\ s = t)
        BY <1>0, <3>1, <3>3, <4>2 DEF Covers
      <4> QED BY <4>1, <4>2
    <3> QED BY <3>6, <3>7, <3>8, <3>9
  <2>4. CASE WriteWatermark(l, t)
    <3>1. blind' \in {blind, repo}
          /\ UNCHANGED <<repository, graph, lock, hook, coordinator, seen>>
      BY <2>4 DEF WriteWatermark
    <3>2. Covers'
      BY <2>0, <2>4, <3>1 DEF WriteWatermark, Covers, At, coordinator
    <3> QED BY <1>0, <2>0, <2>4, <3>1, <3>2
            DEF WriteWatermark, Locked, Busy, Bounded, Ahead, At, coordinator, repository
  <2>5. CASE Finish(l, t)
    <3>1. PICK x \in {"probe", "none"} : Goto(l, t, x)
      BY <2>5 DEF Finish
    <3>2. \A k \in Lane, s \in Thread : wpc'[k][s] = IF k = l /\ s = t THEN x ELSE wpc[k][s]
      BY <2>0, <3>1
    <3>3. \A s \in Thread : wpc'[l][s] \in {"probe", "none"}
      BY <2>5, <3>2 DEF OneThread, LaneFree, LaneOf, Finish, At
    <3>4. \A k \in Lane : k # l => owed'[k] = owed[k] /\ pending'[k] = pending[k]
      BY <2>5 DEF Finish, TypeOK
    <3>5. owed'[l] \in {0, owed[l]}
      BY <2>5 DEF Finish, TypeOK
    <3>6. UNCHANGED <<repository, graph, lock, hook, seen, blind>>
      BY <2>5 DEF Finish
    <3>7. Covers'
      BY <3>2, <3>3, <3>4, <3>6 DEF Covers, At
    <3> QED BY <1>0, <3>1, <3>2, <3>4, <3>5, <3>6, <3>7
            DEF Locked, Busy, Bounded, Ahead, At, repository
  <2>6. CASE LockTimeout(l, t)
    BY <2>6, FlowAbandoned DEF LockTimeout, At
  <2>7. CASE IndexFails(l, t)
    BY <2>7, FlowAbandoned DEF IndexFails, At
  <2> QED BY <1>6, <2>1, <2>2, <2>3, <2>4, <2>5, <2>6, <2>7 DEF Work
<1>7. CASE (\E tool \in Tool : OpenStore(tool)) \/ Evaluate \/ RunTool
  <2>1. UNCHANGED <<repository, graph, lock, hook, seen, coordinator, wpc, blind>>
    BY <1>7 DEF OpenStore, Evaluate, RunTool, Handle
  <2> QED BY <2>1 DEF Locked, Busy, Bounded, Ahead, Covers, At, coordinator, repository
<1>8. CASE Schedule \/ ScheduleEmbedding
  <2>1. /\ UNCHANGED <<repository, graph, lock, hook, seen, blind>>
        /\ UNCHANGED <<coordinator, wpc>> \/ \E l \in Lane : Request(l)
    BY <1>8 DEF Schedule, ScheduleEmbedding, Gate, Handle, Lane
  <2> QED BY <2>1, FlowRequested
          DEF Locked, Busy, Bounded, Ahead, Covers, At, coordinator, repository
<1> QED BY <1>2, <1>3, <1>4, <1>5, <1>6, <1>7, <1>8 DEF Next, Hook, Dispatch

LEMMA FlowInvariant == Spec => []FlowInv
<1>1. TypeOK /\ FlowInv /\ [Next]_vars => FlowInv'
  BY FlowStep
<1> QED BY <1>1, FlowInit, RefreshTyping, PTL DEF Spec

LEMMA GraphForward ==
  ASSUME TypeOK, FlowInv, [Next]_vars
  PROVE  graph <= graph'
<1>0. graph \in Nat
  BY DEF TypeOK, Change
<1>1. CASE HookDone
  BY <1>1 DEF HookDone, FlowInv, Bounded
<1>2. ASSUME NEW l \in Lane, NEW t \in Thread, IndexDone(l, t) PROVE graph <= graph'
  BY <1>2 DEF IndexDone, FlowInv, Ahead
<1>3. CASE UNCHANGED graph
  BY <1>0, <1>3
<1>4. CASE Edit \/ Commit \/ Pull \/ HookOpen \/ Cool \/ UNCHANGED vars
  BY <1>3, <1>4 DEF Edit, Commit, Pull, Becomes, HookOpen, Cool, vars
<1>5. ASSUME NEW l \in Lane, NEW t \in Thread,
             Work(l, t) \/ LockTimeout(l, t) \/ IndexFails(l, t), ~IndexDone(l, t)
      PROVE  UNCHANGED graph
  BY <1>5 DEF Work, Probe, Lock, WriteWatermark, Finish, LockTimeout, IndexFails
<1>6. CASE (\E tool \in Tool : OpenStore(tool)) \/ Dispatch
  BY <1>3, <1>6 DEF OpenStore, Dispatch, Evaluate, Schedule, ScheduleEmbedding, Gate,
                    RunTool, Handle
<1> QED BY <1>1, <1>2, <1>3, <1>4, <1>5, <1>6 DEF Next, Hook

\* The graph never goes back to an earlier content.
THEOREM GraphGoesForward == Spec => GraphAdvances
<1>1. TypeOK /\ FlowInv /\ [Next]_vars => [graph <= graph']_vars
  BY GraphForward
<1> QED BY <1>1, FlowInvariant, RefreshTyping, PTL DEF Spec, GraphAdvances

(***************************************************************************)
(* Refinement of WriteLock: who is recorded as the lock's holder is at     *)
(* work with the graph, and the other way round.                           *)
(***************************************************************************)
InUse == lock # None => lock \in Writers

LEMMA WritersHold ==
  ASSUME FlowInv, NEW w \in Writers
  PROVE  lock = w
BY DEF FlowInv, Locked, Busy, Writers, At

\* A step takes the lock and is at work, gives it up, or lets it and those at
\* work be.
LEMMA LockSteps ==
  ASSUME TypeOK, FlowInv, [Next]_vars
  PROVE  \/ UNCHANGED lock /\ Writers \subseteq Writers'
         \/ lock = None /\ lock' \in Writers'
         \/ lock' = None
<1> DEFINE Stays == UNCHANGED lock /\ Writers \subseteq Writers'
<1>1. ASSUME UNCHANGED <<lock, wpc>>, hook = "open" => hook' = "open" PROVE Stays
  BY <1>1 DEF Writers, At
<1>2. ASSUME NEW l \in Lane, NEW t \in Thread, NEW x, Goto(l, t, x), wpc[l][t] # "commit",
             UNCHANGED <<lock, hook>>
      PROVE  Stays
  BY <1>2 DEF Writers, At, Goto, TypeOK
<1>3. CASE Edit \/ Commit \/ Pull
  BY <1>1, <1>3 DEF Edit, Commit, Pull, Becomes, workers
<1>4. CASE HookOpen
  <2>1. CASE hook' = "open" /\ lock' = "hook"
    BY <1>4, <2>1 DEF HookOpen, Writers
  <2>2. CASE hook = "waiting" /\ UNCHANGED lock
    BY <1>1, <1>4, <2>2 DEF HookOpen, workers
  <2> QED BY <1>4, <2>1, <2>2 DEF HookOpen
<1>5. CASE HookDone
  BY <1>5 DEF HookDone
<1>6. CASE Cool \/ UNCHANGED vars
  BY <1>1, <1>6 DEF Cool, vars, workers
<1>7. ASSUME NEW l \in Lane, NEW t \in Thread,
             Probe(l, t) \/ LockTimeout(l, t) \/ WriteWatermark(l, t) \/ Finish(l, t)
      PROVE  Stays
  <2>1. wpc[l][t] # "commit" /\ UNCHANGED <<lock, hook>>
    BY <1>7 DEF Probe, LockTimeout, WriteWatermark, Finish, At
  <2>2. PICK x \in {"none", "probe", "mark", "lock", "finish"} : Goto(l, t, x)
    BY <1>7 DEF Probe, LockTimeout, WriteWatermark, Finish, Abandon, Workless
  <2> QED BY <1>2, <2>1, <2>2
<1>8. ASSUME NEW l \in Lane, NEW t \in Thread, Lock(l, t)
      PROVE  lock = None /\ lock' \in Writers'
  BY <1>8 DEF Lock, Goto, Writers, At, TypeOK
<1>9. ASSUME NEW l \in Lane, NEW t \in Thread, IndexDone(l, t) \/ IndexFails(l, t)
      PROVE  lock' = None
  BY <1>9 DEF IndexDone, IndexFails
<1>10. CASE (\E tool \in Tool : OpenStore(tool)) \/ Evaluate \/ RunTool
  BY <1>1, <1>10 DEF OpenStore, Evaluate, RunTool, Handle
<1>11. CASE Schedule \/ ScheduleEmbedding
  <2>1. UNCHANGED <<lock, hook>>
    BY <1>11 DEF Schedule, ScheduleEmbedding, Gate, Handle
  <2>2. UNCHANGED wpc \/ \E l \in Lane : Request(l)
    BY <1>11 DEF Schedule, ScheduleEmbedding, Lane
  <2>3. UNCHANGED wpc \/ \E l \in Lane, t \in Thread : At(l, t, "none") /\ Goto(l, t, "probe")
    BY <2>2, Requested
  <2> QED BY <1>1, <1>2, <2>1, <2>3 DEF At
<1> QED BY <1>3, <1>4, <1>5, <1>6, <1>7, <1>8, <1>9, <1>10, <1>11 DEF Next, Hook, Dispatch, Work

\* The write lock that the lanes and the hook's process share is used as
\* WriteLock, which is what the lock directory implements (GraphWriteLock).
THEOREM RefreshUsesLock == Spec => GraphLock!Spec
<1>1. Init => InUse /\ GraphLock!Init
  BY DEF Init, InUse, GraphLock!Init, Writers, At
<1>2. TypeOK /\ FlowInv /\ InUse /\ [Next]_vars => InUse'
  BY LockSteps DEF InUse
<1>3. /\ TypeOK /\ FlowInv /\ InUse /\ [Next]_vars
      /\ TypeOK' /\ FlowInv' /\ InUse'
      => [GraphLock!Next]_(GraphLock!vars)
  <2> SUFFICES ASSUME TypeOK, FlowInv, InUse, [Next]_vars, TypeOK', FlowInv', InUse'
               PROVE  [GraphLock!Next]_(GraphLock!vars)
    OBVIOUS
  <2>1. Writers = IF lock = None THEN {} ELSE {lock}
    <3>1. \A w \in Writers : w # None
      BY RefreshAssumption DEF Writers, Lane
    <3> QED BY <3>1, WritersHold DEF InUse
  <2>2. Writers' = IF lock' = None THEN {} ELSE {lock'}
    <3>1. \A w \in Writers' : w # None
      BY RefreshAssumption DEF Writers, Lane
    <3>2. \A w \in Writers' : lock' = w
      BY DEF FlowInv, Locked, Busy, Writers, At
    <3> QED BY <3>1, <3>2 DEF InUse
  <2>3. /\ lock # None => lock \in Lane \cup {"hook"}
        /\ lock' # None => lock' \in Lane \cup {"hook"}
    BY DEF TypeOK
  <2>4. CASE UNCHANGED lock
    BY <2>1, <2>2, <2>4 DEF GraphLock!vars
  <2>5. CASE lock = None /\ lock' # None
    <3>1. GraphLock!Take(lock')
      BY <2>1, <2>2, <2>5 DEF GraphLock!Take
    <3> QED BY <2>3, <2>5, <3>1 DEF GraphLock!Next
  <2>6. CASE lock # None /\ lock' = None
    <3>1. GraphLock!Give(lock)
      BY <2>1, <2>2, <2>6 DEF GraphLock!Give
    <3> QED BY <2>3, <2>6, <3>1 DEF GraphLock!Next
  <2> QED BY <2>4, <2>5, <2>6, LockSteps
<1> QED BY <1>1, <1>2, <1>3, RefreshTyping, FlowInvariant, PTL DEF Spec, GraphLock!Spec

\* A lane that ends without an error has indexed all that was in the repository
\* when it was last asked, at the start or by a coalesced request.
THEOREM RefreshServes == Spec => RequestsServed
<1>1. TypeOK /\ FlowInv /\ [Next]_vars =>
        [\A l \in Lane, t \in Thread :
           At(l, t, "finish") /\ wpc'[l][t] = "none" => owed[l] <= graph]_vars
  <2> SUFFICES ASSUME TypeOK, FlowInv, Next, NEW l \in Lane, NEW t \in Thread,
                      At(l, t, "finish"), wpc'[l][t] = "none"
               PROVE  owed[l] <= graph
    OBVIOUS
  <2>1. ~pending[l]
    <3>1. ASSUME UNCHANGED wpc PROVE FALSE
      BY <3>1 DEF At
    <3>2. ASSUME NEW k \in Lane, Request(k) PROVE FALSE
      <4>1. PICK s \in Thread : At(k, s, "none") /\ Goto(k, s, "probe")
        BY <3>1, <3>2, Requested
      <4>2. wpc'[l][t] \in {"probe", "finish"}
        BY <4>1 DEF Goto, At, TypeOK
      <4> QED BY <4>2
    <3>3. ~(Edit \/ Commit \/ Pull \/ Hook \/ Cool \/ \E tool \in Tool : OpenStore(tool))
      BY <3>1 DEF Edit, Commit, Pull, Becomes, Hook, HookOpen, HookDone, Cool, OpenStore, workers
    <3>4. ~Dispatch
      BY <3>1, <3>2
      DEF Dispatch, Evaluate, Schedule, ScheduleEmbedding, RunTool, Lane
    <3>5. PICK k \in Lane, s \in Thread : Work(k, s) \/ LockTimeout(k, s) \/ IndexFails(k, s)
      BY <3>3, <3>4 DEF Next
    <3>6. k = l /\ s = t
      <4>1. \E x : Goto(k, s, x)
        BY <3>5 DEF Work, Probe, Lock, IndexDone, WriteWatermark, Finish, LockTimeout,
                    IndexFails, Abandon, Workless
      <4> QED BY <4>1 DEF Goto, At, TypeOK
    <3>7. Finish(l, t)
      BY <3>5, <3>6 DEF Work, Probe, Lock, IndexDone, WriteWatermark, LockTimeout, IndexFails, At
    <3> QED BY <3>7 DEF Finish, Goto, TypeOK
  <2> QED BY <2>1 DEF FlowInv, Covers, At
<1> QED BY <1>1, FlowInvariant, RefreshTyping, PTL DEF Spec, RequestsServed

-----------------------------------------------------------------------------
(***************************************************************************)
(* Why a gated call may trust the oracle.  When the signals become those   *)
(* of a watermark, the content has changed in the same step, since HEAD    *)
(* does not return: the change is hidden.  So a watermark that equals the  *)
(* signals was written with all of the repository in the graph, which goes *)
(* forward, or hides the last change.                                      *)
(***************************************************************************)
\* Signals whose HEAD is not one to come.
Past(w) == \A h \in 0..MaxHead, d \in BOOLEAN : w = <<h, d>> => h <= head

\* What the signals w say of the graph, with b the last change that they hide.
Vouches(w, b) == Past(w) /\ (w = Current => graph = repo \/ b = repo)

GateInv ==
  /\ Vouches(wm, blind)
  /\ Vouches(call.wm, call.blind)
  /\ dpc \in {"schedule", "embed", "run"} /\ call.status = "fresh" => call.due <= graph
  /\ dpc = "run" /\ call.tool = "gate" => call.status = "fresh"

LEMMA NoneVouches ==
  ASSUME TypeOK, NEW b
  PROVE  Vouches(None, b)
<1>1. \A h \in 0..MaxHead, d \in BOOLEAN : None # <<h, d>>
  BY RefreshAssumption
<1> QED BY <1>1 DEF Vouches, Past, Current, TypeOK

LEMMA GateInit == Init => GateInv
<1> SUFFICES ASSUME Init PROVE GateInv
  OBVIOUS
<1>1. wm = None /\ call.wm = None /\ dpc = "idle"
  BY DEF Init, NoCall
<1> QED BY <1>1, InitTyped, NoneVouches DEF GateInv

\* Signals that vouched go on to, as long as the repository is the same.
LEMMA VouchesOn ==
  ASSUME TypeOK, FlowInv, FlowInv', TypeOK', graph <= graph', NEW w, NEW b,
         Vouches(w, b), UNCHANGED repository
  PROVE  Vouches(w, b)'
<1>1. graph \in Nat /\ graph' \in Nat /\ repo \in Nat /\ graph' <= repo
  BY DEF TypeOK, Change, FlowInv, Bounded, repository
<1> QED BY <1>1 DEF Vouches, Past, Current, repository

\* The same for the signals after a change.
LEMMA VouchesAfter ==
  ASSUME TypeOK, TypeOK', NEW w, NEW b, NEW c, Vouches(w, b), UNCHANGED graph,
         head' = head \/ head' = head + 1,
         repo' # repo \/ head' # head,
         c = IF repo' # repo /\ w = Current' THEN repo' ELSE b
  PROVE  Past(w)' /\ (w = Current' => c = repo')
<1>1. head \in 0..MaxHead /\ head' \in 0..MaxHead /\ dirty' \in BOOLEAN
  BY DEF TypeOK
<1>2. Past(w)'
  BY <1>1 DEF Vouches, Past
<1>3. ASSUME w = Current' PROVE repo' # repo
  <2>1. head' <= head
    BY <1>1, <1>3 DEF Vouches, Past, Current
  <2> QED BY <1>1, <2>1
<1> QED BY <1>2, <1>3

\* A step that leaves the repository, the watermark and the call alone.
LEMMA GateKept ==
  ASSUME TypeOK, TypeOK', FlowInv, FlowInv', GateInv, graph <= graph',
         UNCHANGED <<repository, wm, dpc, call, blind>>
  PROVE  GateInv'
<1>1. Vouches(wm, blind)' /\ Vouches(call.wm, call.blind)'
  <2>1. PICK w, b, x, c : w = wm /\ b = blind /\ x = call.wm /\ c = call.blind
    OBVIOUS
  <2>2. Vouches(w, b)' /\ Vouches(x, c)'
    BY <2>1, VouchesOn DEF GateInv
  <2> QED BY <2>1, <2>2 DEF Vouches, Past, Current
<1>2. graph \in Nat /\ graph' \in Nat /\ call.due \in Nat
  BY DEF TypeOK, Change
<1> QED BY <1>1, <1>2 DEF GateInv

LEMMA GateStep ==
  ASSUME TypeOK, TypeOK', FlowInv, FlowInv', GateInv, [Next]_vars
  PROVE  GateInv'
<1>0. graph <= graph'
  BY GraphForward
<1>1. CASE UNCHANGED vars
  BY <1>0, <1>1, GateKept DEF vars
<1>2. CASE Edit \/ Commit \/ Pull
  <2>1. /\ repo \in Nat /\ head \in Nat
    BY DEF TypeOK, Change
  <2>2. ASSUME NEW r, NEW h, NEW d, Becomes(r, h, d), r # repo \/ h # head,
               h = head \/ h = head + 1
        PROVE  GateInv'
    <3>1. /\ repo' = r /\ head' = h /\ Current' = <<h, d>>
          /\ blind' = IF repo' # repo /\ wm = Current' THEN repo' ELSE blind
          /\ call' = IF repo' # repo /\ call.wm = Current'
                     THEN [call EXCEPT !.blind = repo'] ELSE call
          /\ UNCHANGED <<graph, wm, dpc>>
      BY <2>2 DEF Becomes, Current
    <3>2. /\ call'.wm = call.wm /\ call'.tool = call.tool
          /\ call'.status = call.status /\ call'.due = call.due
          /\ call'.blind = IF repo' # repo /\ call.wm = Current' THEN repo' ELSE call.blind
      BY <3>1 DEF TypeOK
    <3>3. PICK w, b, c : w = wm /\ b = blind /\ c = blind'
      OBVIOUS
    <3>4. Past(w)' /\ (w = Current' => c = repo')
      BY <2>2, <3>1, <3>3, VouchesAfter DEF GateInv
    <3>5. PICK x, y, z : x = call.wm /\ y = call.blind /\ z = call'.blind
      OBVIOUS
    <3>6. Past(x)' /\ (x = Current' => z = repo')
      BY <2>2, <3>1, <3>2, <3>5, VouchesAfter DEF GateInv
    <3> QED BY <3>1, <3>2, <3>3, <3>4, <3>5, <3>6 DEF GateInv, Vouches, Past
  <2> QED BY <1>2, <2>1, <2>2 DEF Edit, Commit, Pull
<1>3. CASE Hook \/ Cool
  BY <1>0, <1>3, GateKept DEF Hook, HookOpen, HookDone, Cool
<1>4. ASSUME NEW l \in Lane, NEW t \in Thread,
             Work(l, t) \/ LockTimeout(l, t) \/ IndexFails(l, t)
      PROVE  GateInv'
  <2>1. CASE WriteWatermark(l, t)
    <3>1. PICK s : /\ Read(s)
                   /\ wm' = IF s = None THEN wm ELSE s
                   /\ blind' = IF s = Current /\ graph < repo THEN repo ELSE blind
      BY <2>1 DEF WriteWatermark
    <3>2. UNCHANGED <<repository, graph, dpc, call>>
      BY <2>1 DEF WriteWatermark
    <3>3. graph \in Nat /\ repo \in Nat /\ graph <= repo
      BY DEF TypeOK, Change, FlowInv, Bounded
    <3>4. head \in 0..MaxHead /\ dirty \in BOOLEAN
      BY DEF TypeOK
    <3>5. Vouches(wm, blind)'
      <4>1. CASE s = Current
        <5>1. s # None
          BY <3>4, <4>1, RefreshAssumption DEF Current
        <5> QED BY <3>1, <3>2, <3>3, <3>4, <4>1, <5>1 DEF Vouches, Past, Current, repository
      <4>2. CASE s = None
        <5>1. None # Current
          BY <3>4, RefreshAssumption DEF Current
        <5> QED BY <3>1, <3>2, <4>2, <5>1 DEF GateInv, Vouches, Past, Current, repository
      <4>3. CASE s = <<head, FALSE>> /\ s # Current /\ s # None
        <5>1. wm' = <<head, FALSE>> /\ wm' # Current'
          BY <3>1, <3>2, <4>3 DEF Current, repository
        <5>2. head' = head /\ head <= head
          BY <3>2, <3>4 DEF repository
        <5>3. Past(wm)'
          BY <5>1, <5>2 DEF Past
        <5> QED BY <5>1, <5>3 DEF Vouches
      <4> QED BY <3>1, <4>1, <4>2, <4>3 DEF Read
    <3> QED BY <3>2, <3>5 DEF GateInv, Vouches, Past, Current, repository
  <2>2. CASE ~WriteWatermark(l, t)
    <3>1. UNCHANGED <<repository, wm, dpc, call, blind>>
      BY <1>4, <2>2 DEF Work, Probe, Lock, IndexDone, Finish, LockTimeout, IndexFails
    <3> QED BY <1>0, <3>1, GateKept
  <2> QED BY <2>1, <2>2
<1>5. ASSUME UNCHANGED <<repository, graph, wm, blind>>
      PROVE  Vouches(wm, blind)'
  BY <1>5 DEF GateInv, Vouches, Past, Current, repository
<1>6. ASSUME call'.wm = None
      PROVE  Vouches(call.wm, call.blind)'
  <2>1. \A h \in 0..MaxHead, d \in BOOLEAN : None # <<h, d>>
    BY RefreshAssumption
  <2>2. head' \in 0..MaxHead /\ dirty' \in BOOLEAN
    BY DEF TypeOK
  <2> QED BY <1>6, <2>1, <2>2 DEF Vouches, Past, Current
<1>7. ASSUME NEW tool \in Tool, OpenStore(tool) PROVE GateInv'
  <2>1. /\ UNCHANGED <<repository, graph, wm, blind>> /\ dpc' = "signals"
        /\ call'.wm = wm /\ call'.blind = blind
    BY <1>7 DEF OpenStore, Handle, NoCall
  <2> QED BY <1>5, <2>1 DEF GateInv, Vouches, Past, Current, repository
<1>8. CASE Evaluate
  <2>1. PICK s :
          /\ UNCHANGED <<repository, graph, wm, blind>> /\ dpc' = "schedule"
          /\ call'.wm = None
          /\ call'.due = IF MustSee(s) THEN repo ELSE 0
          /\ call'.status = "fresh" => s = call.wm
    BY <1>8 DEF Evaluate, Handle, TypeOK
  <2>2. graph \in Nat /\ repo \in Nat /\ call.blind \in Nat
    BY DEF TypeOK, Change
  <2>3. call'.status = "fresh" => call'.due <= graph'
    BY <2>1, <2>2 DEF MustSee, GateInv, Vouches
  <2> QED BY <1>5, <1>6, <2>1, <2>3 DEF GateInv
<1>9. CASE Schedule \/ ScheduleEmbedding \/ RunTool
  <2>1. /\ UNCHANGED <<repository, graph, wm, blind>>
        /\ call' \in {call, NoCall}
        /\ call' = call => dpc \in {"schedule", "embed", "run"}
        /\ dpc' = "run" /\ call'.tool = "gate" => call'.status = "fresh"
    BY <1>9 DEF Schedule, ScheduleEmbedding, Gate, RunTool, Handle, NoCall
  <2>2. CASE call' = call
    BY <1>5, <2>1, <2>2 DEF GateInv, Vouches, Past, Current, repository
  <2>3. CASE call' = NoCall
    <3>1. call'.wm = None /\ call'.status # "fresh"
      BY <2>3 DEF NoCall
    <3> QED BY <1>5, <1>6, <2>1, <3>1 DEF GateInv
  <2> QED BY <2>1, <2>2, <2>3
<1> QED BY <1>1, <1>2, <1>3, <1>4, <1>7, <1>8, <1>9 DEF Next, Dispatch

\* A gated call that is let through sees every change made before its oracle
\* read the signals without a failure, but for those that its watermark hides.
THEOREM RefreshGate == Spec => []GateSeesVisible
<1>1. TypeOK /\ TypeOK' /\ FlowInv /\ FlowInv' /\ GateInv /\ [Next]_vars => GateInv'
  BY GateStep
<1>2. GateInv => GateSeesVisible
  BY DEF GateInv, GateSeesVisible
<1> QED BY <1>1, <1>2, GateInit, FlowInvariant, RefreshTyping, PTL DEF Spec
=============================================================================
