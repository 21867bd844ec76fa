------------------------ MODULE GraphWriteLockProofs ------------------------
(***************************************************************************)
(* What holds of the graph write lock for any set of processes.            *)
(***************************************************************************)
EXTENDS GraphWriteLock, TLAPS

\* Every variable keeps its type: owner.json is only probed for a pid.
THEOREM LockTyping == Spec => []TypeOK
<1> USE LockAssumption
<1>1. Init => TypeOK
  BY DEF Init, TypeOK, PC, Calls, Returns
<1>2. TypeOK /\ [Next]_vars => TypeOK'
  <2> SUFFICES ASSUME TypeOK, [Next]_vars PROVE TypeOK'
    OBVIOUS
  <2> USE DEF TypeOK, PC, Dead, Calls, Returns, At, Goto, BeginRelease, disk
  <2>1. ASSUME NEW p \in Proc, NEW c \in Calls, Call(p, c) PROVE TypeOK'
    BY <2>1 DEF Call
  <2>2. ASSUME NEW p \in Proc, ReapExists(p) PROVE TypeOK'
    BY <2>2 DEF ReapExists
  <2>3. ASSUME NEW p \in Proc, ReapRead(p) PROVE TypeOK'
    BY <2>3 DEF ReapRead
  <2>4. ASSUME NEW p \in Proc, ReapProbe(p) PROVE TypeOK'
    BY <2>4 DEF ReapProbe
  <2>5. ASSUME NEW p \in Proc, ReapStat(p) PROVE TypeOK'
    BY <2>5 DEF ReapStat
  <2>6. ASSUME NEW p \in Proc, ReleaseCheck(p) PROVE TypeOK'
    BY <2>6 DEF ReleaseCheck
  <2>7. ASSUME NEW p \in Proc, ReleaseUnlink(p) PROVE TypeOK'
    BY <2>7 DEF ReleaseUnlink, ReturnFromRelease
  <2>8. ASSUME NEW p \in Proc, ReleaseRmdir(p) PROVE TypeOK'
    BY <2>8 DEF ReleaseRmdir, ReturnFromRelease
  <2>9. ASSUME NEW p \in Proc, Mkdir(p) PROVE TypeOK'
    BY <2>9 DEF Mkdir
  <2>10. ASSUME NEW p \in Proc, Answer(p) \/ Poll(p) \/ Timeout(p) PROVE TypeOK'
    BY <2>10 DEF Answer, Poll, Timeout
  <2>11. ASSUME NEW p \in Proc, WriteOwner(p) \/ WriteOwnerFails(p) PROVE TypeOK'
    BY <2>11 DEF WriteOwner, WriteOwnerFails
  <2>12. ASSUME NEW p \in Proc, Leave(p) \/ Die(p) PROVE TypeOK'
    BY <2>12 DEF Leave, Die
  <2>13. ASSUME Expire PROVE TypeOK'
    BY <2>13 DEF Expire
  <2>14. CASE UNCHANGED vars
    BY <2>14 DEF vars
  <2>15. QED
    BY <2>1, <2>2, <2>3, <2>4, <2>5, <2>6, <2>7, <2>8, <2>9, <2>10, <2>11,
       <2>12, <2>13, <2>14 DEF Next, Step
<1>3. QED
  BY <1>1, <1>2, PTL DEF Spec
-----------------------------------------------------------------------------
(***************************************************************************)
(* No residue.  As long as a lock directory exists, some process is on its *)
(* way to remove it: it is about to record itself, holds the lock, or is   *)
(* at a step of a release that can still succeed.                          *)
(***************************************************************************)
WillRemove(p) ==
  \/ pc[p] \in {"note", "hold", "relCheck", "crashed"}
  \/ pc[p] = "unlink" /\ owner # None
  \/ pc[p] = "rmdir" /\ owner = None

SomeoneCleans == dir # None => \E p \in Proc : WillRemove(p)

\* A step that moves only p, that finds p not responsible and leaves the disk
\* alone keeps whoever was responsible.
LEMMA BystanderStep ==
  ASSUME NEW p \in Proc, TypeOK, SomeoneCleans,
         ~WillRemove(p), NEW label, Goto(p, label), UNCHANGED disk
  PROVE  SomeoneCleans'
BY DEF SomeoneCleans, WillRemove, Goto, TypeOK, disk

\* The same for a step after which p itself is responsible.
LEMMA TakesOver ==
  ASSUME NEW p \in Proc, TypeOK, NEW label, Goto(p, label),
         label \in {"note", "hold", "relCheck", "crashed"}
  PROVE  SomeoneCleans'
BY DEF SomeoneCleans, WillRemove, Goto, TypeOK

\* When every call has returned and nobody crashed inside one, no lock
\* directory is left, for any set of processes and under every fault.
THEOREM NoResidue == Spec => []QuietClean
<1> USE LockAssumption
<1>1. Init => SomeoneCleans
  BY DEF Init, SomeoneCleans
<1>2. TypeOK /\ SomeoneCleans /\ [Next]_vars => SomeoneCleans'
  <2> SUFFICES ASSUME TypeOK, SomeoneCleans, [Next]_vars PROVE SomeoneCleans'
    OBVIOUS
  <2>1. ASSUME NEW p \in Proc, NEW c \in Calls, Call(p, c) PROVE SomeoneCleans'
    BY <2>1, BystanderStep DEF Call, At, WillRemove
  <2>2. ASSUME NEW p \in Proc, ReapExists(p) PROVE SomeoneCleans'
    BY <2>2, BystanderStep DEF ReapExists, At, WillRemove
  <2>3. ASSUME NEW p \in Proc, ReapRead(p) PROVE SomeoneCleans'
    BY <2>3, BystanderStep DEF ReapRead, At, WillRemove
  <2>4. ASSUME NEW p \in Proc, ReapProbe(p) PROVE SomeoneCleans'
    BY <2>4, BystanderStep, TakesOver DEF ReapProbe, BeginRelease, At, WillRemove
  <2>5. ASSUME NEW p \in Proc, ReapStat(p) PROVE SomeoneCleans'
    BY <2>5, BystanderStep, TakesOver DEF ReapStat, BeginRelease, At, WillRemove
  <2>6. ASSUME NEW p \in Proc, ReleaseCheck(p) PROVE SomeoneCleans'
    BY <2>6 DEF ReleaseCheck, SomeoneCleans, WillRemove, At, Goto, disk, TypeOK
  <2>7. ASSUME NEW p \in Proc, ReleaseUnlink(p) PROVE SomeoneCleans'
    <3>1. CASE owner # None
      BY <2>7, <3>1 DEF ReleaseUnlink, SomeoneCleans, WillRemove, Goto, TypeOK
    <3>2. CASE owner = None
      <4>1. ~WillRemove(p) /\ UNCHANGED disk /\ ReturnFromRelease(p)
        BY <2>7, <3>2 DEF ReleaseUnlink, WillRemove, At
      <4>2. QED
        BY <4>1, BystanderStep DEF ReturnFromRelease, BeginRelease, TypeOK, Returns
    <3>3. QED
      BY <3>1, <3>2
  <2>8. ASSUME NEW p \in Proc, ReleaseRmdir(p) PROVE SomeoneCleans'
    <3>1. CASE dir # None /\ owner = None
      BY <2>8, <3>1 DEF ReleaseRmdir, SomeoneCleans
    <3>2. CASE dir = None
      BY <2>8, <3>2 DEF ReleaseRmdir, SomeoneCleans, disk
    <3>3. CASE owner # None
      <4>1. ~WillRemove(p) /\ UNCHANGED disk /\ ReturnFromRelease(p)
        BY <2>8, <3>3 DEF ReleaseRmdir, WillRemove, At
      <4>2. QED
        BY <4>1, BystanderStep DEF ReturnFromRelease, BeginRelease, TypeOK, Returns
    <3>4. QED
      BY <3>1, <3>2, <3>3
  <2>9. ASSUME NEW p \in Proc, Mkdir(p) PROVE SomeoneCleans'
    BY <2>9, TakesOver DEF Mkdir
  <2>10. ASSUME NEW p \in Proc, Answer(p) \/ Poll(p) \/ Timeout(p)
         PROVE SomeoneCleans'
    BY <2>10, BystanderStep DEF Answer, Poll, Timeout, Blocked, At, WillRemove
  <2>11. ASSUME NEW p \in Proc, WriteOwner(p) \/ WriteOwnerFails(p) \/ Leave(p)
         PROVE SomeoneCleans'
    BY <2>11, TakesOver DEF WriteOwner, WriteOwnerFails, Leave, BeginRelease
  <2>12. ASSUME NEW p \in Proc, Die(p) PROVE SomeoneCleans'
    BY <2>12, BystanderStep, TakesOver DEF Die, At, WillRemove
  <2>13. CASE Expire
    BY <2>13 DEF Expire, SomeoneCleans, WillRemove
  <2>14. CASE UNCHANGED vars
    BY <2>14 DEF vars, SomeoneCleans, WillRemove
  <2>15. QED
    BY <2>1, <2>2, <2>3, <2>4, <2>5, <2>6, <2>7, <2>8, <2>9, <2>10, <2>11,
       <2>12, <2>13, <2>14 DEF Next, Step
<1>3. SomeoneCleans => QuietClean
  BY DEF SomeoneCleans, WillRemove, QuietClean
<1>4. QED
  BY <1>1, <1>2, <1>3, LockTyping, PTL DEF Spec
-----------------------------------------------------------------------------
(***************************************************************************)
(* Mutual exclusion among long-lived servers.                              *)
(***************************************************************************)
Releasing(p) == pc[p] \in {"relCheck", "unlink", "rmdir"}
Inside(p) == pc[p] \in {"note", "hold"} \/ Releasing(p)

\* The process inside graph_write_lock is the maker of the directory, nobody
\* else is at a step that removes anything, and owner.json follows it.
LockInv ==
  /\ ~old
  /\ dir = None => owner = None
  /\ \A p \in Proc :
       /\ pc[p] \notin Dead
       /\ pc[p] = "probe" => seen[p] \in Proc
       /\ Inside(p) <=> dir = p
       /\ Releasing(p) => ret[p] = "exit"
       /\ pc[p] \in {"hold", "relCheck", "unlink"} => owner = p
       /\ pc[p] \in {"note", "rmdir"} => owner = None

\* A step of p that leaves the disk alone and moves p between two places
\* outside the lock keeps LockInv.
LEMMA OutsideStep ==
  ASSUME NEW p \in Proc, TypeOK, LockInv, NEW label, Goto(p, label),
         ~Inside(p), UNCHANGED <<disk, ret>>,
         label \in {"idle", "reap", "read", "stat", "after"},
         \A q \in Proc \ {p} : seen'[q] = seen[q]
  PROVE  LockInv'
BY DEF LockInv, Inside, Releasing, Goto, TypeOK, disk, Dead

LEMMA LockInvStep ==
  ASSUME Servers, TypeOK, LockInv, [Next]_vars
  PROVE  LockInv'
<1> USE LockAssumption DEF At, Servers
<1>1. ASSUME NEW p \in Proc, NEW c \in Calls, Call(p, c) PROVE LockInv'
  BY <1>1, OutsideStep DEF Call, Inside, Releasing
<1>2. ASSUME NEW p \in Proc, ReapExists(p) PROVE LockInv'
  BY <1>2, OutsideStep DEF ReapExists, Inside, Releasing
<1>3. ASSUME NEW p \in Proc, ReapRead(p) PROVE LockInv'
  BY <1>3 DEF ReapRead, Inside, Releasing, LockInv, Goto, TypeOK, disk, Dead
<1>4. ASSUME NEW p \in Proc, ReapProbe(p) PROVE LockInv'
  <2>1. Alive(seen[p])
    BY <1>4 DEF ReapProbe, LockInv, Alive
  <2>2. Goto(p, "stat") /\ UNCHANGED <<disk, ret>>
    BY <1>4, <2>1 DEF ReapProbe
  <2>3. \A q \in Proc \ {p} : seen'[q] = seen[q]
    BY <1>4 DEF ReapProbe, TypeOK
  <2>4. ~Inside(p)
    BY <1>4 DEF ReapProbe, Inside, Releasing
  <2>5. QED
    BY <2>2, <2>3, <2>4, OutsideStep
<1>5. ASSUME NEW p \in Proc, ReapStat(p) PROVE LockInv'
  <2>1. ~old
    BY DEF LockInv
  <2>2. QED
    BY <1>5, <2>1, OutsideStep DEF ReapStat, Inside, Releasing
<1>6. ASSUME NEW p \in Proc, ReleaseCheck(p) PROVE LockInv'
  BY <1>6 DEF ReleaseCheck, Inside, Releasing, LockInv, Goto, TypeOK, disk, Dead
<1>7. ASSUME NEW p \in Proc, ReleaseUnlink(p) PROVE LockInv'
  <2>1. owner = p /\ p # None
    BY <1>7 DEF ReleaseUnlink, LockInv
  <2>2. QED
    BY <1>7, <2>1 DEF ReleaseUnlink, Inside, Releasing, LockInv, Goto, TypeOK, Dead
<1>8. ASSUME NEW p \in Proc, ReleaseRmdir(p) PROVE LockInv'
  <2>1. dir = p /\ owner = None /\ ret[p] = "exit" /\ p # None
    BY <1>8 DEF ReleaseRmdir, LockInv, Inside, Releasing
  <2>2. dir' = None /\ owner' = None /\ old' = FALSE /\ pc' = [pc EXCEPT ![p] = "idle"]
        /\ UNCHANGED <<seen, ret>>
    BY <1>8, <2>1 DEF ReleaseRmdir, ReturnFromRelease, Goto
  <2>3. QED
    BY <2>1, <2>2 DEF Inside, Releasing, LockInv, TypeOK, Dead
<1>9. ASSUME NEW p \in Proc, Mkdir(p) PROVE LockInv'
  BY <1>9 DEF Mkdir, Inside, Releasing, LockInv, Goto, TypeOK, Dead
<1>10. ASSUME NEW p \in Proc, Answer(p) \/ Poll(p) \/ Timeout(p) PROVE LockInv'
  BY <1>10, OutsideStep DEF Answer, Poll, Timeout, Blocked, Inside, Releasing
<1>11. ASSUME NEW p \in Proc, WriteOwner(p) PROVE LockInv'
  BY <1>11 DEF WriteOwner, Inside, Releasing, LockInv, Goto, TypeOK, Dead
<1>12. ASSUME NEW p \in Proc, WriteOwnerFails(p) PROVE LockInv'
  BY <1>12 DEF WriteOwnerFails, LockInv, Inside
<1>13. ASSUME NEW p \in Proc, Leave(p) PROVE LockInv'
  BY <1>13 DEF Leave, BeginRelease, Inside, Releasing, LockInv, Goto, TypeOK, Dead, disk
<1>14. ASSUME NEW p \in Proc, Die(p) PROVE LockInv'
  BY <1>14 DEF Die
<1>15. CASE Expire
  BY <1>15 DEF Expire
<1>16. CASE UNCHANGED vars
  BY <1>16 DEF vars, LockInv, Inside, Releasing
<1>17. QED
  BY <1>1, <1>2, <1>3, <1>4, <1>5, <1>6, <1>7, <1>8, <1>9, <1>10, <1>11,
     <1>12, <1>13, <1>14, <1>15, <1>16 DEF Next, Step

\* A behaviour keeps its fault plan.
LEMMA PlanIsRigid == [Next]_vars => UNCHANGED faults
BY DEF Next, Step, Call, ReapExists, ReapRead, ReapProbe, ReapStat, ReleaseCheck,
       ReleaseUnlink, ReleaseRmdir, Mkdir, Answer, Poll, Timeout, WriteOwner,
       WriteOwnerFails, Leave, Die, Expire, vars

LEMMA LockInvariant == Spec => [](Servers => LockInv)
<1> USE LockAssumption
<1> DEFINE Inv == Servers => LockInv
<1>1. Init => Inv
  BY DEF Init, LockInv, Inside, Releasing, Dead
<1>2. TypeOK /\ Inv /\ [Next]_vars => Inv'
  BY LockInvStep, PlanIsRigid DEF Servers
<1> HIDE DEF Inv
<1>3. Spec => []Inv
  BY <1>1, <1>2, LockTyping, PTL DEF Spec
<1>4. QED
  BY <1>3 DEF Inv

\* Among long-lived servers at most one process is inside graph_write_lock.
THEOREM LockExclusion == Spec => []ServersExclude
<1>1. (Servers => LockInv) => ServersExclude
  BY DEF LockInv, ServersExclude, MutualExclusion, Holding, Inside
<1>2. QED
  BY <1>1, LockInvariant, PTL

\* Among long-lived servers the directory and owner.json on disk are those of
\* the holder.
THEOREM LockOnRecord == Spec => []HolderOnRecord
<1>1. (Servers => LockInv) => HolderOnRecord
  BY DEF LockInv, HolderOnRecord, Holding, Inside
<1>2. QED
  BY <1>1, LockInvariant, PTL
-----------------------------------------------------------------------------
(***************************************************************************)
(* Refinement of WriteLock.  By LockInv the process between taking and     *)
(* giving up is the maker of the directory, so that only the directory's   *)
(* coming and going has to be matched.                                     *)
(***************************************************************************)
LEMMA OwningIsMaking ==
  ASSUME LockInv, NEW p \in Proc
  PROVE  Owning(p) <=> dir = p
BY DEF LockInv, Inside, Releasing, Owning

\* The directory is made only where there is none, and replaced by no other.
LEMMA DirSteps ==
  ASSUME TypeOK, [Next]_vars
  PROVE  dir' = dir \/ dir = None \/ dir' = None
<1>1. ASSUME NEW p \in Proc, Step(p) \/ Timeout(p) \/ Die(p)
      PROVE dir' = dir \/ dir = None \/ dir' = None
  BY <1>1 DEF Step, ReapExists, ReapRead, ReapProbe, ReapStat, ReleaseCheck, ReleaseUnlink,
              ReleaseRmdir, Mkdir, Answer, Poll, WriteOwner, WriteOwnerFails, Leave,
              Timeout, Die, disk
<1>2. ASSUME NEW p \in Proc, NEW c \in Calls, Call(p, c) PROVE dir' = dir
  BY <1>2 DEF Call, disk
<1>3. QED
  BY <1>1, <1>2 DEF Next, Expire, vars

\* Among long-lived servers every behaviour of the file system calls is one of
\* the abstract lock.
THEOREM LockRefines == Spec => ImplementsLock
<1> USE LockAssumption
<1>1. Init => Lock!Init
  BY DEF Init, Lock!Init, Owning
<1>2. TypeOK /\ TypeOK' /\ (Servers => LockInv) /\ (Servers => LockInv)' /\ [Next]_vars
        => [Lock!Next]_Lock!vars
  <2> SUFFICES ASSUME TypeOK, TypeOK', Servers => LockInv, (Servers => LockInv)', [Next]_vars
               PROVE  [Lock!Next]_Lock!vars
    OBVIOUS
  <2>1. Servers' <=> Servers
    BY PlanIsRigid DEF Servers
  <2>2. CASE ~Servers
    BY <2>1, <2>2 DEF Lock!vars
  <2>3. CASE Servers
    <3> DEFINE in == {p \in Proc : Servers /\ Owning(p)}
    <3>1. in = {p \in Proc : dir = p} /\ in' = {p \in Proc : dir' = p}
      <4>1. \A p \in Proc : Owning(p) <=> dir = p
        BY <2>3, OwningIsMaking
      <4>2. LockInv'
        BY <2>1, <2>3
      <4>3. \A p \in Proc : Owning(p)' <=> dir' = p
        BY <4>2 DEF LockInv, Inside, Releasing, Owning
      <4>4. QED
        BY <2>1, <2>3, <4>1, <4>3
    <3>2. dir \in Proc \cup {None} /\ dir' \in Proc \cup {None}
      BY DEF TypeOK
    <3>3. CASE dir' = dir
      BY <2>1, <2>3, <3>1, <3>3 DEF Lock!vars
    <3>4. CASE dir = None /\ dir' # None
      <4>1. in = {} /\ in' = {dir'} /\ dir' \in Proc
        BY <3>1, <3>2, <3>4
      <4>2. Lock!Take(dir')
        BY <2>1, <2>3, <3>4, <4>1 DEF Lock!Take
      <4>3. QED
        BY <4>1, <4>2 DEF Lock!Next
    <3>5. CASE dir # None /\ dir' = None
      <4>1. in = {dir} /\ in' = {} /\ dir \in Proc
        BY <3>1, <3>2, <3>5
      <4>2. Lock!Give(dir)
        BY <2>1, <2>3, <3>5, <4>1 DEF Lock!Give
      <4>3. QED
        BY <4>1, <4>2 DEF Lock!Next
    <3>6. QED
      BY DirSteps, <3>3, <3>4, <3>5
  <2>4. QED
    BY <2>2, <2>3
<1>3. QED
  BY <1>1, <1>2, LockTyping, LockInvariant, PTL DEF Spec, ImplementsLock, Lock!Spec
=============================================================================
