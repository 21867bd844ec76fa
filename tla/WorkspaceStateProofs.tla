------------------------ MODULE WorkspaceStateProofs ------------------------
(***************************************************************************)
(* What holds of the databases of workspaces and of their state            *)
(* directories, for any roots, ids and versions.                           *)
(***************************************************************************)
EXTENDS WorkspaceState, TLAPS

(***************************************************************************)
(* Typing.                                                                 *)
(***************************************************************************)
Typed == TypeOK /\ (pc # "idle" => job \in Job)

LEMMA ResolvedPlace ==
  ASSUME TypeOK, NEW r \in Root
  PROVE  Resolved(r) \in Place /\ Resolved(r) \in {r, ident[r]}
BY DEF TypeOK, Resolved, Place

LEMMA NotedTyped ==
  ASSUME TypeOK, NEW p \in Place, NEW r \in Root
  PROVE  Noted(p, r) \in [Id -> Root \cup {None}]
BY DEF TypeOK, Noted

LEMMA VersionTyped ==
  ASSUME TypeOK, clock < MaxVersion
  PROVE  /\ clock + 1 \in 0..MaxVersion /\ clock + 1 \in -1..MaxVersion
         /\ \A p \in Place : Renewed(p) \in [Root -> 0..MaxVersion]
BY StateAssumption DEF TypeOK, Renewed

LEMMA TypedStep ==
  ASSUME Typed, [Next]_vars
  PROVE  Typed'
<1> USE StateAssumption DEF Typed, TypeOK, files, users, Absent, Torn, Goes
<1>0. -1..MaxVersion = {-1} \cup 0..MaxVersion /\ 0 \in 0..MaxVersion
  OBVIOUS
<1>1. ASSUME NEW r \in Root, NEW restore \in BOOLEAN, Start(r, restore) PROVE Typed'
  <2> DEFINE from == IF restore THEN ident[r] ELSE r
             to == IF restore THEN r ELSE ident[r]
  <2>1. from \in Place /\ to \in Place /\ Absent \in -1..MaxVersion
    BY <1>1, <1>0 DEF Start, Place
  <2>2. job' = [root |-> r, from |-> from, to |-> to, snap |-> Absent, side |-> FALSE]
    BY <1>1 DEF Start
  <2>3. job' \in Job
    BY <2>1, <2>2 DEF Job
  <2> QED BY <1>1, <2>3 DEF Start
<1>2. CASE Probe
  <2>1. job \in Job
    BY <1>2 DEF Probe
  <2>2. PICK b \in BOOLEAN : b = (side[job.from] # Absent)
    OBVIOUS
  <2>3. [job EXCEPT !.side = b] \in Job
    BY <2>1 DEF Job
  <2>4. job' \in {job, [job EXCEPT !.side = b]}
    BY <1>2, <2>2 DEF Probe
  <2> QED BY <1>2, <2>1, <2>3, <2>4 DEF Probe
<1>3. CASE Copy
  <2>1. job \in Job /\ job.to \in Place /\ job.root \in Root /\ job.from \in Place
    BY <1>3 DEF Copy, Job
  <2>2. owner' \in [Id -> Root \cup {None}]
    BY <1>3, <2>1, NotedTyped DEF Copy
  <2>3. db' \in [Place -> -1..MaxVersion] /\ gone' \subseteq Root
    BY <1>3, <1>0 DEF Copy, Remove, Holders
  <2>4. job' \in Job
    BY <1>3, <2>1 DEF Copy, Job
  <2> QED BY <1>3, <2>2, <2>3, <2>4 DEF Copy
<1>4. CASE Copied
  BY <1>4, <1>0 DEF Copied, Remove, Holders, Job
<1>5. CASE Verify
  BY <1>5, <1>0 DEF Verify, Remove, Holders
<1>6. CASE CopySide \/ Unlink \/ UnlinkSide \/ Crash
  BY <1>6, <1>0 DEF CopySide, Unlink, UnlinkSide, Crash, Remove, Holders, Job
<1>7. CASE PlanGc \/ \E i \in Id : RemoveState(i)
  BY <1>7, <1>0 DEF PlanGc, RemoveState, Remove, Holders
<1>8. ASSUME NEW r \in Root, Open(r) PROVE Typed'
  <2> DEFINE p == Resolved(r)
  <2>1. p \in Place
    BY ResolvedPlace
  <2>2. owner' \in [Id -> Root \cup {None}] /\ held' \in [Root -> Place \cup {None}]
    BY <1>8, <2>1, NotedTyped DEF Open
  <2>3. /\ db' \in [Place -> -1..MaxVersion] /\ newest' \in [Root -> 0..MaxVersion]
        /\ clock' \in 0..MaxVersion
    <3>1. CASE db[p] # Absent
      BY <1>8, <3>1 DEF Open
    <3>2. CASE db[p] = Absent
      BY <1>8, <2>1, <3>2, VersionTyped DEF Open
    <3> QED BY <3>1, <3>2
  <2> QED BY <1>8, <2>2, <2>3 DEF Open
<1>9. ASSUME NEW r \in Root, Write(r) PROVE Typed'
  <2>1. held[r] \in Place
    BY <1>9 DEF Write
  <2>2. newest' \in [Root -> 0..MaxVersion]
    <3>1. clock + 1 \in 0..MaxVersion /\ Renewed(held[r]) \in [Root -> 0..MaxVersion]
      BY <1>9, <2>1, VersionTyped DEF Write
    <3> QED BY <1>9, <3>1 DEF Write
  <2>3. db' \in [Place -> -1..MaxVersion] /\ clock' \in 0..MaxVersion
    BY <1>9, <2>1, VersionTyped DEF Write
  <2> QED BY <1>9, <2>2, <2>3 DEF Write
<1>10. ASSUME NEW r \in Root, NoteVersion(r) PROVE Typed'
  <2>1. held[r] \in Place
    BY <1>10 DEF NoteVersion
  <2>2. (IF r \in gone THEN newest[r] ELSE db[held[r]]) \in -1..MaxVersion
    BY <2>1, <1>0
  <2> QED BY <1>10, <2>2 DEF NoteVersion
<1>11. ASSUME NEW r \in Root, Close(r) \/ Forget(r) \/ DeleteRoot(r) PROVE Typed'
  BY <1>11, <1>0 DEF Close, Forget, DeleteRoot, Place
<1>12. ASSUME NEW r \in Root, NEW i \in Id, Adopt(r, i) PROVE Typed'
  BY <1>12 DEF Adopt
<1>13. ASSUME NEW r \in Root, NEW s \in Root, Rename(r, s) \/ Clone(r, s) PROVE Typed'
  BY <1>13, <1>0 DEF Rename, Clone, Place
<1>14. CASE UNCHANGED vars
  BY <1>14 DEF vars
<1> QED
  BY <1>1, <1>2, <1>3, <1>4, <1>5, <1>6, <1>7, <1>8, <1>9, <1>10, <1>11, <1>12, <1>13, <1>14
     DEF Next, Migration, Users

LEMMA AlwaysTyped == Spec => []Typed
<1>1. Init => Typed
  BY StateAssumption DEF Init, Typed, TypeOK, Absent
<1>2. Typed /\ [Next]_vars => Typed'
  BY TypedStep
<1> QED BY <1>1, <1>2, PTL DEF Spec

\* The variables keep their types.
THEOREM StateTyping == Spec => []TypeOK
<1>1. Typed => TypeOK
  BY DEF Typed
<1> QED BY <1>1, AlwaysTyped, PTL

-----------------------------------------------------------------------------
(***************************************************************************)
(* What holds whatever happens.                                            *)
(***************************************************************************)
Steps == Probe \/ Copy \/ Copied \/ Verify \/ CopySide \/ Unlink \/ UnlinkSide \/ Crash

\* A migration goes between the two places of a checkout that is there.
Between(r, from, to) ==
  /\ r \in there
  /\ ident[r] # None
  /\ \/ from = r /\ to = ident[r]
     \/ from = ident[r] /\ to = r

Moving == pc # "idle" => Between(job.root, job.from, job.to)

\* A process works on a checkout that is there, at one of its two places.
Working == \A r \in Root : held[r] # None => r \in there /\ held[r] \in {r, ident[r]}
Living == \A r \in Root : ident[r] # None => r \in there
Doomed == "gc" \notin plan => doomed = {}

\* Only clones share an id.
Distinct ==
  "clone" \notin plan =>
    \A r, s \in Root : ident[r] # None /\ ident[r] = ident[s] => r = s

Shape == Typed /\ Moving /\ Working /\ Living /\ Doomed /\ Distinct

LEMMA Places ==
  ASSUME Shape, NEW r \in Root
  PROVE  /\ r \in Place /\ r \notin Id /\ r # None
         /\ ident[r] # None => ident[r] \in Id /\ ident[r] \in Place /\ ident[r] \notin Root
         /\ Resolved(r) \in Place /\ Resolved(r) \in {r, ident[r]}
BY StateAssumption, ResolvedPlace DEF Shape, Typed, TypeOK, Place

LEMMA JobStays ==
  ASSUME Typed, Steps
  PROVE  /\ pc # "idle" /\ job \in Job
         /\ job'.root = job.root /\ job'.from = job.from /\ job'.to = job.to
         /\ UNCHANGED <<plan, there, ident, held, newest, clock, doomed>>
<1> USE DEF Typed, Goes, Job
<1>1. CASE Probe
  BY <1>1 DEF Probe
<1>2. CASE Copy
  BY <1>2 DEF Copy
<1>3. CASE Copied \/ Verify \/ CopySide \/ Unlink \/ UnlinkSide \/ Crash
  BY <1>3 DEF Copied, Verify, CopySide, Unlink, UnlinkSide, Crash
<1> QED BY <1>1, <1>2, <1>3 DEF Steps

LEMMA PlanRigid ==
  ASSUME Shape, [Next]_vars
  PROVE  plan' = plan
<1>1. CASE Steps
  BY <1>1, JobStays DEF Shape
<1>2. CASE ~Steps
  BY <1>2 DEF Next, Migration, Steps, Users, Start, Goes, PlanGc, RemoveState, Open, Write,
              NoteVersion, Close, Forget, DeleteRoot, Adopt, Rename, Clone, vars
<1> QED BY <1>1, <1>2

LEMMA ShapeStep ==
  ASSUME Shape, [Next]_vars
  PROVE  Shape'
<1>0. Typed' /\ Typed
  BY TypedStep DEF Shape
<1> USE DEF Shape, Moving, Between, Working, Living, Doomed, Distinct
<1> DEFINE Rest == (Moving /\ Working /\ Living /\ Doomed /\ Distinct)'
<1> SUFFICES Rest
  BY <1>0
<1>1. ASSUME NEW r \in Root, NEW restore \in BOOLEAN, Start(r, restore) PROVE Rest
  <2>1. ident[r] # r
    BY <1>1, Places DEF Start
  <2> QED BY <1>1, <2>1 DEF Start, Goes
<1>2. CASE Steps
  BY <1>0, <1>2, JobStays
<1>3. CASE PlanGc \/ \E i \in Id : RemoveState(i)
  BY <1>0, <1>3 DEF PlanGc, RemoveState, users, files
<1>4. ASSUME NEW r \in Root, Open(r) PROVE Rest
  <2>1. \A s \in Root : held'[s] = IF s = r THEN Resolved(r) ELSE held[s]
    BY <1>0, <1>4 DEF Open, Typed, TypeOK
  <2>2. /\ UNCHANGED <<plan, there, ident, pc, job, doomed>>
        /\ r \in there /\ Resolved(r) \in {r, ident[r]}
    BY <1>4, Places DEF Open
  <2> QED BY <2>1, <2>2
<1>5. ASSUME NEW r \in Root, Write(r) \/ NoteVersion(r) PROVE Rest
  BY <1>5 DEF Write, NoteVersion, users
<1>6. ASSUME NEW r \in Root, Close(r) PROVE Rest
  BY <1>0, <1>6 DEF Close, files, Typed, TypeOK
<1>7. ASSUME NEW r \in Root, Forget(r) PROVE Rest
  BY <1>0, <1>7 DEF Forget, files, Typed, TypeOK, Quiet
<1>8. ASSUME NEW r \in Root, DeleteRoot(r) PROVE Rest
  BY <1>0, <1>8 DEF DeleteRoot, Typed, TypeOK, Quiet
<1>9. ASSUME NEW r \in Root, NEW i \in Id, Adopt(r, i) PROVE Rest
  BY <1>0, <1>9 DEF Adopt, files, Typed, TypeOK, Quiet
<1>10. ASSUME NEW r \in Root, NEW s \in Root, Rename(r, s) PROVE Rest
  <2>1. r # s /\ ident[s] = None /\ held[s] = None /\ held[r] = None
    BY <1>10 DEF Rename, Quiet
  <2>2. /\ \A q \in Root : ident'[q] = IF q = r THEN None ELSE IF q = s THEN ident[r] ELSE ident[q]
        /\ there' = (there \ {r}) \cup {s}
        /\ UNCHANGED <<plan, held, pc, job, doomed>>
        /\ pc # "idle" => job.root # r
    BY <1>0, <1>10, <2>1 DEF Rename, Typed, TypeOK, Quiet
  <2>3. pc # "idle" => job.root \in Root /\ job.root # s
    BY <1>0, <1>10 DEF Typed, Job, Rename
  <2> QED BY <2>1, <2>2, <2>3
<1>11. ASSUME NEW r \in Root, NEW s \in Root, Clone(r, s) PROVE Rest
  <2>1. s \notin there /\ ident[s] = None /\ held[s] = None /\ "clone" \in plan
    BY <1>11 DEF Clone
  <2>2. /\ \A q \in Root : ident'[q] = IF q = s THEN ident[r] ELSE ident[q]
        /\ there' = there \cup {s}
        /\ UNCHANGED <<plan, held, pc, job, doomed>>
    BY <1>0, <1>11 DEF Clone, files, Typed, TypeOK
  <2>3. pc # "idle" => job.root \in Root /\ job.root # s
    BY <1>0, <2>1 DEF Typed, Job
  <2>4. (Working /\ Living /\ Doomed /\ Distinct)'
    BY <2>1, <2>2
  <2>5. Moving'
    BY <2>2, <2>3
  <2> QED BY <2>4, <2>5
<1>12. CASE UNCHANGED vars
  BY <1>12 DEF vars, users, files
<1> QED
  BY <1>0, <1>1, <1>2, <1>3, <1>4, <1>5, <1>6, <1>7, <1>8, <1>9, <1>10, <1>11, <1>12
     DEF Next, Migration, Users, Steps

LEMMA AlwaysShape == Spec => []Shape
<1>1. Init => Moving /\ Working /\ Living /\ Doomed /\ Distinct
  BY DEF Init, Moving, Working, Living, Doomed, Distinct
<1>2. Init => Typed
  BY StateAssumption DEF Init, Typed, TypeOK, Absent
<1>3. Init => Shape
  BY <1>1, <1>2 DEF Shape
<1> QED BY <1>3, ShapeStep, PTL DEF Spec

-----------------------------------------------------------------------------
(***************************************************************************)
(* What gc removes.                                                        *)
(***************************************************************************)
Records == "clone" \notin plan /\ "rename" \notin plan

\* The record of the state directory of a checkout names nobody else, and what
\* gc has condemned is recorded and used by nobody.
OwnersTrue == \A r \in Root : ident[r] # None => owner[ident[r]] \in {None, r}
DoomedUnused == \A i \in doomed : owner[i] # None /\ \A r \in Root : ident[r] # i

Owned == Records => OwnersTrue /\ DoomedUnused

LEMMA NotedOwned ==
  ASSUME Shape, Owned, NEW p \in Place, NEW r \in Root, owner' = Noted(p, r),
         UNCHANGED <<plan, ident, doomed>>
  PROVE  Owned'
<1>1. CASE p \in Id /\ ident[r] = p
  <2>1. /\ \A i \in Id : owner'[i] = IF i = p THEN r ELSE owner[i]
        /\ r # None /\ doomed \subseteq Id /\ ident \in [Root -> Id \cup {None}]
    BY <1>1, Places DEF Noted, Shape, Typed, TypeOK
  <2>2. Records => \A s \in Root : ident[s] = p => s = r
    <3>1. p # None
      BY <1>1, StateAssumption DEF Place
    <3> QED BY <1>1, <3>1 DEF Records, Shape, Distinct
  <2> QED BY <2>1, <2>2 DEF Owned, OwnersTrue, DoomedUnused, Records
<1>2. CASE ~(p \in Id /\ ident[r] = p)
  BY <1>2 DEF Noted, Owned, OwnersTrue, DoomedUnused, Records
<1> QED BY <1>1, <1>2

LEMMA OwnedStep ==
  ASSUME Shape, Owned, [Next]_vars
  PROVE  Owned'
<1>0. Typed
  BY DEF Shape
<1> USE DEF Owned, OwnersTrue, DoomedUnused, Records, Typed, TypeOK
<1>1. ASSUME NEW r \in Root, NEW restore \in BOOLEAN, Start(r, restore) PROVE Owned'
  BY <1>1 DEF Start, Goes, files
<1>2. CASE Copy
  <2>1. job.to \in Place /\ job.root \in Root
    BY <1>0, <1>2 DEF Copy, Job
  <2>2. owner' = Noted(job.to, job.root) /\ UNCHANGED <<plan, ident, doomed>>
    BY <1>2 DEF Copy, Goes
  <2> QED BY <2>1, <2>2, NotedOwned
<1>3. CASE Probe \/ Copied \/ Verify \/ CopySide \/ Unlink \/ UnlinkSide \/ Crash
  BY <1>3 DEF Probe, Copied, Verify, CopySide, Unlink, UnlinkSide, Crash, Goes, files
<1>4. CASE PlanGc
  <2>1. doomed' = {i \in Id : Orphaned(i)} /\ UNCHANGED <<plan, ident, owner>>
    BY <1>4 DEF PlanGc, users, files
  <2>2. ASSUME Records, NEW i \in Id, Orphaned(i), NEW r \in Root PROVE ident[r] # i
    <3>1. SUFFICES ASSUME ident[r] = i PROVE FALSE
      OBVIOUS
    <3>2. ident[r] # None
      BY <3>1, StateAssumption DEF Place
    <3>3. owner[i] \in {None, r} /\ r \in there
      BY <2>2, <3>1, <3>2 DEF Shape, Living
    <3> QED BY <2>2, <3>1, <3>3 DEF Orphaned
  <2>3. Records => DoomedUnused'
    BY <2>1, <2>2 DEF Orphaned
  <2> QED BY <2>1, <2>3
<1>5. ASSUME NEW i \in Id, RemoveState(i) PROVE Owned'
  <2>1. \A j \in Id : owner'[j] = IF j = i THEN None ELSE owner[j]
    BY <1>0, <1>5 DEF RemoveState
  <2>2. doomed' = doomed \ {i} /\ doomed \subseteq Id /\ UNCHANGED <<plan, ident>>
    BY <1>0, <1>5 DEF RemoveState
  <2>3. ident \in [Root -> Id \cup {None}]
    BY <1>0
  <2> QED BY <2>1, <2>2, <2>3
<1>6. ASSUME NEW r \in Root, Open(r) PROVE Owned'
  <2>1. owner' = Noted(Resolved(r), r) /\ UNCHANGED <<plan, ident, doomed>>
    BY <1>6 DEF Open
  <2> QED BY <2>1, Places, NotedOwned
<1>7. ASSUME NEW r \in Root, Write(r) \/ NoteVersion(r) \/ Close(r) PROVE Owned'
  BY <1>7 DEF Write, NoteVersion, Close, users, files
<1>8. ASSUME NEW r \in Root, Forget(r) \/ DeleteRoot(r) PROVE Owned'
  <2>1. \A s \in Root : ident'[s] = IF s = r THEN None ELSE ident[s]
    BY <1>0, <1>8 DEF Forget, DeleteRoot
  <2>2. UNCHANGED <<plan, owner, doomed>> /\ doomed \subseteq Id
    BY <1>0, <1>8 DEF Forget, DeleteRoot, files
  <2> QED BY <2>1, <2>2, StateAssumption DEF Place
<1>9. ASSUME NEW r \in Root, NEW i \in Id, Adopt(r, i) PROVE Owned'
  <2>1. \A s \in Root : ident'[s] = IF s = r THEN i ELSE ident[s]
    BY <1>0, <1>9 DEF Adopt
  <2>2. UNCHANGED <<plan, owner, doomed>> /\ owner[i] = None
    BY <1>9 DEF Adopt, files
  <2> QED BY <2>1, <2>2
<1>10. ASSUME NEW r \in Root, NEW s \in Root, Rename(r, s) \/ Clone(r, s) PROVE Owned'
  BY <1>10 DEF Rename, Clone
<1>11. CASE UNCHANGED vars
  BY <1>11 DEF vars, users, files
<1> QED
  BY <1>1, <1>2, <1>3, <1>4, <1>5, <1>6, <1>7, <1>8, <1>9, <1>10, <1>11
     DEF Next, Migration, Users

LEMMA AlwaysOwned == Spec => []Owned
<1>1. Init => Owned
  BY DEF Init, Owned, OwnersTrue, DoomedUnused
<1>2. Shape /\ Owned /\ [Next]_vars => Owned'
  BY OwnedStep
<1> QED BY <1>1, <1>2, AlwaysShape, PTL DEF Spec

\* Where no checkout was renamed or cloned, gc removes no state directory that
\* a checkout resolves to, whatever its user does between plan and removal.
THEOREM GcRemovesOrphans == Spec => GcSpares
<1>1. Typed /\ Owned => [Excluded({"clone", "rename"}) =>
                  \A i \in doomed \ doomed' : \A r \in there : ident[r] # i]_vars
  <2>1. ASSUME Typed, Owned, Excluded({"clone", "rename"}), NEW i \in doomed, NEW r \in there
        PROVE  ident[r] # i
    <3>1. r \in Root
      BY <2>1 DEF Typed, TypeOK
    <3> QED BY <2>1, <3>1 DEF Owned, Records, DoomedUnused, Excluded
  <2> QED BY <2>1
<1>2. QED
  BY <1>1, AlwaysOwned, AlwaysTyped, PTL DEF GcSpares

-----------------------------------------------------------------------------
(***************************************************************************)
(* What is open during a migration.                                        *)
(***************************************************************************)
\* gc spares what is used.
Spared == "gc" \notin plan \/ Records

LEMMA SparedRemoval ==
  ASSUME Shape, Owned, Spared, NEW i \in Id, RemoveState(i)
  PROVE  \A r \in Root : ident[r] # i /\ held[r] # i
<1>1. i \in doomed
  BY DEF RemoveState
<1>2. \A r \in Root : ident[r] # i
  BY <1>1 DEF Shape, Doomed, Owned, DoomedUnused, Spared
<1>3. i # None
  BY StateAssumption DEF Place
<1> QED BY <1>2, <1>3, Places DEF Shape, Working

\* A root is the place of nobody else.
LEMMA TreeOfRoot ==
  ASSUME Shape, NEW r \in Root, NEW s \in Root, r # s
  PROVE  held[s] # r /\ ident[s] # r
BY Places DEF Shape, Working

Attending == "race" \notin plan /\ "fork" \notin plan /\ Spared

\* What is open is there; a migration has nothing but its source beneath it,
\* and from its probe on nobody works at either end.
Attached ==
  Attending =>
    /\ gone = {}
    /\ \A r \in Root : held[r] # None => db[held[r]] # Absent
    /\ pc = "probe" => db[job.to] = Absent
    /\ pc \notin {"idle", "probe"} => \A r \in Root : held[r] \notin {job.from, job.to}

LEMMA AttachedMigration ==
  ASSUME Shape, Attached, Attending, Steps
  PROVE  Attached'
<1>1. /\ pc # "idle" /\ job \in Job
      /\ job'.root = job.root /\ job'.from = job.from /\ job'.to = job.to
      /\ UNCHANGED <<plan, there, ident, held, newest, clock, doomed>>
  BY JobStays DEF Shape
<1>2. /\ job.from \in Place /\ job.to \in Place /\ job.from # job.to
      /\ job.from # None /\ job.to # None
  BY <1>1, Places, StateAssumption DEF Shape, Moving, Between, Job
<1>3. db \in [Place -> -1..MaxVersion] /\ held \in [Root -> Place \cup {None}]
  BY DEF Shape, Typed, TypeOK
<1>4. ASSUME pc # "probe" PROVE Holders(job.from) = {} /\ Holders(job.to) = {}
  BY <1>1, <1>4 DEF Attached, Holders
<1> USE <1>1, <1>2, <1>3 DEF Attached, Absent, Torn, Goes
<1>5. CASE Probe
  <2>1. UNCHANGED <<db, gone>>
    BY <1>5 DEF Probe, files
  <2>2. \A r \in Root : held[r] # job.to
    BY <1>5 DEF Probe
  <2>3. pc' # "idle" => \A r \in Root : held[r] # job.from
    <3>1. CASE db[job.from] = Absent
      BY <3>1
    <3>2. CASE db[job.from] # Absent
      <4>1. pc' # "idle" => Holders(job.from) = {}
        BY <1>5, <3>2 DEF Probe
      <4>2. gone = {}
        OBVIOUS
      <4> QED BY <4>1, <4>2 DEF Holders
    <3> QED BY <3>1, <3>2
  <2>4. pc' \in {"idle", "copy"}
    BY <1>5 DEF Probe
  <2> QED BY <2>1, <2>2, <2>3, <2>4
<1>6. CASE Copy \/ Copied \/ Verify \/ CopySide \/ Unlink \/ UnlinkSide
  <2>1. pc # "probe" /\ pc' # "probe"
    BY <1>6 DEF Copy, Copied, Verify, CopySide, Unlink, UnlinkSide
  <2>2. gone' = {}
    BY <1>4, <1>6, <2>1 DEF Copy, Copied, Verify, CopySide, Unlink, UnlinkSide, Remove
  <2>3. \A p \in Place : p \notin {job.from, job.to} => db'[p] = db[p]
    BY <1>6 DEF Copy, Copied, Verify, CopySide, Unlink, UnlinkSide, Remove, files
  <2> QED BY <2>1, <2>2, <2>3
<1>7. CASE Crash
  BY <1>7 DEF Crash, files
<1> QED BY <1>5, <1>6, <1>7 DEF Steps

LEMMA AttachedStep ==
  ASSUME Shape, Shape', Owned, Attached, [Next]_vars
  PROVE  Attached'
<1>0. plan' = plan
  BY PlanRigid
<1> SUFFICES ASSUME Attending PROVE Attached'
  BY <1>0 DEF Attached, Attending, Spared, Records
<1>1. /\ db \in [Place -> -1..MaxVersion] /\ held \in [Root -> Place \cup {None}]
      /\ ident \in [Root -> Id \cup {None}] /\ clock \in Nat
      /\ pc # "idle" => job \in Job
  BY StateAssumption DEF Shape, Typed, TypeOK
<1> USE <1>1 DEF Attached, Absent
<1>2. ASSUME NEW r \in Root, NEW restore \in BOOLEAN, Start(r, restore) PROVE Attached'
  BY <1>2 DEF Start, Goes, files, Attending
<1>3. CASE Steps
  BY <1>3, AttachedMigration
<1>4. CASE PlanGc
  BY <1>4 DEF PlanGc, users, files
<1>5. ASSUME NEW i \in Id, RemoveState(i) PROVE Attached'
  <2>1. \A r \in Root : held[r] # i
    BY <1>5, SparedRemoval DEF Attending
  <2>2. gone' = {} /\ \A p \in Place : db'[p] = IF p = i THEN Absent ELSE db[p]
    BY <1>5, <2>1 DEF RemoveState, Remove, Holders
  <2>3. UNCHANGED <<held, pc, job>>
    BY <1>5 DEF RemoveState
  <2>4. pc # "idle" => job.to \in Place
    BY DEF Job
  <2> QED BY <2>1, <2>2, <2>3, <2>4
<1>6. ASSUME NEW r \in Root, Open(r) PROVE Attached'
  <2>1. pc = "idle" /\ pc' = pc /\ gone' = gone
    BY <1>6 DEF Open, Attending
  <2>2. /\ \A s \in Root : held'[s] = IF s = r THEN Resolved(r) ELSE held[s]
        /\ \A p \in Place : db[p] # Absent => db'[p] # Absent
        /\ db'[Resolved(r)] # Absent
    BY <1>6, Places DEF Open
  <2> QED BY <2>1, <2>2, Places
<1>7. ASSUME NEW r \in Root, Write(r) PROVE Attached'
  <2>1. held[r] \in Place /\ r \notin gone
    BY <1>7 DEF Write
  <2>2. /\ \A p \in Place : db'[p] = IF p = held[r] THEN clock + 1 ELSE db[p]
        /\ UNCHANGED <<held, gone, pc, job>>
    BY <1>7, <2>1 DEF Write
  <2>3. pc # "idle" => job.to \in Place
    BY DEF Job
  <2>4. db[held[r]] # Absent
    BY <1>7 DEF Write
  <2> QED BY <2>2, <2>3, <2>4
<1>8. ASSUME NEW r \in Root, NoteVersion(r) \/ Close(r) \/ Forget(r) PROVE Attached'
  <2>1. /\ \A s \in Root : held'[s] \in {None, held[s]}
        /\ gone' \subseteq gone
        /\ UNCHANGED <<db, pc, job>>
    BY <1>8 DEF NoteVersion, Close, Forget, users, files
  <2>2. pc # "idle" => None \notin {job.from, job.to}
    BY StateAssumption DEF Job
  <2>3. gone' = {}
    BY <2>1
  <2> QED BY <2>1, <2>2, <2>3
<1>9. ASSUME NEW r \in Root, DeleteRoot(r) PROVE Attached'
  <2>1. /\ \A p \in Place : db'[p] = IF p = r THEN Absent ELSE db[p]
        /\ UNCHANGED <<held, gone, pc, job>>
        /\ held[r] = None
    BY <1>9 DEF DeleteRoot, Quiet
  <2>2. \A s \in Root : held[s] # r
    BY <2>1, TreeOfRoot, Places
  <2>3. pc # "idle" => job.to \in Place
    BY DEF Job
  <2> QED BY <2>1, <2>2, <2>3
<1>10. ASSUME NEW r \in Root, NEW i \in Id, Adopt(r, i) PROVE Attached'
  BY <1>10 DEF Adopt, files
<1>11. ASSUME NEW r \in Root, NEW s \in Root, Rename(r, s) PROVE Attached'
  <2>1. /\ \A p \in Place \ {r, s} : db'[p] = db[p]
        /\ UNCHANGED <<held, gone, pc, job>>
        /\ held[r] = None /\ held[s] = None /\ s \notin there
        /\ pc # "idle" => job.root # r
    BY <1>11 DEF Rename, Quiet, Shape, Working
  <2>2. \A q \in Root : held[q] \notin {r, s}
    BY <2>1, TreeOfRoot, Places
  <2>3. pc # "idle" => job.to \in Place /\ job.to \notin {r, s}
    BY <2>1, TreeOfRoot, Places DEF Job, Shape, Moving, Between
  <2> QED BY <2>1, <2>2, <2>3
<1>12. ASSUME NEW r \in Root, NEW s \in Root, Clone(r, s) PROVE Attached'
  BY <1>12 DEF Clone, files
<1>13. CASE UNCHANGED vars
  BY <1>13 DEF vars, users, files
<1> QED
  BY <1>2, <1>3, <1>4, <1>5, <1>6, <1>7, <1>8, <1>9, <1>10, <1>11, <1>12, <1>13
     DEF Next, Migration, Users, Steps

LEMMA AlwaysAttached == Spec => []Attached
<1>1. Init => Attached
  BY DEF Init, Attached
<1>2. Shape /\ Shape' /\ Owned /\ Attached /\ [Next]_vars => Attached'
  BY AttachedStep
<1> QED BY <1>1, <1>2, AlwaysShape, AlwaysOwned, PTL DEF Spec

\* A migration that found its source idle, without a process that opens it
\* behind its back, takes no file from under a process.
THEOREM MigrationDetachesNobody == Spec => []NoneDetached
<1>1. Attached => NoneDetached
  BY DEF Attached, Attending, Spared, NoneDetached, Excluded
<1> QED BY <1>1, AlwaysAttached, PTL

-----------------------------------------------------------------------------
(***************************************************************************)
(* Half copies.                                                            *)
(***************************************************************************)
Watching == "crash" \notin plan /\ Spared

\* A half copy is the destination of a migration that has not verified it, and
\* whose source is still there.
TornMoving == \A p \in Place : db[p] = Torn => pc \in {"copying", "verify"} /\ job.to = p
SourceThere == pc \in {"copying", "verify"} => db[job.from] # Absent
Whole == Watching => TornMoving /\ SourceThere

LEMMA WholeMigration ==
  ASSUME Shape, Whole, Watching, Steps
  PROVE  Whole'
<1>1. /\ pc # "idle" /\ job \in Job
      /\ job'.root = job.root /\ job'.from = job.from /\ job'.to = job.to
      /\ UNCHANGED <<plan, there, ident, held, newest, clock, doomed>>
  BY JobStays DEF Shape
<1>2. job.from \in Place /\ job.to \in Place /\ job.from # job.to
  BY <1>1, Places DEF Shape, Moving, Between, Job
<1>3. db \in [Place -> -1..MaxVersion]
  BY DEF Shape, Typed, TypeOK
<1> USE <1>1, <1>2, <1>3 DEF Whole, TornMoving, SourceThere, Absent, Torn, Goes
<1>4. CASE Probe
  BY <1>4 DEF Probe, files
<1>5. CASE Copy
  BY <1>5 DEF Copy, Remove
<1>6. CASE Copied
  <2>1. /\ \A p \in Place \ {job.to} : db'[p] = db[p]
        /\ pc' = "verify" \/ (pc' = "idle" /\ db'[job.to] = Absent)
    BY <1>6 DEF Copied, Remove
  <2>2. pc = "copying"
    BY <1>6 DEF Copied
  <2> QED BY <2>1, <2>2
<1>7. CASE Verify
  <2>1. db[job.from] # Absent /\ db[job.from] # Torn
    BY <1>7 DEF Verify
  <2>2. /\ \A p \in Place \ {job.to} : db'[p] = db[p]
        /\ db'[job.to] = Absent \/ db'[job.to] = db[job.from]
        /\ pc' \notin {"copying", "verify"}
    BY <1>7, <2>1 DEF Verify, Remove
  <2>3. \A p \in Place : db'[p] # Torn
    BY <2>1, <2>2
  <2> QED BY <2>2, <2>3
<1>8. CASE CopySide \/ Unlink \/ UnlinkSide
  BY <1>8 DEF CopySide, Unlink, UnlinkSide, Remove
<1>9. CASE Crash
  BY <1>9 DEF Crash, Watching
<1> QED BY <1>4, <1>5, <1>6, <1>7, <1>8, <1>9 DEF Steps

LEMMA WholeStep ==
  ASSUME Shape, Owned, Whole, [Next]_vars
  PROVE  Whole'
<1>0. plan' = plan
  BY PlanRigid
<1> SUFFICES ASSUME Watching PROVE Whole'
  BY <1>0 DEF Whole, Watching, Spared, Records
<1>1. /\ db \in [Place -> -1..MaxVersion] /\ held \in [Root -> Place \cup {None}]
      /\ clock \in Nat
      /\ pc # "idle" => job \in Job
  BY StateAssumption DEF Shape, Typed, TypeOK
<1> USE <1>1 DEF Whole, TornMoving, SourceThere, Absent, Torn
<1>2. ASSUME NEW r \in Root, NEW restore \in BOOLEAN, Start(r, restore) PROVE Whole'
  BY <1>2 DEF Start, Goes, files
<1>3. CASE Steps
  BY <1>3, WholeMigration
<1>4. CASE PlanGc
  BY <1>4 DEF PlanGc, users, files
<1>5. ASSUME NEW i \in Id, RemoveState(i) PROVE Whole'
  <2>1. \A r \in Root : ident[r] # i
    BY <1>5, SparedRemoval DEF Watching
  <2>2. (\A p \in Place : db'[p] = IF p = i THEN Absent ELSE db[p]) /\ UNCHANGED <<pc, job>>
    BY <1>5 DEF RemoveState, Remove
  <2>3. pc # "idle" => job.from \in Place /\ job.from # i
    BY <2>1, Places DEF Job, Shape, Moving, Between
  <2> QED BY <2>2, <2>3
<1>6. ASSUME NEW r \in Root, Open(r) PROVE Whole'
  <2>1. /\ \A p \in Place : db'[p] \in {db[p], clock + 1}
        /\ UNCHANGED <<pc, job>>
    BY <1>6 DEF Open
  <2>2. pc # "idle" => job.from \in Place
    BY DEF Job
  <2> QED BY <2>1, <2>2
<1>7. ASSUME NEW r \in Root, Write(r) PROVE Whole'
  <2>1. /\ \A p \in Place : db'[p] \in {db[p], clock + 1}
        /\ UNCHANGED <<pc, job>>
    BY <1>7 DEF Write
  <2>2. pc # "idle" => job.from \in Place
    BY DEF Job
  <2> QED BY <2>1, <2>2
<1>8. ASSUME NEW r \in Root, NoteVersion(r) \/ Close(r) \/ Forget(r) PROVE Whole'
  BY <1>8 DEF NoteVersion, Close, Forget, users, files
<1>9. ASSUME NEW r \in Root, DeleteRoot(r) PROVE Whole'
  <2>1. /\ \A p \in Place : db'[p] = IF p = r THEN Absent ELSE db[p]
        /\ UNCHANGED <<pc, job>>
        /\ pc # "idle" => job.root # r
    BY <1>9 DEF DeleteRoot, Quiet
  <2>2. pc # "idle" => job.from \in Place /\ job.from # r
    BY <2>1, TreeOfRoot, Places DEF Job, Shape, Moving, Between
  <2> QED BY <2>1, <2>2
<1>10. ASSUME NEW r \in Root, NEW i \in Id, Adopt(r, i) PROVE Whole'
  BY <1>10 DEF Adopt, files
<1>11. ASSUME NEW r \in Root, NEW s \in Root, Rename(r, s) PROVE Whole'
  <2>1. /\ \A p \in Place \ {r, s} : db'[p] = db[p]
        /\ db'[s] = db[r] /\ db'[r] = Absent
        /\ UNCHANGED <<pc, job>>
        /\ s \notin there
        /\ pc # "idle" => job.root # r
    BY <1>11, Places DEF Rename, Quiet
  <2>2. pc # "idle" => /\ job.to \in Place /\ job.to \notin {r, s}
                       /\ job.from \in Place /\ job.from \notin {r, s}
    BY <2>1, TreeOfRoot, Places DEF Job, Shape, Moving, Between
  <2>3. db[r] # Torn
    BY <2>2, Places
  <2> QED BY <2>1, <2>2, <2>3
<1>12. ASSUME NEW r \in Root, NEW s \in Root, Clone(r, s) PROVE Whole'
  BY <1>12 DEF Clone, files
<1>13. CASE UNCHANGED vars
  BY <1>13 DEF vars, users, files
<1> QED
  BY <1>2, <1>3, <1>4, <1>5, <1>6, <1>7, <1>8, <1>9, <1>10, <1>11, <1>12, <1>13
     DEF Next, Migration, Users, Steps

LEMMA AlwaysWhole == Spec => []Whole
<1>1. Init => Whole
  BY DEF Init, Whole, TornMoving, SourceThere, Absent, Torn
<1>2. Shape /\ Owned /\ Whole /\ [Next]_vars => Whole'
  BY WholeStep
<1> QED BY <1>1, <1>2, AlwaysShape, AlwaysOwned, PTL DEF Spec

\* A migration that is not killed leaves no half copy, though the source be
\* opened and written, or there be a database at both ends.
THEOREM NoHalfCopy == Spec => []NoTornLeft
<1>1. Whole => NoTornLeft
  BY DEF Whole, Watching, TornMoving, Spared, NoTornLeft, Excluded
<1> QED BY <1>1, AlwaysWhole, PTL

-----------------------------------------------------------------------------
(***************************************************************************)
(* The newest version.                                                     *)
(***************************************************************************)
Sole == {"race", "fork", "gc", "clone"} \cap plan = {}

Kept(r) == newest[r] # 0 =>
             db[r] = newest[r] \/ (ident[r] # None /\ db[ident[r]] = newest[r])

KeepsNewest == \A r \in there : Kept(r)
HeldResolved == \A r \in Root : held[r] # None => held[r] = Resolved(r)
SourceNewest == pc \in {"probe", "copy", "copying", "verify", "side", "unlink"} =>
                  newest[job.root] = 0 \/ db[job.from] = newest[job.root]
CopyWhole == pc \in {"side", "unlink"} => db[job.to] = db[job.from]

\* Processes work where the graph is resolved; before a migration has made its
\* copy the newest version is its source, afterwards both its ends.
KeptInv == Sole => KeepsNewest /\ HeldResolved /\ SourceNewest /\ CopyWhole

\* What happens at the places of one checkout says nothing of another.
LEMMA OthersKeep ==
  ASSUME Shape, "clone" \notin plan, NEW r \in Root, NEW s \in Root, r # s,
         \A p \in Place : p \notin {r, ident[r]} => db'[p] = db[p],
         ident'[s] = ident[s]
  PROVE  /\ Resolved(s)' = Resolved(s)
         /\ newest'[s] = newest[s] /\ Kept(s) => Kept(s)'
         /\ ident[r] # None => Resolved(s) # ident[r]
         /\ Resolved(s) # r
<1>1. s \in Place \ {r, ident[r]}
  BY Places
<1>2. ident[s] # None => ident[s] \in Place \ {r, ident[r]}
  BY Places DEF Shape, Distinct
<1> QED BY <1>1, <1>2 DEF Resolved, Kept

LEMMA KeptMigration ==
  ASSUME Shape, Attached, KeptInv, Sole, Steps
  PROVE  KeptInv'
<1>1. /\ pc # "idle" /\ job \in Job
      /\ job'.root = job.root /\ job'.from = job.from /\ job'.to = job.to
      /\ UNCHANGED <<plan, there, ident, held, newest, clock, doomed>>
  BY JobStays DEF Shape
<1> DEFINE r == job.root
<1>2. /\ r \in Root /\ r \in there /\ ident[r] # None
      /\ job.from \in Place /\ job.to \in Place /\ job.from # job.to
      /\ \/ job.from = r /\ job.to = ident[r]
         \/ job.from = ident[r] /\ job.to = r
  BY <1>1, Places DEF Shape, Moving, Between, Job
<1>3. db \in [Place -> -1..MaxVersion] /\ there \subseteq Root
  BY DEF Shape, Typed, TypeOK
<1>4. "clone" \notin plan /\ Attending
  BY DEF Sole, Attending, Spared
<1>5. \A p \in Place : p \notin {r, ident[r]} => db'[p] = db[p]
  BY <1>2, <1>3 DEF Steps, Probe, Copy, Copied, Verify, CopySide, Unlink, UnlinkSide, Crash,
                    Remove, files
<1>6. \A s \in Root : s # r => Resolved(s)' = Resolved(s) /\ (Kept(s) => Kept(s)')
  BY <1>1, <1>2, <1>4, <1>5, OthersKeep
<1>7. HeldResolved'
  <2>1. CASE pc = "probe"
    <3>1. db' = db
      BY <2>1 DEF Steps, Probe, Copy, Copied, Verify, CopySide, Unlink, UnlinkSide, Crash, files
    <3> QED BY <1>1, <3>1 DEF KeptInv, HeldResolved, Resolved
  <2>2. CASE pc # "probe"
    <3>1. held[r] = None
      BY <1>1, <1>2, <1>4, <2>2 DEF Attached, Shape, Working
    <3> QED BY <1>1, <1>6, <3>1 DEF KeptInv, HeldResolved
  <2> QED BY <2>1, <2>2
<1>8. Kept(r)' /\ SourceNewest' /\ CopyWhole'
  <2> USE <1>1, <1>2, <1>3 DEF KeptInv, KeepsNewest, SourceNewest, CopyWhole, Kept, Goes
  <2>1. CASE Probe
    BY <2>1 DEF Probe, files
  <2>2. CASE Copy
    <3>1. db'[job.from] = db[job.from] /\ pc' \in {"idle", "copying"}
      BY <2>2 DEF Copy, Remove
    <3> QED BY <2>2, <3>1 DEF Copy
  <2>3. CASE Copied
    <3>1. db'[job.from] = db[job.from] /\ pc' \in {"idle", "verify"}
      BY <2>3 DEF Copied, Remove
    <3> QED BY <2>3, <3>1 DEF Copied
  <2>4. CASE Verify
    <3>1. db'[job.from] = db[job.from]
      BY <2>4 DEF Verify, Remove
    <3>2. pc' = "idle" \/ (pc' \in {"side", "unlink"} /\ db'[job.to] = db'[job.from])
      BY <2>4 DEF Verify
    <3> QED BY <2>4, <3>1, <3>2 DEF Verify
  <2>5. CASE CopySide
    BY <2>5 DEF CopySide
  <2>6. CASE Unlink
    <3>1. db'[job.to] = db[job.to] /\ pc' \in {"idle", "unlinkSide"}
      BY <2>6 DEF Unlink, Remove
    <3>2. newest[r] = 0 \/ db[job.to] = newest[r]
      BY <2>6 DEF Unlink
    <3> QED BY <3>1, <3>2
  <2>7. CASE UnlinkSide
    BY <2>7 DEF UnlinkSide
  <2>8. CASE Crash
    BY <2>8 DEF Crash, files
  <2> QED BY <2>1, <2>2, <2>3, <2>4, <2>5, <2>6, <2>7, <2>8 DEF Steps
<1>9. KeepsNewest'
  BY <1>1, <1>3, <1>6, <1>8 DEF KeptInv, KeepsNewest
<1> QED BY <1>7, <1>8, <1>9 DEF KeptInv

\* A process writes the version it is given where it works.
LEMMA KeptWrite ==
  ASSUME Shape, KeptInv, Sole, NEW r \in Root, r \in there,
         NEW p, p = Resolved(r),
         UNCHANGED <<there, ident, pc, job>>,
         \A q \in Place : db'[q] = IF q = p THEN clock + 1 ELSE db[q],
         \A s \in Root : held'[s] = IF s = r THEN p ELSE held[s],
         newest' = Renewed(p),
         pc # "idle" /\ job.root = r => pc = "probe" /\ p = job.from
  PROVE  KeptInv'
<1>1. "clone" \notin plan
  BY DEF Sole
<1>2. p \in Place /\ p \in {r, ident[r]} /\ r \in Place /\ r # None
  BY Places
<1>3. /\ there \subseteq Root /\ clock + 1 # Absent /\ clock \in Nat
      /\ newest \in [Root -> 0..MaxVersion]
  BY StateAssumption DEF Shape, Typed, TypeOK, Absent
<1>4. \A s \in Root : s # r => /\ Resolved(s)' = Resolved(s) /\ Resolved(s) # p
                               /\ newest'[s] = newest[s] /\ (Kept(s) => Kept(s)')
  <2> SUFFICES ASSUME NEW s \in Root, s # r
               PROVE  /\ Resolved(s)' = Resolved(s) /\ Resolved(s) # p
                      /\ newest'[s] = newest[s] /\ (Kept(s) => Kept(s)')
    OBVIOUS
  <2>1. /\ Resolved(s)' = Resolved(s)
        /\ newest'[s] = newest[s] /\ Kept(s) => Kept(s)'
        /\ ident[r] # None => Resolved(s) # ident[r]
        /\ Resolved(s) # r
    BY <1>1, <1>2, OthersKeep
  <2>2. p # None
    BY <1>2, StateAssumption
  <2>3. Resolved(s) # p
    BY <1>2, <2>1, <2>2
  <2>4. newest'[s] = newest[s]
    BY <2>3 DEF Renewed
  <2> QED BY <2>1, <2>3, <2>4
<1>5. newest'[r] = clock + 1 /\ db'[p] = clock + 1
  BY <1>2 DEF Renewed
<1>6. Resolved(r)' = p
  BY <1>2, <1>3, Places DEF Resolved
<1>7. KeepsNewest' /\ HeldResolved'
  <2>1. Kept(r)'
    BY <1>2, <1>5, StateAssumption DEF Kept
  <2>2. KeepsNewest'
    BY <1>3, <1>4, <2>1 DEF KeptInv, KeepsNewest
  <2>3. HeldResolved'
    BY <1>4, <1>6 DEF KeptInv, HeldResolved
  <2> QED BY <2>2, <2>3
<1>8. SourceNewest' /\ CopyWhole'
  <2>1. CASE pc = "idle"
    BY <2>1 DEF SourceNewest, CopyWhole
  <2>2. CASE pc # "idle" /\ job.root = r
    BY <1>5, <2>2 DEF SourceNewest, CopyWhole
  <2>3. CASE pc # "idle" /\ job.root # r
    <3>1. job.root \in Root /\ job.from \in Place /\ job.to \in Place
      BY <2>3 DEF Shape, Typed, Job
    <3>2. p \notin {job.root, ident[job.root]}
      BY <1>1, <1>2, <2>3, <3>1, Places DEF Shape, Distinct, Moving, Between
    <3>3. db'[job.from] = db[job.from] /\ db'[job.to] = db[job.to]
      BY <2>3, <3>1, <3>2 DEF Shape, Moving, Between
    <3> QED BY <1>4, <2>3, <3>1, <3>3 DEF KeptInv, SourceNewest, CopyWhole
  <2> QED BY <2>1, <2>2, <2>3
<1> QED BY <1>7, <1>8 DEF KeptInv

LEMMA KeptStep ==
  ASSUME Shape, Attached, KeptInv, [Next]_vars
  PROVE  KeptInv'
<1>0. plan' = plan
  BY PlanRigid
<1> SUFFICES ASSUME Sole PROVE KeptInv'
  BY <1>0 DEF KeptInv, Sole
<1>1. /\ db \in [Place -> -1..MaxVersion] /\ held \in [Root -> Place \cup {None}]
      /\ ident \in [Root -> Id \cup {None}] /\ newest \in [Root -> 0..MaxVersion]
      /\ there \subseteq Root
      /\ pc # "idle" => job \in Job /\ job.root \in Root /\ job.from \in Place /\ job.to \in Place
  BY DEF Shape, Typed, TypeOK, Job
<1>2. "clone" \notin plan /\ "gc" \notin plan /\ "race" \notin plan /\ "fork" \notin plan /\ Attending
  BY DEF Sole, Attending, Spared
<1>3. KeepsNewest /\ HeldResolved /\ SourceNewest /\ CopyWhole
  BY DEF KeptInv
<1> USE <1>1
<1>4. ASSUME NEW r \in Root, NEW restore \in BOOLEAN, Start(r, restore) PROVE KeptInv'
  <2> DEFINE from == IF restore THEN ident[r] ELSE r
             to == IF restore THEN r ELSE ident[r]
  <2>1. /\ pc' = "probe" /\ job'.root = r /\ job'.from = from
        /\ db[to] = Absent /\ r \in there
        /\ UNCHANGED <<there, ident, db, held, newest>>
    BY <1>2, <1>4 DEF Start, Goes, files
  <2>2. Kept(r)
    BY <1>3, <2>1 DEF KeepsNewest
  <2>3. newest[r] = 0 \/ db[from] = newest[r]
    BY <2>1, <2>2 DEF Kept, Absent
  <2> QED
    BY <1>3, <2>1, <2>3
       DEF KeptInv, KeepsNewest, HeldResolved, SourceNewest, CopyWhole, Kept, Resolved
<1>5. CASE Steps
  BY <1>5, KeptMigration
<1>6. CASE PlanGc \/ \E i \in Id : RemoveState(i)
  BY <1>2, <1>6 DEF PlanGc, RemoveState, Shape, Doomed
<1>7. ASSUME NEW r \in Root, Open(r) PROVE KeptInv'
  <2>1. CASE db[Resolved(r)] # Absent
    BY <1>3, <1>7, <2>1 DEF Open, KeptInv, KeepsNewest, HeldResolved, SourceNewest, CopyWhole,
                            Kept, Resolved
  <2>2. CASE db[Resolved(r)] = Absent
    <3>1. /\ pc = "idle" /\ r \in there
          /\ UNCHANGED <<there, ident, pc, job>>
          /\ newest' = Renewed(Resolved(r))
          /\ \A q \in Place : db'[q] = IF q = Resolved(r) THEN clock + 1 ELSE db[q]
          /\ \A s \in Root : held'[s] = IF s = r THEN Resolved(r) ELSE held[s]
      BY <1>2, <1>7, <2>2 DEF Open
    <3> QED BY <3>1, KeptWrite
  <2> QED BY <2>1, <2>2
<1>8. ASSUME NEW r \in Root, Write(r) PROVE KeptInv'
  <2>1. held[r] # None /\ r \notin gone /\ held[r] = Resolved(r) /\ r \in there
    BY <1>2, <1>3, <1>8 DEF Write, Attached, HeldResolved, Shape, Working
  <2>2. /\ UNCHANGED <<there, ident, pc, job>>
        /\ newest' = Renewed(Resolved(r))
        /\ \A q \in Place : db'[q] = IF q = Resolved(r) THEN clock + 1 ELSE db[q]
        /\ \A s \in Root : held'[s] = IF s = r THEN Resolved(r) ELSE held[s]
    BY <1>8, <2>1 DEF Write
  <2>3. ASSUME pc # "idle", job.root = r PROVE pc = "probe" /\ Resolved(r) = job.from
    <3>1. held[r] \in {job.from, job.to}
      BY <2>1, <2>3 DEF Shape, Working, Moving, Between
    <3>2. pc = "probe" /\ held[r] # job.to
      BY <1>2, <2>1, <2>3, <3>1 DEF Attached
    <3> QED BY <2>1, <3>1, <3>2
  <2> QED BY <2>1, <2>2, <2>3, KeptWrite
<1>9. ASSUME NEW r \in Root, NoteVersion(r) \/ Close(r) PROVE KeptInv'
  <2>1. /\ \A s \in Root : held'[s] \in {None, held[s]}
        /\ UNCHANGED <<db, there, ident, newest, pc, job>>
    BY <1>9 DEF NoteVersion, Close, users, files
  <2> QED BY <1>3, <2>1 DEF KeptInv, KeepsNewest, HeldResolved, SourceNewest, CopyWhole,
                           Kept, Resolved
<1>10. ASSUME NEW r \in Root, Forget(r) PROVE KeptInv'
  BY <1>2, <1>10 DEF Forget
<1>11. ASSUME NEW r \in Root, DeleteRoot(r) PROVE KeptInv'
  <2>1. /\ \A p \in Place : db'[p] = IF p = r THEN Absent ELSE db[p]
        /\ \A s \in Root : s # r => ident'[s] = ident[s] /\ newest'[s] = newest[s]
        /\ there' = there \ {r} /\ held[r] = None
        /\ UNCHANGED <<held, pc, job>>
        /\ pc # "idle" => job.root # r
    BY <1>11 DEF DeleteRoot, Quiet
  <2>2. \A s \in Root : s # r => Resolved(s)' = Resolved(s) /\ (Kept(s) => Kept(s)')
    BY <1>2, <2>1, OthersKeep
  <2>3. pc # "idle" => job.from # r /\ job.to # r
    BY <2>1, TreeOfRoot, Places DEF Shape, Moving, Between
  <2>4. KeepsNewest' /\ HeldResolved'
    BY <1>3, <2>1, <2>2 DEF KeepsNewest, HeldResolved
  <2>5. SourceNewest' /\ CopyWhole'
    BY <1>3, <2>1, <2>3 DEF SourceNewest, CopyWhole
  <2> QED BY <2>4, <2>5 DEF KeptInv
<1>12. ASSUME NEW r \in Root, NEW i \in Id, Adopt(r, i) PROVE KeptInv'
  <2>1. /\ ident[r] = None /\ held[r] = None /\ db[i] = Absent
        /\ \A s \in Root : s # r => ident'[s] = ident[s]
        /\ UNCHANGED <<db, there, held, newest, pc, job>>
        /\ pc # "idle" => job.root # r
    BY <1>12 DEF Adopt, Quiet, files
  <2>2. Kept(r) => Kept(r)'
    BY <2>1 DEF Kept
  <2> QED BY <1>3, <2>1, <2>2 DEF KeptInv, KeepsNewest, HeldResolved, SourceNewest, CopyWhole,
                                  Kept, Resolved
<1>13. ASSUME NEW r \in Root, NEW s \in Root, Rename(r, s) PROVE KeptInv'
  <2>1. /\ \A p \in Place : p \notin {r, s} => db'[p] = db[p]
        /\ db'[s] = db[r] /\ ident'[s] = ident[r] /\ newest'[s] = newest[r]
        /\ \A q \in Root : q \notin {r, s} => ident'[q] = ident[q] /\ newest'[q] = newest[q]
        /\ there' = (there \ {r}) \cup {s} /\ r \in there /\ s \notin there
        /\ held[r] = None
        /\ UNCHANGED <<held, pc, job>>
        /\ pc # "idle" => job.root # r
    BY <1>13, Places DEF Rename, Quiet
  <2>2. held[s] = None /\ (pc # "idle" => job.root # s)
    BY <2>1 DEF Shape, Working, Moving, Between
  <2>3. pc # "idle" => job.from \notin {r, s} /\ job.to \notin {r, s}
    BY <2>1, <2>2, TreeOfRoot, Places DEF Shape, Moving, Between
  <2>4. \A q \in Root : q \notin {r, s} => Resolved(q)' = Resolved(q) /\ (Kept(q) => Kept(q)')
    <3> SUFFICES ASSUME NEW q \in Root, q \notin {r, s}
                 PROVE  Resolved(q)' = Resolved(q) /\ (Kept(q) => Kept(q)')
      OBVIOUS
    <3>1. db'[q] = db[q] /\ (ident[q] # None => db'[ident[q]] = db[ident[q]])
      BY <2>1, Places
    <3> QED BY <2>1, <3>1 DEF Resolved, Kept
  <2>5. Kept(r) => Kept(s)'
    <3>1. ident[r] # None => db'[ident[r]] = db[ident[r]]
      BY <2>1, Places
    <3> QED BY <2>1, <3>1 DEF Kept
  <2>6. KeepsNewest' /\ HeldResolved'
    BY <1>3, <2>1, <2>2, <2>4, <2>5 DEF KeepsNewest, HeldResolved
  <2>7. SourceNewest' /\ CopyWhole'
    BY <1>3, <2>1, <2>2, <2>3 DEF SourceNewest, CopyWhole
  <2> QED BY <2>6, <2>7 DEF KeptInv
<1>14. ASSUME NEW r \in Root, NEW s \in Root, Clone(r, s) PROVE KeptInv'
  BY <1>2, <1>14 DEF Clone
<1>15. CASE UNCHANGED vars
  BY <1>3, <1>15 DEF vars, users, files, KeptInv, KeepsNewest, HeldResolved, SourceNewest,
                     CopyWhole, Kept, Resolved
<1> QED
  BY <1>4, <1>5, <1>6, <1>7, <1>8, <1>9, <1>10, <1>11, <1>12, <1>13, <1>14, <1>15
     DEF Next, Migration, Users, Steps

\* Whatever fails or is killed, the version a graph was last given lies whole
\* in the tree of its checkout or in its state directory.
THEOREM NewestIsKept == Spec => []NewestKept
<1>1. Init => KeptInv
  BY DEF Init, KeptInv, KeepsNewest, HeldResolved, SourceNewest, CopyWhole, Kept
<1>2. Shape /\ Attached /\ KeptInv /\ [Next]_vars => KeptInv'
  BY KeptStep
<1>3. KeptInv => NewestKept
  BY DEF KeptInv, KeepsNewest, Kept, Sole, NewestKept, Excluded
<1> QED BY <1>1, <1>2, <1>3, AlwaysShape, AlwaysAttached, PTL DEF Spec

-----------------------------------------------------------------------------
(***************************************************************************)
(* What is served.                                                         *)
(***************************************************************************)
Settled == {"race", "fork", "crash", "clone", "rename"} \cap plan = {}

Serves(r) == db[Resolved(r)] = newest[r]

ServesNewest == \A r \in there : (pc = "idle" \/ job.root # r) => Serves(r)
SourceServes == pc \in {"probe", "copy", "copying", "verify", "side", "unlink"} =>
                  db[job.from] = newest[job.root] /\ db[job.from] # Absent
TargetFree == pc \in {"probe", "copy"} => db[job.to] = Absent
TargetServes == pc = "unlinkSide" =>
                  /\ db[job.from] = Absent /\ db[job.to] # Absent
                  /\ db[job.to] = newest[job.root]

\* A checkout without a migration resolves to its newest version; a migration
\* has it at its source until that is removed, and at its destination then.
ServedInv == Settled =>
  /\ ServesNewest /\ HeldResolved /\ SourceServes /\ TargetFree /\ CopyWhole /\ TargetServes

LEMMA OthersServed ==
  ASSUME Shape, "clone" \notin plan, NEW r \in Root, NEW s \in Root, r # s,
         \A p \in Place : p \notin {r, ident[r]} => db'[p] = db[p],
         ident'[s] = ident[s]
  PROVE  /\ Resolved(s)' = Resolved(s) /\ db'[Resolved(s)] = db[Resolved(s)]
         /\ newest'[s] = newest[s] /\ Serves(s) => Serves(s)'
<1>1. /\ Resolved(s)' = Resolved(s) /\ Resolved(s) # r
      /\ ident[r] # None => Resolved(s) # ident[r]
  BY OthersKeep
<1>2. Resolved(s) \in Place /\ Resolved(s) # None
  BY Places, StateAssumption
<1>3. db'[Resolved(s)] = db[Resolved(s)]
  BY <1>1, <1>2
<1> QED BY <1>1, <1>3 DEF Serves

LEMMA ServedMigration ==
  ASSUME Shape, Attached, ServedInv, Settled, Steps
  PROVE  ServedInv'
<1>1. /\ pc # "idle" /\ job \in Job
      /\ job'.root = job.root /\ job'.from = job.from /\ job'.to = job.to
      /\ UNCHANGED <<plan, there, ident, held, newest, clock, doomed>>
  BY JobStays DEF Shape
<1> DEFINE r == job.root
<1>2. /\ r \in Root /\ r \in there /\ ident[r] # None /\ r # ident[r]
      /\ job.from \in Place /\ job.to \in Place /\ job.from # job.to
      /\ \/ job.from = r /\ job.to = ident[r]
         \/ job.from = ident[r] /\ job.to = r
      /\ Between(r, job.from, job.to)
  BY <1>1, Places DEF Shape, Moving, Between, Job
<1>3. db \in [Place -> -1..MaxVersion] /\ there \subseteq Root
  BY DEF Shape, Typed, TypeOK
<1>4. "clone" \notin plan /\ Attending /\ "crash" \notin plan
  BY DEF Settled, Attending, Spared, Records
<1>5. \A p \in Place : p \notin {r, ident[r]} => db'[p] = db[p]
  BY <1>2, <1>3 DEF Steps, Probe, Copy, Copied, Verify, CopySide, Unlink, UnlinkSide, Crash,
                    Remove, files
<1>6. \A s \in Root : s # r => Resolved(s)' = Resolved(s) /\ (Serves(s) => Serves(s)')
  BY <1>1, <1>2, <1>4, <1>5, OthersServed
<1>7. HeldResolved'
  <2>1. CASE pc = "probe"
    <3>1. db' = db
      BY <2>1 DEF Steps, Probe, Copy, Copied, Verify, CopySide, Unlink, UnlinkSide, Crash, files
    <3> QED BY <1>1, <3>1 DEF ServedInv, HeldResolved, Resolved
  <2>2. CASE pc # "probe"
    <3>1. held[r] = None
      BY <1>1, <1>2, <1>4, <2>2 DEF Attached, Shape, Working
    <3> QED BY <1>1, <1>6, <3>1 DEF ServedInv, HeldResolved
  <2> QED BY <2>1, <2>2
<1>8. ASSUME db'[job.to] = Absent, db'[job.from] # Absent, db'[job.from] = newest[r]
      PROVE  Serves(r)'
  <2>1. Resolved(r)' = job.from
    BY <1>1, <1>2, <1>8 DEF Resolved
  <2> QED BY <1>1, <1>8, <2>1 DEF Serves
<1>9. ASSUME db'[job.from] = Absent, db'[job.to] # Absent, db'[job.to] = newest[r]
      PROVE  Serves(r)'
  <2>1. Resolved(r)' = job.to
    BY <1>1, <1>2, <1>9 DEF Resolved
  <2> QED BY <1>1, <1>9, <2>1 DEF Serves
<1>10. ASSUME db'[job.from] = newest[r], db'[job.to] = newest[r] PROVE Serves(r)'
  BY <1>1, <1>2, <1>10 DEF Resolved, Serves
<1> DEFINE Ends == (SourceServes /\ TargetFree /\ CopyWhole /\ TargetServes)'
<1>11. Ends /\ (pc' = "idle" => Serves(r)')
  <2> USE <1>1, <1>2, <1>3
      DEF ServedInv, SourceServes, TargetFree, CopyWhole, TargetServes, Goes
  <2>1. CASE Probe
    BY <2>1, <1>8 DEF Probe, files
  <2>2. CASE Copy
    BY <2>2 DEF Copy
  <2>3. CASE Copied
    <3>1. /\ db'[job.from] = db[job.from]
          /\ pc' = "verify" \/ (pc' = "idle" /\ db'[job.to] = Absent)
      BY <2>3 DEF Copied, Remove
    <3> QED BY <2>3, <1>8, <3>1 DEF Copied
  <2>4. CASE Verify
    <3>1. db'[job.from] = db[job.from]
      BY <2>4 DEF Verify, Remove
    <3>2. \/ pc' = "idle" /\ db'[job.to] = Absent
          \/ pc' \in {"side", "unlink"} /\ db'[job.to] = db'[job.from]
      BY <2>4 DEF Verify, Remove
    <3> QED BY <2>4, <1>8, <3>1, <3>2 DEF Verify
  <2>5. CASE CopySide
    BY <2>5, <1>10 DEF CopySide
  <2>6. CASE Unlink
    <3>1. /\ db'[job.to] = db[job.to] /\ db'[job.from] = Absent
          /\ pc' \in {"idle", "unlinkSide"}
      BY <2>6 DEF Unlink, Remove
    <3>2. db[job.to] # Absent /\ db[job.to] = newest[r]
      BY <2>6 DEF Unlink
    <3> QED BY <1>9, <3>1, <3>2
  <2>7. CASE UnlinkSide
    BY <2>7, <1>9 DEF UnlinkSide
  <2>8. CASE Crash
    BY <1>4, <2>8 DEF Crash
  <2> QED BY <2>1, <2>2, <2>3, <2>4, <2>5, <2>6, <2>7, <2>8 DEF Steps
<1>12. ServesNewest'
  BY <1>1, <1>3, <1>6, <1>11 DEF ServedInv, ServesNewest
<1> QED BY <1>7, <1>11, <1>12 DEF ServedInv

LEMMA ServedWrite ==
  ASSUME Shape, ServedInv, Settled, NEW r \in Root, r \in there,
         NEW p, p = Resolved(r),
         UNCHANGED <<there, ident, pc, job>>,
         \A q \in Place : db'[q] = IF q = p THEN clock + 1 ELSE db[q],
         \A s \in Root : held'[s] = IF s = r THEN p ELSE held[s],
         newest' = Renewed(p),
         pc # "idle" /\ job.root = r => pc = "probe" /\ p = job.from
  PROVE  ServedInv'
<1>1. "clone" \notin plan
  BY DEF Settled
<1>2. p \in Place /\ p \in {r, ident[r]} /\ r \in Place /\ r # None /\ p # None
  BY Places, StateAssumption
<1>3. /\ there \subseteq Root /\ clock + 1 # Absent /\ clock \in Nat
      /\ newest \in [Root -> 0..MaxVersion]
  BY StateAssumption DEF Shape, Typed, TypeOK, Absent
<1>4. \A s \in Root : s # r => /\ Resolved(s)' = Resolved(s) /\ newest'[s] = newest[s]
                               /\ (Serves(s) => Serves(s)')
  <2> SUFFICES ASSUME NEW s \in Root, s # r
               PROVE  /\ Resolved(s)' = Resolved(s) /\ newest'[s] = newest[s]
                      /\ (Serves(s) => Serves(s)')
    OBVIOUS
  <2>1. /\ ident[r] # None => Resolved(s) # ident[r]
        /\ Resolved(s) # r
    BY <1>1, <1>2, OthersKeep
  <2>2. newest'[s] = newest[s]
    BY <1>2, <2>1 DEF Renewed
  <2> QED BY <1>1, <1>2, <2>2, OthersServed
<1>5. newest'[r] = clock + 1 /\ db'[p] = clock + 1
  BY <1>2 DEF Renewed
<1>6. Resolved(r)' = p
  BY <1>2, <1>3, Places DEF Resolved
<1>7. ServesNewest' /\ HeldResolved'
  BY <1>3, <1>4, <1>5, <1>6 DEF ServedInv, ServesNewest, HeldResolved, Serves
<1>8. (SourceServes /\ TargetFree /\ CopyWhole /\ TargetServes)'
  <2> USE DEF SourceServes, TargetFree, CopyWhole, TargetServes
  <2>1. CASE pc = "idle"
    BY <2>1
  <2>2. CASE pc # "idle" /\ job.root = r
    <3>1. job.to \in Place /\ job.to # job.from
      BY <2>2, Places DEF Shape, Typed, Job, Moving, Between
    <3> QED BY <1>3, <1>5, <2>2, <3>1 DEF ServedInv
  <2>3. CASE pc # "idle" /\ job.root # r
    <3>1. job.root \in Root /\ job.from \in Place /\ job.to \in Place
      BY <2>3 DEF Shape, Typed, Job
    <3>2. p \notin {job.root, ident[job.root]}
      BY <1>1, <1>2, <2>3, <3>1, Places DEF Shape, Distinct, Moving, Between
    <3>3. db'[job.from] = db[job.from] /\ db'[job.to] = db[job.to]
      BY <2>3, <3>1, <3>2 DEF Shape, Moving, Between
    <3> QED BY <1>4, <2>3, <3>1, <3>3 DEF ServedInv
  <2> QED BY <2>1, <2>2, <2>3
<1> QED BY <1>7, <1>8 DEF ServedInv

\* What somebody does with one checkout at which there is no migration leaves
\* the others as they are.
LEMMA ServedElsewhere ==
  ASSUME Shape, ServedInv, Settled, NEW r \in Root,
         pc # "idle" => job.root # r, UNCHANGED <<pc, job>>,
         \A p \in Place : p # r => db'[p] = db[p],
         \A s \in Root : s # r => /\ ident'[s] = ident[s] /\ newest'[s] = newest[s]
                                  /\ held'[s] = held[s],
         held'[r] = None, there' \subseteq there, r \in there' => Serves(r)'
  PROVE  ServedInv'
<1>1. "clone" \notin plan /\ there \subseteq Root
  BY DEF Settled, Shape, Typed, TypeOK
<1>2. \A s \in Root : s # r => Resolved(s)' = Resolved(s) /\ (Serves(s) => Serves(s)')
  BY <1>1, OthersServed
<1>3. ServesNewest' /\ HeldResolved'
  BY <1>1, <1>2 DEF ServedInv, ServesNewest, HeldResolved
<1>4. pc # "idle" => /\ job.root \in Root /\ job.root # r
                     /\ db'[job.from] = db[job.from] /\ db'[job.to] = db[job.to]
  <2>1. pc # "idle" => /\ job.root \in Root /\ job.from \in Place /\ job.to \in Place
    BY DEF Shape, Typed, Job
  <2> QED BY <2>1, TreeOfRoot, Places DEF Shape, Moving, Between
<1>5. (SourceServes /\ TargetFree /\ CopyWhole /\ TargetServes)'
  BY <1>4 DEF ServedInv, SourceServes, TargetFree, CopyWhole, TargetServes
<1> QED BY <1>3, <1>5 DEF ServedInv

LEMMA ServedStep ==
  ASSUME Shape, Owned, Attached, Whole, ServedInv, [Next]_vars
  PROVE  ServedInv'
<1>0. plan' = plan
  BY PlanRigid
<1> SUFFICES ASSUME Settled PROVE ServedInv'
  BY <1>0 DEF ServedInv, Settled
<1>1. /\ db \in [Place -> -1..MaxVersion] /\ held \in [Root -> Place \cup {None}]
      /\ ident \in [Root -> Id \cup {None}] /\ newest \in [Root -> 0..MaxVersion]
      /\ there \subseteq Root
      /\ pc # "idle" => job \in Job /\ job.root \in Root /\ job.from \in Place /\ job.to \in Place
  BY DEF Shape, Typed, TypeOK, Job
<1>2. /\ "clone" \notin plan /\ "rename" \notin plan /\ "race" \notin plan
      /\ "fork" \notin plan /\ Attending /\ Watching /\ Spared
  BY DEF Settled, Attending, Watching, Spared, Records
<1>3. ServesNewest /\ HeldResolved /\ SourceServes /\ TargetFree /\ CopyWhole /\ TargetServes
  BY DEF ServedInv
<1> USE <1>1
<1> DEFINE Same == ServedInv /\ UNCHANGED <<db, there, ident, newest, pc, job>>
                     /\ (\A s \in Root : held'[s] \in {None, held[s], Resolved(s)})
<1>4. Same => ServedInv'
  BY DEF ServedInv, ServesNewest, HeldResolved, SourceServes, TargetFree, CopyWhole,
         TargetServes, Serves, Resolved
<1>5. ASSUME NEW r \in Root, NEW restore \in BOOLEAN, Start(r, restore) PROVE ServedInv'
  <2> DEFINE from == IF restore THEN ident[r] ELSE r
             to == IF restore THEN r ELSE ident[r]
  <2>1. /\ pc = "idle" /\ pc' = "probe" /\ job'.root = r /\ job'.from = from /\ job'.to = to
        /\ db[to] = Absent /\ db[from] # Absent /\ r \in there /\ ident[r] # None
        /\ UNCHANGED <<there, ident, db, held, newest>>
    BY <1>2, <1>5 DEF Start, Goes, files
  <2>2. Resolved(r) = from
    BY <2>1, Places DEF Resolved
  <2>3. db[from] = newest[r]
    BY <1>3, <2>1, <2>2 DEF ServesNewest, Serves
  <2> QED
    BY <1>3, <2>1, <2>3
       DEF ServedInv, ServesNewest, HeldResolved, SourceServes, TargetFree, CopyWhole,
           TargetServes, Serves, Resolved
<1>6. CASE Steps
  BY <1>6, ServedMigration
<1>7. CASE PlanGc
  BY <1>4, <1>7 DEF PlanGc, users, files
<1>8. ASSUME NEW i \in Id, RemoveState(i) PROVE ServedInv'
  <2>1. \A r \in Root : ident[r] # i
    BY <1>2, <1>8, SparedRemoval
  <2>2. /\ \A p \in Place : p # i => db'[p] = db[p]
        /\ UNCHANGED <<there, ident, held, newest, pc, job>>
    BY <1>8 DEF RemoveState, Remove
  <2>3. \A r \in Root : /\ Resolved(r)' = Resolved(r)
                        /\ db'[Resolved(r)] = db[Resolved(r)]
                        /\ db'[r] = db[r] /\ (ident[r] # None => db'[ident[r]] = db[ident[r]])
    <3>1. \A r \in Root : /\ r \in Place \ {i} /\ (ident[r] # None => ident[r] \in Place \ {i})
                          /\ Resolved(r) \in Place \ {i}
      BY <2>1, Places
    <3> QED BY <2>2, <3>1 DEF Resolved
  <2>4. pc # "idle" => db'[job.from] = db[job.from] /\ db'[job.to] = db[job.to]
    BY <2>3 DEF Shape, Moving, Between
  <2>5. ServesNewest' /\ HeldResolved'
    BY <1>3, <2>2, <2>3 DEF ServesNewest, HeldResolved, Serves
  <2>6. (SourceServes /\ TargetFree /\ CopyWhole /\ TargetServes)'
    BY <1>3, <2>2, <2>4 DEF SourceServes, TargetFree, CopyWhole, TargetServes
  <2> QED BY <2>5, <2>6 DEF ServedInv
<1>9. ASSUME NEW r \in Root, Open(r) PROVE ServedInv'
  <2>1. CASE db[Resolved(r)] # Absent
    BY <1>4, <1>9, <2>1 DEF Open
  <2>2. CASE db[Resolved(r)] = Absent
    <3>1. /\ pc = "idle" /\ r \in there
          /\ UNCHANGED <<there, ident, pc, job>>
          /\ newest' = Renewed(Resolved(r))
          /\ \A q \in Place : db'[q] = IF q = Resolved(r) THEN clock + 1 ELSE db[q]
          /\ \A s \in Root : held'[s] = IF s = r THEN Resolved(r) ELSE held[s]
      BY <1>2, <1>9, <2>2 DEF Open
    <3> QED BY <3>1, ServedWrite
  <2> QED BY <2>1, <2>2
<1>10. ASSUME NEW r \in Root, Write(r) PROVE ServedInv'
  <2>1. held[r] # None /\ r \notin gone /\ held[r] = Resolved(r) /\ r \in there
    BY <1>2, <1>3, <1>10 DEF Write, Attached, HeldResolved, Shape, Working
  <2>2. /\ UNCHANGED <<there, ident, pc, job>>
        /\ newest' = Renewed(Resolved(r))
        /\ \A q \in Place : db'[q] = IF q = Resolved(r) THEN clock + 1 ELSE db[q]
        /\ \A s \in Root : held'[s] = IF s = r THEN Resolved(r) ELSE held[s]
    BY <1>10, <2>1 DEF Write
  <2>3. ASSUME pc # "idle", job.root = r PROVE pc = "probe" /\ Resolved(r) = job.from
    <3>1. held[r] \in {job.from, job.to}
      BY <2>1, <2>3 DEF Shape, Working, Moving, Between
    <3>2. pc = "probe" /\ held[r] # job.to
      BY <1>2, <2>1, <2>3, <3>1 DEF Attached
    <3> QED BY <2>1, <3>1, <3>2
  <2> QED BY <2>1, <2>2, <2>3, ServedWrite
<1>11. ASSUME NEW r \in Root, NoteVersion(r) \/ Close(r) PROVE ServedInv'
  BY <1>4, <1>11 DEF NoteVersion, Close, users, files
<1>12. ASSUME NEW r \in Root, Forget(r) PROVE ServedInv'
  <2>1. /\ UNCHANGED <<db, there, held, pc, job>> /\ held[r] = None
        /\ pc # "idle" => job.root # r
        /\ ident'[r] = None /\ newest'[r] = IF db[r] = Torn THEN Absent ELSE db[r]
        /\ \A s \in Root : s # r => ident'[s] = ident[s] /\ newest'[s] = newest[s]
    BY <1>12 DEF Forget, Quiet, files
  <2>2. db[r] # Torn
    BY <1>2, <2>1, TreeOfRoot, Places DEF Whole, TornMoving, Shape, Moving, Between
  <2>3. Serves(r)'
    BY <2>1, <2>2 DEF Serves, Resolved
  <2> QED BY <2>1, <2>3, ServedElsewhere
<1>13. ASSUME NEW r \in Root, DeleteRoot(r) PROVE ServedInv'
  <2>1. /\ \A p \in Place : p # r => db'[p] = db[p]
        /\ \A s \in Root : s # r => ident'[s] = ident[s] /\ newest'[s] = newest[s]
        /\ there' = there \ {r} /\ held[r] = None
        /\ UNCHANGED <<held, pc, job>>
        /\ pc # "idle" => job.root # r
    BY <1>13 DEF DeleteRoot, Quiet
  <2> QED BY <2>1, ServedElsewhere
<1>14. ASSUME NEW r \in Root, NEW i \in Id, Adopt(r, i) PROVE ServedInv'
  <2>1. /\ ident[r] = None /\ held[r] = None /\ db[i] = Absent /\ r \in there
        /\ ident'[r] = i
        /\ \A s \in Root : s # r => ident'[s] = ident[s]
        /\ UNCHANGED <<db, there, held, newest, pc, job>>
        /\ pc # "idle" => job.root # r
    BY <1>14 DEF Adopt, Quiet, files
  <2>2. db[r] = newest[r]
    BY <1>3, <2>1 DEF ServesNewest, Serves, Resolved
  <2>3. Serves(r)'
    BY <2>1, <2>2 DEF Serves, Resolved
  <2> QED BY <2>1, <2>3, ServedElsewhere
<1>15. ASSUME NEW r \in Root, NEW s \in Root, Rename(r, s) \/ Clone(r, s) PROVE ServedInv'
  BY <1>2, <1>15 DEF Rename, Clone
<1>16. CASE UNCHANGED vars
  BY <1>4, <1>16 DEF vars, users, files
<1> QED
  BY <1>5, <1>6, <1>7, <1>8, <1>9, <1>10, <1>11, <1>12, <1>13, <1>14, <1>15, <1>16
     DEF Next, Migration, Users, Steps

LEMMA AlwaysServed == Spec => []ServedInv
<1>1. Init => ServedInv
  BY DEF Init, ServedInv, ServesNewest, HeldResolved, SourceServes, TargetFree, CopyWhole,
         TargetServes, Serves, Resolved, Absent, Place
<1>2. Shape /\ Owned /\ Attached /\ Whole /\ ServedInv /\ [Next]_vars => ServedInv'
  BY ServedStep
<1> QED
  BY <1>1, <1>2, AlwaysShape, AlwaysOwned, AlwaysAttached, AlwaysWhole, PTL DEF Spec

\* A migration that is not killed, whether it succeeds, refuses or fails, and gc
\* leave each checkout with the graph that was last written for it.
THEOREM NewestIsServed == Spec => []ServedNewest
<1>1. ServedInv => ServedNewest
  BY DEF ServedInv, ServesNewest, Serves, Settled, ServedNewest, Excluded, Quiet
<1> QED BY <1>1, AlwaysServed, PTL

-----------------------------------------------------------------------------
(***************************************************************************)
(* The sidecar.                                                            *)
(***************************************************************************)
\* No version is one that is still to come.
Dated ==
  /\ \A p \in Place : db[p] <= clock /\ side[p] <= clock
  /\ \A r \in Root : newest[r] <= clock
  /\ pc # "idle" => job.snap <= clock

LEMMA DatedStep ==
  ASSUME Shape, Dated, [Next]_vars
  PROVE  Dated'
<1>1. /\ db \in [Place -> -1..MaxVersion] /\ side \in [Place -> -1..MaxVersion]
      /\ newest \in [Root -> 0..MaxVersion] /\ clock \in Nat
      /\ pc # "idle" => job \in Job
  BY StateAssumption DEF Shape, Typed, TypeOK
<1> USE <1>1 DEF Dated, Absent, Torn
<1>2. ASSUME NEW r \in Root, NEW restore \in BOOLEAN, Start(r, restore) PROVE Dated'
  BY <1>2 DEF Start, Goes, files
<1>3. CASE Probe
  BY <1>3 DEF Probe, Goes, files, Job
<1>4. CASE Copy
  BY <1>4 DEF Copy, Remove, Goes, Job
<1>5. CASE Copied \/ Verify
  BY <1>5 DEF Copied, Verify, Remove, Goes, Job
<1>6. CASE CopySide \/ Unlink \/ UnlinkSide \/ Crash
  BY <1>6 DEF CopySide, Unlink, UnlinkSide, Crash, Remove, Goes, files, Job
<1>7. CASE PlanGc \/ \E i \in Id : RemoveState(i)
  BY <1>7 DEF PlanGc, RemoveState, Remove, users, files
<1>8. ASSUME NEW r \in Root, Open(r) \/ Write(r) PROVE Dated'
  <2>1. /\ clock' \in {clock, clock + 1}
        /\ \A p \in Place : db'[p] \in {db[p], clock'}
        /\ \A s \in Root : newest'[s] \in {newest[s], clock'}
        /\ UNCHANGED <<side, pc, job>>
    BY <1>8 DEF Open, Write, Renewed
  <2>2. /\ \A p \in Place : db'[p] <= clock' /\ side'[p] <= clock'
        /\ \A s \in Root : newest'[s] <= clock'
    BY <2>1
  <2>3. pc' # "idle" => job'.snap <= clock'
    BY <2>1 DEF Job
  <2> QED BY <2>2, <2>3
<1>9. ASSUME NEW r \in Root, NoteVersion(r) PROVE Dated'
  <2>1. held[r] \in Place
    BY <1>9 DEF NoteVersion, Shape, Typed, TypeOK
  <2>2. PICK v : v = IF r \in gone THEN newest[r] ELSE db[held[r]]
    OBVIOUS
  <2>3. v <= clock
    BY <2>1, <2>2
  <2>4. /\ \A p \in Place : side'[p] \in {side[p], v}
        /\ UNCHANGED <<db, newest, clock, pc, job>>
    BY <1>9, <2>2 DEF NoteVersion, users
  <2> QED BY <2>3, <2>4
<1>10. ASSUME NEW r \in Root, Close(r) \/ Forget(r) \/ DeleteRoot(r) PROVE Dated'
  BY <1>10, Places DEF Close, Forget, DeleteRoot, files
<1>11. ASSUME NEW r \in Root, NEW i \in Id, Adopt(r, i) PROVE Dated'
  BY <1>11 DEF Adopt, files
<1>12. ASSUME NEW r \in Root, NEW s \in Root, Rename(r, s) \/ Clone(r, s) PROVE Dated'
  BY <1>12, Places DEF Rename, Clone, files
<1>13. CASE UNCHANGED vars
  BY <1>13 DEF vars, users, files
<1> QED
  BY <1>2, <1>3, <1>4, <1>5, <1>6, <1>7, <1>8, <1>9, <1>10, <1>11, <1>12, <1>13
     DEF Next, Migration, Users

LEMMA AlwaysDated == Spec => []Dated
<1>1. Init => Dated
  BY DEF Init, Dated, Absent
<1>2. Shape /\ Dated /\ [Next]_vars => Dated'
  BY DatedStep
<1> QED BY <1>1, <1>2, AlwaysShape, PTL DEF Spec

-----------------------------------------------------------------------------
(***************************************************************************)
(* The refinement of CheckoutGraph.                                        *)
(***************************************************************************)
Old(r) == db[r] <= newest[r] /\ (ident[r] # None => db[ident[r]] <= newest[r])

\* What lies at a place of a checkout is no newer than what was last written
\* there, so that to fall back to it is to go back.
Older == Settled =>
  /\ \A r \in there : Old(r)
  /\ pc = "copying" => job.snap <= newest[job.root]

LEMMA OldMigration ==
  ASSUME Shape, Older, Settled, Steps
  PROVE  Older'
<1>1. /\ pc # "idle" /\ job \in Job
      /\ job'.root = job.root /\ job'.from = job.from /\ job'.to = job.to
      /\ UNCHANGED <<plan, there, ident, held, newest, clock, doomed>>
  BY JobStays DEF Shape
<1> DEFINE r == job.root
<1>2. /\ r \in Root /\ r \in there /\ ident[r] # None
      /\ job.from \in Place /\ job.to \in Place
      /\ job.from \in {r, ident[r]} /\ job.to \in {r, ident[r]}
      /\ job.snap \in -1..MaxVersion
  BY <1>1 DEF Shape, Moving, Between, Job
<1>3. /\ db \in [Place -> -1..MaxVersion] /\ newest \in [Root -> 0..MaxVersion]
      /\ there \subseteq Root
  BY DEF Shape, Typed, TypeOK
<1>4. db[job.from] <= newest[r] /\ (pc = "copying" => job.snap <= newest[r])
  BY <1>2 DEF Older, Old
<1>5. \A p \in Place : /\ db'[p] \in Int
                       /\ \/ db'[p] <= db[p] \/ db'[p] <= 0
                          \/ p = job.to /\ db'[p] <= newest[r]
  <2> USE <1>2, <1>3, <1>4 DEF Absent, Torn, Remove
  <2>1. CASE Probe \/ Copy
    BY <2>1 DEF Probe, Copy, files
  <2>2. CASE Copied
    BY <2>2 DEF Copied
  <2>3. CASE Verify \/ CopySide \/ Unlink \/ UnlinkSide \/ Crash
    BY <2>3 DEF Verify, CopySide, Unlink, UnlinkSide, Crash, files
  <2> QED BY <2>1, <2>2, <2>3 DEF Steps
<1>6. \A s \in there : Old(s)'
  <2> SUFFICES ASSUME NEW s \in there PROVE Old(s)'
    OBVIOUS
  <2>1. s \in Place /\ (ident[s] # None => ident[s] \in Place) /\ newest[s] \in 0..MaxVersion
    BY <1>3, Places
  <2>2. s # r => job.to # s /\ (ident[s] # None => job.to # ident[s])
    BY <1>2, <1>3, Places DEF Shape, Distinct, Settled
  <2>3. Old(s)
    BY DEF Older
  <2>4. db'[s] <= newest[s]
    BY <1>3, <1>5, <2>1, <2>2, <2>3 DEF Old
  <2>5. ident[s] # None => db'[ident[s]] <= newest[s]
    BY <1>3, <1>5, <2>1, <2>2, <2>3 DEF Old
  <2> QED BY <1>1, <2>4, <2>5 DEF Old
<1>7. pc' = "copying" => job'.snap <= newest[r]
  <2>1. CASE Copy
    <3>1. pc' = "copying" => job' = [job EXCEPT !.snap = db[job.from]]
      BY <2>1 DEF Copy, Goes
    <3>2. job'.snap = db[job.from] \/ pc' # "copying"
      BY <1>1, <3>1 DEF Job
    <3> QED BY <1>4, <3>2
  <2>2. CASE ~Copy
    BY <2>2 DEF Steps, Probe, Copied, Verify, CopySide, Unlink, UnlinkSide, Crash, Goes
  <2> QED BY <2>1, <2>2
<1> QED BY <1>1, <1>6, <1>7 DEF Older

\* One process writes at the place of a checkout, and its version is the last.
LEMMA Written ==
  ASSUME Shape, Settled, NEW r \in Root, r \in there, newest' = Renewed(Resolved(r))
  PROVE  \A s \in there : newest'[s] = IF s = r THEN clock + 1 ELSE newest[s]
<1>1. there \subseteq Root /\ "clone" \notin plan
  BY DEF Shape, Typed, TypeOK, Settled
<1>2. ASSUME NEW s \in there, Resolved(s) = Resolved(r) PROVE s = r
  <2>1. s \in Root /\ Resolved(s) \in {s, ident[s]} /\ (ident[s] # None => ident[s] \notin Root)
    BY <1>1, Places
  <2>2. Resolved(r) \in {r, ident[r]} /\ (ident[r] # None => ident[r] \notin Root)
        /\ Resolved(r) # None /\ Resolved(s) # None
    BY <1>1, <1>2, Places, StateAssumption
  <2> QED BY <1>1, <1>2, <2>1, <2>2 DEF Shape, Distinct
<1> QED BY <1>1, <1>2 DEF Renewed

LEMMA OldWrite ==
  ASSUME Shape, Dated, Older, Settled, NEW r \in Root, r \in there,
         UNCHANGED <<there, ident, pc, job>>, newest' = Renewed(Resolved(r)),
         \A q \in Place : db'[q] = IF q = Resolved(r) THEN clock + 1 ELSE db[q]
  PROVE  Older'
<1>1. /\ db \in [Place -> -1..MaxVersion] /\ newest \in [Root -> 0..MaxVersion]
      /\ there \subseteq Root /\ clock \in Nat
  BY StateAssumption DEF Shape, Typed, TypeOK
<1>2. \A s \in there : newest'[s] = IF s = r THEN clock + 1 ELSE newest[s]
  BY Written
<1>3. \A s \in there : Old(s)'
  <2> SUFFICES ASSUME NEW s \in there PROVE Old(s)'
    OBVIOUS
  <2>1. /\ s \in Root /\ s \in Place /\ (ident[s] # None => ident[s] \in Place)
        /\ Resolved(r) \in {r, ident[r]} /\ Resolved(r) \in Place
    BY <1>1, Places
  <2>2. CASE s = r
    <3>1. \A q \in Place : db'[q] <= clock + 1
      BY <1>1 DEF Dated
    <3> QED BY <1>2, <2>1, <2>2, <3>1 DEF Old
  <2>3. CASE s # r
    <3>1. Resolved(r) # s /\ (ident[s] # None => Resolved(r) # ident[s])
      BY <2>1, <2>3, Places DEF Shape, Distinct, Settled
    <3>2. Old(s)
      BY DEF Older
    <3> QED BY <1>2, <2>1, <2>3, <3>1, <3>2 DEF Old
  <2> QED BY <2>2, <2>3
<1>4. pc = "copying" => job.snap <= newest'[job.root]
  <2> SUFFICES ASSUME pc = "copying" PROVE job.snap <= newest'[job.root]
    OBVIOUS
  <2>1. job.root \in there /\ job.snap \in -1..MaxVersion
    BY DEF Shape, Typed, Job, Moving, Between
  <2>2. job.snap <= newest[job.root] /\ job.snap <= clock
    BY DEF Older, Dated
  <2> QED BY <1>1, <1>2, <2>1, <2>2
<1> QED BY <1>3, <1>4 DEF Older

\* What somebody does with one checkout at which there is no migration.
LEMMA OldElsewhere ==
  ASSUME Shape, Older, Settled, NEW r \in Root,
         pc # "idle" => job.root # r, UNCHANGED <<pc, job>>,
         \A p \in Place : p # r => db'[p] = db[p],
         \A s \in Root : s # r => ident'[s] = ident[s] /\ newest'[s] = newest[s],
         there' \subseteq there, r \in there' => Old(r)'
  PROVE  Older'
<1>1. there \subseteq Root
  BY DEF Shape, Typed, TypeOK
<1>2. \A s \in there' : Old(s)'
  BY <1>1, Places DEF Older, Old
<1>3. pc = "copying" => newest'[job.root] = newest[job.root]
  BY DEF Shape, Typed, Job
<1> QED BY <1>2, <1>3 DEF Older

LEMMA OlderStep ==
  ASSUME Shape, Attached, Whole, ServedInv, Dated, Older, [Next]_vars
  PROVE  Older'
<1>0. plan' = plan
  BY PlanRigid
<1> SUFFICES ASSUME Settled PROVE Older'
  BY <1>0 DEF Older, Settled
<1>1. /\ db \in [Place -> -1..MaxVersion] /\ ident \in [Root -> Id \cup {None}]
      /\ newest \in [Root -> 0..MaxVersion] /\ there \subseteq Root
  BY DEF Shape, Typed, TypeOK
<1> USE <1>1
<1>2. /\ "clone" \notin plan /\ "rename" \notin plan /\ Attending
  BY DEF Settled, Attending, Spared, Records
<1> DEFINE Same == UNCHANGED <<there, ident, newest>> /\ (pc' = "copying" => pc' = pc /\ job' = job)
                     /\ (\A p \in Place : db'[p] \in {db[p], Absent})
<1>3. Same => Older'
  BY Places DEF Older, Old, Absent
<1>4. ASSUME NEW r \in Root, NEW restore \in BOOLEAN, Start(r, restore) PROVE Older'
  BY <1>3, <1>4 DEF Start, Goes, files
<1>5. CASE Steps
  BY <1>5, OldMigration
<1>6. CASE PlanGc \/ \E i \in Id : RemoveState(i)
  BY <1>3, <1>6 DEF PlanGc, RemoveState, Remove, users, files
<1>7. ASSUME NEW r \in Root, Open(r) PROVE Older'
  BY <1>3, <1>7, OldWrite DEF Open
<1>8. ASSUME NEW r \in Root, Write(r) PROVE Older'
  <2>1. held[r] # None /\ r \notin gone /\ held[r] = Resolved(r) /\ r \in there
    BY <1>2, <1>8 DEF Write, Attached, ServedInv, HeldResolved, Shape, Working
  <2> QED BY <1>8, <2>1, OldWrite DEF Write
<1>9. ASSUME NEW r \in Root, NoteVersion(r) \/ Close(r) PROVE Older'
  BY <1>3, <1>9 DEF NoteVersion, Close, users, files
<1>10. ASSUME NEW r \in Root, Forget(r) PROVE Older'
  <2>1. /\ UNCHANGED <<db, there, pc, job>>
        /\ pc # "idle" => job.root # r
        /\ ident'[r] = None /\ newest'[r] = IF db[r] = Torn THEN Absent ELSE db[r]
        /\ \A s \in Root : s # r => ident'[s] = ident[s] /\ newest'[s] = newest[s]
    BY <1>10 DEF Forget, Quiet, files
  <2>2. Old(r)'
    BY <2>1, Places DEF Old, Absent, Torn
  <2> QED BY <2>1, <2>2, OldElsewhere
<1>11. ASSUME NEW r \in Root, DeleteRoot(r) PROVE Older'
  <2>1. /\ \A p \in Place : p # r => db'[p] = db[p]
        /\ \A s \in Root : s # r => ident'[s] = ident[s] /\ newest'[s] = newest[s]
        /\ there' = there \ {r}
        /\ UNCHANGED <<pc, job>>
        /\ pc # "idle" => job.root # r
    BY <1>11 DEF DeleteRoot, Quiet
  <2> QED BY <2>1, OldElsewhere
<1>12. ASSUME NEW r \in Root, NEW i \in Id, Adopt(r, i) PROVE Older'
  <2>1. /\ db[i] = Absent /\ r \in there /\ ident'[r] = i
        /\ \A s \in Root : s # r => ident'[s] = ident[s]
        /\ UNCHANGED <<db, there, newest, pc, job>>
        /\ pc # "idle" => job.root # r
    BY <1>12 DEF Adopt, Quiet, files
  <2>2. Old(r)'
    BY <2>1 DEF Older, Old, Absent
  <2> QED BY <2>1, <2>2, OldElsewhere
<1>13. ASSUME NEW r \in Root, NEW s \in Root, Rename(r, s) \/ Clone(r, s) PROVE Older'
  BY <1>2, <1>13 DEF Rename, Clone
<1>14. CASE UNCHANGED vars
  BY <1>3, <1>14 DEF vars, users, files
<1> QED
  BY <1>4, <1>5, <1>6, <1>7, <1>8, <1>9, <1>10, <1>11, <1>12, <1>13, <1>14
     DEF Next, Migration, Users, Steps

LEMMA AlwaysOlder == Spec => []Older
<1>1. Init => Older
  BY DEF Init, Older, Old, Absent, Place
<1>2. Shape /\ Attached /\ Whole /\ ServedInv /\ Dated /\ Older /\ [Next]_vars => Older'
  BY OlderStep
<1> QED
  BY <1>1, <1>2, AlwaysShape, AlwaysAttached, AlwaysWhole, AlwaysServed, AlwaysDated, PTL DEF Spec

\* What a checkout sees of its graph is what was last written for it.
SeesNewest == Settled => \A r \in there : Served(r) = newest[r]

LEMMA SeenNewest ==
  ASSUME Shape, ServedInv
  PROVE  SeesNewest
<1> SUFFICES ASSUME Settled, NEW r \in there PROVE Served(r) = newest[r]
  BY DEF SeesNewest
<1>1. CASE pc \in {"probe", "copy", "copying", "verify", "side", "unlink"} /\ job.root = r
  BY <1>1 DEF Served, ServedInv, SourceServes
<1>2. CASE pc = "idle" \/ job.root # r
  BY <1>2 DEF Served, ServedInv, ServesNewest, Serves
<1>3. CASE pc = "unlinkSide" /\ job.root = r
  <2>1. job.from \in {r, ident[r]} /\ job.to \in {r, ident[r]} /\ ident[r] # None /\ job.from # job.to
    BY <1>3, Places DEF Shape, Typed, TypeOK, Moving, Between
  <2>2. Resolved(r) = job.to
    BY <1>3, <2>1 DEF Resolved, ServedInv, TargetServes
  <2> QED BY <1>3, <2>2 DEF Served, ServedInv, TargetServes
<1> QED BY <1>1, <1>2, <1>3 DEF Shape, Typed, TypeOK

Seen(r) == IF r \in there THEN newest[r] ELSE 0

\* What a step may do to what is seen.
SeenWritten(r) ==
  /\ clock < MaxVersion
  /\ \A s \in Root : Seen(s)' = IF s = r THEN clock + 1 ELSE Seen(s)
SeenWithdrawn(r) ==
  /\ Seen(r)' \in 0..Seen(r)
  /\ \A s \in Root : s # r => Seen(s)' = Seen(s)

LEMMA SeenStep ==
  ASSUME Shape, Attached, Whole, ServedInv, Older, Settled, [Next]_vars
  PROVE  \/ \A s \in Root : Seen(s)' = Seen(s)
         \/ \E r \in Root : SeenWritten(r) \/ SeenWithdrawn(r)
<1>1. /\ db \in [Place -> -1..MaxVersion] /\ ident \in [Root -> Id \cup {None}]
      /\ newest \in [Root -> 0..MaxVersion] /\ there \subseteq Root
  BY DEF Shape, Typed, TypeOK
<1> USE <1>1
<1>2. /\ "clone" \notin plan /\ "rename" \notin plan /\ Attending
  BY DEF Settled, Attending, Spared, Records
<1>3. UNCHANGED <<there, newest>> => \A s \in Root : Seen(s)' = Seen(s)
  BY DEF Seen
<1>4. ASSUME NEW r \in Root, r \in there, there' = there, clock < MaxVersion,
             newest' = Renewed(Resolved(r))
      PROVE  SeenWritten(r)
  BY <1>4, Written DEF SeenWritten, Seen
<1>5. ASSUME NEW r \in Root, NEW restore \in BOOLEAN, Start(r, restore)
      PROVE  UNCHANGED <<there, newest>>
  BY <1>5 DEF Start, Goes
<1>6. CASE Steps
  BY <1>3, <1>6, JobStays DEF Shape
<1>7. CASE PlanGc \/ \E i \in Id : RemoveState(i)
  BY <1>3, <1>7 DEF PlanGc, RemoveState, users
<1>8. ASSUME NEW r \in Root, Open(r) PROVE UNCHANGED <<there, newest>> \/ SeenWritten(r)
  BY <1>4, <1>8 DEF Open
<1>9. ASSUME NEW r \in Root, Write(r) PROVE SeenWritten(r)
  <2>1. held[r] # None /\ r \notin gone /\ held[r] = Resolved(r) /\ r \in there
    BY <1>2, <1>9 DEF Write, Attached, ServedInv, HeldResolved, Shape, Working
  <2> QED BY <1>4, <1>9, <2>1 DEF Write
<1>10. ASSUME NEW r \in Root, NoteVersion(r) \/ Close(r) PROVE UNCHANGED <<there, newest>>
  BY <1>10 DEF NoteVersion, Close, users
<1>11. ASSUME NEW r \in Root, Forget(r) PROVE SeenWithdrawn(r)
  <2>1. /\ there' = there /\ r \in there
        /\ newest'[r] = IF db[r] = Torn THEN Absent ELSE db[r]
        /\ \A s \in Root : s # r => newest'[s] = newest[s]
    BY <1>11 DEF Forget, Shape, Living
  <2>2. db[r] \in -1..MaxVersion /\ db[r] <= newest[r] /\ newest[r] \in 0..MaxVersion
    BY <2>1, Places DEF Older, Old
  <2>3. newest'[r] \in 0..newest[r]
    BY <2>1, <2>2 DEF Absent, Torn
  <2> QED BY <2>1, <2>3 DEF SeenWithdrawn, Seen
<1>12. ASSUME NEW r \in Root, DeleteRoot(r) PROVE SeenWithdrawn(r)
  BY <1>12 DEF DeleteRoot, SeenWithdrawn, Seen
<1>13. ASSUME NEW r \in Root, NEW i \in Id, Adopt(r, i) PROVE UNCHANGED <<there, newest>>
  BY <1>13 DEF Adopt
<1>14. ASSUME NEW r \in Root, NEW s \in Root PROVE ~Rename(r, s) /\ ~Clone(r, s)
  BY <1>2 DEF Rename, Clone
<1>15. CASE UNCHANGED vars
  BY <1>3, <1>15 DEF vars, users
<1>16. CASE \E r \in Root, restore \in BOOLEAN : Start(r, restore)
  BY <1>3, <1>5, <1>16
<1>17. CASE Users
  BY <1>3, <1>8, <1>9, <1>10, <1>11, <1>12, <1>13, <1>14, <1>17 DEF Users
<1> QED BY <1>6, <1>7, <1>15, <1>16, <1>17 DEF Next, Migration, Steps

\* Moving databases and collecting state directories changes no checkout's
\* graph: the detailed specification implements the one in which there are no
\* files.
THEOREM StateImplementsGraph == Spec => ImplementsGraph
<1> DEFINE bar == [r \in Root |-> IF Undisturbed /\ r \in there THEN Served(r) ELSE 0]
<1>1. Undisturbed <=> Settled
  BY DEF Undisturbed, Settled, Excluded
<1>2. Init => Graph!Init
  BY DEF Init, Graph!Init, Served, Resolved, Absent, Place
<1>3. ASSUME Shape, Attached, Whole, ServedInv, Older, Dated, SeesNewest, SeesNewest',
             [Next]_vars
      PROVE  [Graph!Next]_bar
  <2>1. plan' = plan /\ (Undisturbed' <=> Settled)
    BY <1>3, PlanRigid DEF Undisturbed, Settled, Excluded
  <2>2. CASE ~Settled
    BY <1>1, <2>1, <2>2
  <2>3. CASE Settled
    <3>1. \A r \in there : Served(r) = newest[r]
      BY <1>3, <2>3 DEF SeesNewest
    <3>2. \A r \in there' : Served(r)' = newest'[r]
      BY <1>3, <2>1, <2>3 DEF SeesNewest, Settled
    <3>3. bar = [r \in Root |-> Seen(r)] /\ bar' = [r \in Root |-> Seen(r)']
      BY <1>1, <2>1, <2>3, <3>1, <3>2 DEF Seen
    <3>4. CASE \A s \in Root : Seen(s)' = Seen(s)
      BY <3>3, <3>4
    <3>5. ASSUME NEW r \in Root, SeenWritten(r) PROVE Graph!Write(r)
      <4>1. \A s \in Root : bar[s] < clock + 1
        BY <1>3, <3>3, StateAssumption DEF Dated, Seen, Shape, Typed, TypeOK
      <4>2. clock + 1 \in 1..MaxVersion
        BY <1>3, <3>5, StateAssumption DEF SeenWritten, Shape, Typed, TypeOK
      <4>3. bar' = [bar EXCEPT ![r] = clock + 1]
        BY <3>3, <3>5 DEF SeenWritten
      <4> QED BY <4>1, <4>2, <4>3 DEF Graph!Write
    <3>6. ASSUME NEW r \in Root, SeenWithdrawn(r) PROVE Graph!Withdraw(r)
      <4>1. bar' = [bar EXCEPT ![r] = Seen(r)']
        BY <3>3, <3>6 DEF SeenWithdrawn
      <4>2. Seen(r)' \in 0..bar[r]
        BY <3>3, <3>6 DEF SeenWithdrawn
      <4> QED BY <4>1, <4>2 DEF Graph!Withdraw
    <3> QED
      BY <1>3, <2>3, <3>4, <3>5, <3>6, SeenStep DEF Graph!Next
  <2> QED BY <2>2, <2>3
<1>4. Shape /\ ServedInv => SeesNewest
  BY SeenNewest
<1> QED
  BY <1>2, <1>3, <1>4, AlwaysShape, AlwaysAttached, AlwaysWhole, AlwaysServed, AlwaysOlder, AlwaysDated,
     PTL DEF Spec, ImplementsGraph, Graph!Spec

-----------------------------------------------------------------------------
(***************************************************************************)
(* Where the mark of the newest version lies.                              *)
(***************************************************************************)
Travelling == {"race", "fork", "crash", "io", "clone", "rename"} \cap plan = {}

Marked(r) == HasMark(r) => side[Resolved(r)] = newest[r]
BeforeUnlinkSide == {"probe", "copy", "copying", "verify", "side", "unlink"}
HasMarkAtEnds == newest[job.root] \in {side[job.from], side[job.to]}

MarksServed == \A r \in there : (pc = "idle" \/ job.root # r) => Marked(r)
SourceMarked == pc \in BeforeUnlinkSide /\ HasMarkAtEnds => side[job.from] = newest[job.root]
TargetMarked == pc \in {"unlink", "unlinkSide"} /\ job.side /\ HasMarkAtEnds =>
                  side[job.to] = newest[job.root]
NoMark == pc \in BeforeUnlinkSide \ {"probe"} /\ ~job.side => side[job.from] = Absent
SideMoves == pc \in {"side", "unlinkSide"} => job.side

\* Where a mark of the newest version exists it lies beside the database that is
\* resolved: at the source of a migration, and at its destination as well from
\* the time at which the source is removed.
MarkInv == Travelling => MarksServed /\ SourceMarked /\ TargetMarked /\ NoMark /\ SideMoves

LEMMA OthersMarked ==
  ASSUME Shape, "clone" \notin plan, NEW r \in Root, NEW s \in Root, r # s,
         \A p \in Place : p \notin {r, ident[r]} => db'[p] = db[p] /\ side'[p] = side[p],
         ident'[s] = ident[s]
  PROVE  /\ side'[s] = side[s] /\ (ident[s] # None => side'[ident[s]] = side[ident[s]])
         /\ newest'[s] = newest[s] => (HasMark(s)' <=> HasMark(s))
         /\ newest'[s] = newest[s] /\ Marked(s) => Marked(s)'
<1>1. /\ Resolved(s)' = Resolved(s) /\ Resolved(s) # r
      /\ ident[r] # None => Resolved(s) # ident[r]
  BY OthersKeep
<1>2. Resolved(s) \in Place /\ Resolved(s) # None
  BY Places, StateAssumption
<1>3. s \in Place \ {r, ident[r]} /\ (ident[s] # None => ident[s] \in Place \ {r, ident[r]})
  BY Places DEF Shape, Distinct
<1>4. side'[s] = side[s] /\ (ident[s] # None => side'[ident[s]] = side[ident[s]])
  BY <1>3
<1>5. side'[Resolved(s)] = side[Resolved(s)]
  BY <1>1, <1>2
<1>6. newest'[s] = newest[s] => (HasMark(s)' <=> HasMark(s))
  BY <1>4 DEF HasMark
<1> QED BY <1>1, <1>4, <1>5, <1>6 DEF Marked

LEMMA MarkMigration ==
  ASSUME Shape, ServedInv, MarkInv, Travelling, Steps
  PROVE  MarkInv' /\ \A s \in Root : HasMark(s) => HasMark(s)'
<1>1. /\ pc # "idle" /\ job \in Job
      /\ job'.root = job.root /\ job'.from = job.from /\ job'.to = job.to
      /\ UNCHANGED <<plan, there, ident, held, newest, clock, doomed>>
  BY JobStays DEF Shape
<1> DEFINE r == job.root
<1>2. /\ r \in Root /\ r \in there /\ ident[r] # None
      /\ job.from \in Place /\ job.to \in Place /\ job.from # job.to
      /\ \/ job.from = r /\ job.to = ident[r]
         \/ job.from = ident[r] /\ job.to = r
  BY <1>1, Places DEF Shape, Moving, Between, Job
<1>3. /\ db \in [Place -> -1..MaxVersion] /\ side \in [Place -> -1..MaxVersion]
      /\ there \subseteq Root
  BY DEF Shape, Typed, TypeOK
<1>4. "clone" \notin plan /\ "crash" \notin plan /\ "io" \notin plan /\ Settled
  BY DEF Travelling, Settled
<1>5. \A p \in Place : p \notin {r, ident[r]} => db'[p] = db[p] /\ side'[p] = side[p]
  BY <1>2, <1>3 DEF Steps, Probe, Copy, Copied, Verify, CopySide, Unlink, UnlinkSide, Crash,
                    Remove, files
<1>6. \A s \in Root : s # r => (Marked(s) => Marked(s)') /\ (HasMark(s) => HasMark(s)')
  BY <1>1, <1>2, <1>4, <1>5, OthersMarked
<1>7. /\ HasMark(r) <=> newest[r] # 0 /\ HasMarkAtEnds
      /\ HasMark(r)' <=> newest[r] # 0 /\ HasMarkAtEnds'
  BY <1>1, <1>2 DEF HasMark, HasMarkAtEnds
<1>8. ASSUME db'[job.to] = Absent, db'[job.from] # Absent PROVE Resolved(r)' = job.from
  BY <1>1, <1>2, <1>8 DEF Resolved
<1>9. SourceServes /\ TargetFree /\ CopyWhole /\ TargetServes
  BY <1>4 DEF ServedInv
<1> DEFINE Ends == (SourceMarked /\ TargetMarked /\ NoMark /\ SideMoves)'
<1>10. Ends /\ (pc' = "idle" => Marked(r)') /\ (HasMark(r) => HasMark(r)')
  <2> USE <1>1, <1>2, <1>3, <1>7
      DEF MarkInv, SourceMarked, TargetMarked, NoMark, SideMoves, HasMarkAtEnds, Marked,
          BeforeUnlinkSide, Goes, Absent
  <2>1. CASE Probe
    <3>1. UNCHANGED <<db, side>> /\ Resolved(r)' = job.from
      BY <1>8, <1>9, <2>1 DEF Probe, files, SourceServes, TargetFree
    <3>2. pc = "probe" /\ pc' \in {"idle", "copy"}
      BY <2>1 DEF Probe
    <3>3. pc' = "copy" => (job'.side <=> side[job.from] # Absent)
      BY <2>1 DEF Probe, Job
    <3> QED BY <3>1, <3>2, <3>3
  <2>2. CASE Copy
    <3>1. side' = side /\ pc = "copy" /\ pc' = "copying" /\ job'.side = job.side
      BY <1>9, <2>2 DEF Copy, SourceServes, Job
    <3> QED BY <3>1
  <2>3. CASE Copied
    <3>1. side' = side /\ pc = "copying" /\ pc' = "verify" /\ job'.side = job.side
      BY <1>4, <2>3 DEF Copied
    <3> QED BY <3>1
  <2>4. CASE Verify
    <3>1. /\ side' = side /\ pc = "verify" /\ job' = job
          /\ \/ pc' = "idle" /\ db'[job.to] = Absent /\ db'[job.from] # Absent
             \/ pc' = "side" /\ job.side
             \/ pc' = "unlink" /\ ~job.side
      <4>1. db[job.from] # Absent
        BY <1>9, <2>4 DEF Verify, SourceServes
      <4> QED BY <2>4, <4>1 DEF Verify, Remove, Job
    <3>2. pc' = "idle" => Resolved(r)' = job.from
      BY <1>8, <3>1
    <3> QED BY <3>1, <3>2
  <2>5. CASE CopySide
    <3>1. job' = job /\ job.side /\ pc = "side"
      BY <2>5 DEF CopySide
    <3>2. CASE side[job.from] # Absent
      <4>1. /\ pc' = "unlink"
            /\ side'[job.to] = side[job.from] /\ side'[job.from] = side[job.from]
        BY <1>4, <2>5, <3>2 DEF CopySide
      <4> QED BY <3>1, <4>1
    <3>3. CASE side[job.from] = Absent
      <4>1. /\ pc' = "idle"
            /\ side'[job.to] = Absent /\ side'[job.from] = Absent
        BY <2>5, <3>3 DEF CopySide
      <4>2. newest[r] # 0 => ~HasMarkAtEnds
        BY <3>1, <3>3
      <4> QED BY <3>1, <4>1, <4>2
    <3> QED BY <3>2, <3>3
  <2>6. CASE Unlink
    <3>1. /\ side' = side /\ job' = job /\ pc = "unlink"
          /\ pc' = IF job.side THEN "unlinkSide" ELSE "idle"
      BY <2>6 DEF Unlink
    <3>2. ~job.side /\ newest[r] # 0 => ~HasMarkAtEnds
      BY <3>1
    <3> QED BY <3>1, <3>2
  <2>7. CASE UnlinkSide
    <3>1. /\ pc = "unlinkSide" /\ pc' = "idle" /\ job' = job /\ job.side
          /\ side'[job.from] = Absent /\ side'[job.to] = side[job.to]
          /\ db'[job.from] = Absent /\ db'[job.to] # Absent
      BY <1>9, <2>7 DEF UnlinkSide, TargetServes
    <3>2. Resolved(r)' = job.to
      BY <3>1 DEF Resolved
    <3> QED BY <3>1, <3>2
  <2>8. CASE Crash
    BY <1>4, <2>8 DEF Crash
  <2> QED BY <2>1, <2>2, <2>3, <2>4, <2>5, <2>6, <2>7, <2>8 DEF Steps
<1>11. MarksServed'
  BY <1>1, <1>3, <1>6, <1>10 DEF MarkInv, MarksServed
<1>12. \A s \in Root : HasMark(s) => HasMark(s)'
  BY <1>1, <1>2, <1>6, <1>10 DEF HasMark
<1>13. MarkInv'
  BY <1>10, <1>11 DEF MarkInv
<1> QED BY <1>12, <1>13

\* Marks where nothing of a checkout changes but its new version.
LEMMA MarkElsewhere ==
  ASSUME Shape, MarkInv, Travelling, NEW r \in Root, UNCHANGED <<pc, job>>,
         \A p \in Place : p \notin {r, ident[r]} => db'[p] = db[p] /\ side'[p] = side[p],
         \A s \in Root : s # r => ident'[s] = ident[s] /\ newest'[s] = newest[s],
         there' \subseteq there, r \in there' => Marked(r)',
         pc # "idle" /\ job.root = r =>
           /\ pc = "probe" /\ ident'[r] = ident[r]
           /\ HasMarkAtEnds' => side'[job.from] = newest'[r]
  PROVE  MarkInv' /\ \A s \in Root : s # r /\ HasMark(s) => HasMark(s)'
<1>1. "clone" \notin plan /\ there \subseteq Root
  BY DEF Travelling, Shape, Typed, TypeOK
<1>2. \A s \in Root : s # r =>
        /\ (Marked(s) => Marked(s)') /\ (HasMark(s) => HasMark(s)')
        /\ side'[s] = side[s] /\ (ident[s] # None => side'[ident[s]] = side[ident[s]])
  BY <1>1, OthersMarked
<1>3. MarksServed'
  BY <1>1, <1>2 DEF MarkInv, MarksServed
<1>4. pc # "idle" /\ job.root # r =>
        /\ side'[job.from] = side[job.from] /\ side'[job.to] = side[job.to]
        /\ newest'[job.root] = newest[job.root]
  <2>1. pc # "idle" => job.root \in Root
    BY DEF Shape, Typed, Job
  <2> QED BY <1>2, <2>1 DEF Shape, Moving, Between
<1>5. (SourceMarked /\ TargetMarked /\ NoMark /\ SideMoves)'
  <2> USE DEF MarkInv, SourceMarked, TargetMarked, NoMark, SideMoves, HasMarkAtEnds, BeforeUnlinkSide
  <2>1. CASE pc # "idle" /\ job.root = r
    BY <2>1
  <2>2. CASE pc # "idle" /\ job.root # r
    BY <1>4, <2>2
  <2>3. CASE pc = "idle"
    BY <2>3
  <2> QED BY <2>1, <2>2, <2>3
<1>6. MarkInv'
  BY <1>3, <1>5 DEF MarkInv
<1> QED BY <1>2, <1>6

MarkStays(r) ==
  r \in there /\ r \in there' /\ HasMark(r) /\ newest'[r] = newest[r] /\ ident'[r] = ident[r] =>
    HasMark(r)'

LEMMA MarkStep ==
  ASSUME Shape, Owned, Attached, Dated, ServedInv, MarkInv, Travelling, [Next]_vars
  PROVE  MarkInv' /\ \A r \in Root : MarkStays(r)
<1>1. /\ db \in [Place -> -1..MaxVersion] /\ held \in [Root -> Place \cup {None}]
      /\ side \in [Place -> -1..MaxVersion]
      /\ ident \in [Root -> Id \cup {None}] /\ newest \in [Root -> 0..MaxVersion]
      /\ there \subseteq Root /\ clock \in Nat
      /\ pc # "idle" => job \in Job /\ job.root \in Root /\ job.from \in Place /\ job.to \in Place
  BY StateAssumption DEF Shape, Typed, TypeOK, Job
<1>2. /\ "clone" \notin plan /\ "rename" \notin plan /\ "race" \notin plan
      /\ "fork" \notin plan /\ Attending /\ Spared /\ Settled
  BY DEF Travelling, Attending, Spared, Records, Settled
<1>3. /\ MarksServed /\ SourceMarked /\ TargetMarked /\ NoMark /\ SideMoves
      /\ ServesNewest /\ HeldResolved /\ SourceServes /\ TargetFree
  BY <1>2 DEF MarkInv, ServedInv
<1> USE <1>1
<1> DEFINE Goal == MarkInv' /\ \A r \in Root : MarkStays(r)
<1> SUFFICES Goal
  OBVIOUS
<1>4. ASSUME UNCHANGED <<db, side, there, ident, newest, pc, job>> PROVE Goal
  BY <1>3, <1>4 DEF MarkInv, MarksServed, SourceMarked, TargetMarked, NoMark, SideMoves, Marked,
                    HasMark, HasMarkAtEnds, Resolved, MarkStays
<1>5. ASSUME NEW r \in Root, NEW restore \in BOOLEAN, Start(r, restore) PROVE Goal
  <2> DEFINE from == IF restore THEN ident[r] ELSE r
             to == IF restore THEN r ELSE ident[r]
  <2>1. /\ pc = "idle" /\ pc' = "probe" /\ job'.root = r /\ job'.from = from /\ job'.to = to
        /\ db[to] = Absent /\ db[from] # Absent /\ r \in there /\ ident[r] # None
        /\ UNCHANGED <<there, ident, db, side, held, newest>>
    BY <1>2, <1>5 DEF Start, Goes, files
  <2>2. Resolved(r) = from
    BY <2>1, Places DEF Resolved
  <2>3. Marked(r) /\ newest[r] # 0
    BY <1>3, <2>1, <2>2 DEF MarksServed, ServesNewest, Serves, Absent
  <2>4. (SourceMarked /\ TargetMarked /\ NoMark /\ SideMoves)'
    BY <2>1, <2>2, <2>3 DEF SourceMarked, TargetMarked, NoMark, SideMoves, Marked, HasMark,
                            HasMarkAtEnds, BeforeUnlinkSide
  <2>5. MarksServed' /\ \A s \in Root : MarkStays(s)
    BY <1>3, <2>1 DEF MarksServed, Marked, HasMark, Resolved, MarkStays
  <2> QED BY <2>4, <2>5 DEF MarkInv
<1>6. CASE Steps
  BY <1>6, MarkMigration DEF MarkStays
<1>7. CASE PlanGc
  BY <1>4, <1>7 DEF PlanGc, users, files
<1>8. ASSUME NEW i \in Id, RemoveState(i) PROVE Goal
  <2>1. \A r \in Root : ident[r] # i
    BY <1>2, <1>8, SparedRemoval
  <2>2. /\ \A p \in Place : p # i => db'[p] = db[p] /\ side'[p] = side[p]
        /\ UNCHANGED <<there, ident, held, newest, pc, job>>
    BY <1>8 DEF RemoveState, Remove
  <2>3. \A r \in Root : /\ r \in Place \ {i} /\ (ident[r] # None => ident[r] \in Place \ {i})
                        /\ Resolved(r) \in Place \ {i}
    BY <2>1, Places
  <2>4. \A r \in Root : /\ Resolved(r)' = Resolved(r) /\ side'[Resolved(r)] = side[Resolved(r)]
                        /\ side'[r] = side[r]
                        /\ (ident[r] # None => side'[ident[r]] = side[ident[r]])
    BY <2>2, <2>3 DEF Resolved
  <2>5. pc # "idle" => side'[job.from] = side[job.from] /\ side'[job.to] = side[job.to]
    BY <2>4 DEF Shape, Moving, Between
  <2>6. \A r \in Root : (HasMark(r)' <=> HasMark(r)) /\ (Marked(r) => Marked(r)')
    BY <2>2, <2>4 DEF HasMark, Marked
  <2>7. MarksServed' /\ \A s \in Root : MarkStays(s)
    BY <1>3, <2>2, <2>6 DEF MarksServed, MarkStays
  <2>8. (SourceMarked /\ TargetMarked /\ NoMark /\ SideMoves)'
    BY <1>3, <2>2, <2>5 DEF SourceMarked, TargetMarked, NoMark, SideMoves, HasMarkAtEnds,
                            BeforeUnlinkSide
  <2> QED BY <2>7, <2>8 DEF MarkInv
\* A version that is new has no mark yet.
<1>9. ASSUME NEW r \in Root, NEW p, p = Resolved(r),
             UNCHANGED <<side, there, ident, pc, job>>,
             \A q \in Place : db'[q] = IF q = p THEN clock + 1 ELSE db[q],
             newest' = Renewed(p), r \in there,
             pc # "idle" /\ job.root = r => pc = "probe"
      PROVE  Goal
  <2>1. p \in Place /\ p \in {r, ident[r]} /\ p # None /\ r \in Place
    BY <1>9, Places, StateAssumption
  <2>2. \A s \in Root : s # r => newest'[s] = newest[s]
    <3>1. \A s \in Root : s # r => Resolved(s) # p
      BY <1>2, <1>9, <2>1, OthersKeep
    <3> QED BY <1>9, <3>1 DEF Renewed
  <2>3. newest'[r] = clock + 1
    BY <1>9 DEF Renewed
  <2>4. \A q \in Place : side'[q] # newest'[r]
    BY <1>9, <2>3 DEF Dated
  <2>5. ~HasMark(r)'
    BY <1>9, <2>1, <2>4, Places DEF HasMark
  <2>6. pc # "idle" /\ job.root = r => ~HasMarkAtEnds'
    BY <1>9, <2>4 DEF HasMarkAtEnds
  <2>7. MarkInv' /\ \A s \in Root : s # r /\ HasMark(s) => HasMark(s)'
    BY <1>9, <2>1, <2>2, <2>5, <2>6, MarkElsewhere DEF Marked
  <2>8. newest'[r] # newest[r]
    BY <2>3 DEF Dated
  <2> QED BY <2>7, <2>8 DEF MarkStays
<1>10. ASSUME NEW r \in Root, Open(r) PROVE Goal
  <2>1. CASE db[Resolved(r)] # Absent
    BY <1>4, <1>10, <2>1 DEF Open
  <2>2. CASE db[Resolved(r)] = Absent
    BY <1>2, <1>9, <1>10, <2>2 DEF Open
  <2> QED BY <2>1, <2>2
<1>11. ASSUME NEW r \in Root, Write(r) PROVE Goal
  <2>1. held[r] # None /\ r \notin gone /\ held[r] = Resolved(r) /\ r \in there
    BY <1>2, <1>3, <1>11 DEF Write, Attached, HeldResolved, Shape, Working
  <2>2. /\ UNCHANGED <<side, there, ident, pc, job>>
        /\ newest' = Renewed(Resolved(r))
        /\ \A q \in Place : db'[q] = IF q = Resolved(r) THEN clock + 1 ELSE db[q]
    BY <1>11, <2>1 DEF Write
  <2>3. pc # "idle" /\ job.root = r => pc = "probe"
    BY <1>2, <2>1 DEF Attached, Shape, Working, Moving, Between
  <2> QED BY <1>9, <2>1, <2>2, <2>3
<1>12. ASSUME NEW r \in Root, NoteVersion(r) PROVE Goal
  <2>1. held[r] # None /\ r \notin gone /\ held[r] = Resolved(r) /\ r \in there
    BY <1>2, <1>3, <1>12 DEF NoteVersion, Attached, HeldResolved, Shape, Working
  <2>2. /\ UNCHANGED <<db, there, ident, newest, pc, job>>
        /\ side' = [side EXCEPT ![Resolved(r)] = db[Resolved(r)]]
    BY <1>12, <2>1 DEF NoteVersion, users
  <2>3. pc # "idle" /\ job.root = r => pc = "probe" /\ held[r] = job.from
    <3>1. pc # "idle" /\ job.root = r => held[r] \in {job.from, job.to}
      BY <2>1 DEF Shape, Working, Moving, Between
    <3>2. pc # "idle" /\ job.root = r => pc = "probe" /\ held[r] # job.to
      BY <1>2, <2>1, <3>1 DEF Attached
    <3> QED BY <3>1, <3>2
  <2>4. db[Resolved(r)] = newest[r]
    BY <1>3, <2>1, <2>3 DEF ServesNewest, Serves, SourceServes
  <2>5. Resolved(r) \in Place /\ Resolved(r) \in {r, ident[r]} /\ Resolved(r) # None
    BY <2>1, Places
  <2>6. side'[Resolved(r)] = newest'[r] /\ Resolved(r)' = Resolved(r)
    BY <2>2, <2>4, <2>5 DEF Resolved
  <2>7. Marked(r)' /\ MarkStays(r)
    BY <2>2, <2>5, <2>6 DEF Marked, HasMark, MarkStays
  <2>8. MarkInv' /\ \A s \in Root : s # r /\ HasMark(s) => HasMark(s)'
    BY <2>1, <2>2, <2>3, <2>5, <2>6, <2>7, MarkElsewhere
  <2> QED BY <2>7, <2>8 DEF MarkStays
<1>13. ASSUME NEW r \in Root, Close(r) PROVE Goal
  BY <1>4, <1>13 DEF Close, files
<1>14. ASSUME NEW r \in Root, Forget(r) \/ DeleteRoot(r) PROVE Goal
  <2>1. /\ \A p \in Place : p # r => db'[p] = db[p] /\ side'[p] = side[p]
        /\ ident'[r] = None
        /\ \A s \in Root : s # r => ident'[s] = ident[s] /\ newest'[s] = newest[s]
        /\ there' \subseteq there /\ UNCHANGED <<pc, job>>
        /\ pc # "idle" => job.root # r
    BY <1>14 DEF Forget, DeleteRoot, Quiet, files
  <2>2. ~HasMark(r)' /\ (HasMark(r) => ident'[r] # ident[r])
    BY <2>1 DEF HasMark
  <2>3. MarkInv' /\ \A s \in Root : s # r /\ HasMark(s) => HasMark(s)'
    BY <2>1, <2>2, MarkElsewhere DEF Marked
  <2> QED BY <2>2, <2>3 DEF MarkStays
<1>15. ASSUME NEW r \in Root, NEW i \in Id, Adopt(r, i) PROVE Goal
  <2>1. /\ ident[r] = None /\ db[i] = Absent /\ side[i] = Absent /\ r \in there
        /\ ident'[r] = i
        /\ \A s \in Root : s # r => ident'[s] = ident[s]
        /\ UNCHANGED <<db, side, there, held, newest, pc, job>>
        /\ pc # "idle" => job.root # r
    BY <1>15 DEF Adopt, Quiet, files
  <2>2. db[r] = newest[r]
    BY <1>3, <2>1 DEF ServesNewest, Serves, Resolved
  <2>3. Marked(r)'
    BY <2>1, <2>2 DEF Marked, HasMark, Resolved, Absent
  <2>4. MarkInv' /\ \A s \in Root : s # r /\ HasMark(s) => HasMark(s)'
    BY <2>1, <2>3, MarkElsewhere
  <2>5. ~HasMark(r)
    BY <2>1 DEF HasMark
  <2> QED BY <2>4, <2>5 DEF MarkStays
<1>16. ASSUME NEW r \in Root, NEW s \in Root, Rename(r, s) \/ Clone(r, s) PROVE Goal
  BY <1>2, <1>16 DEF Rename, Clone
<1>17. CASE UNCHANGED vars
  BY <1>4, <1>17 DEF vars, users, files
<1> QED
  BY <1>5, <1>6, <1>7, <1>8, <1>10, <1>11, <1>12, <1>13, <1>14, <1>15, <1>16, <1>17
     DEF Next, Migration, Users, Steps

\* Where no copy fails, a mark of the newest version is lost by nothing but a
\* newer version, and a migration takes it along.
THEOREM MarkGoesWithDatabase == Spec => MarkTravels
<1>1. Init => MarkInv
  BY DEF Init, MarkInv, MarksServed, SourceMarked, TargetMarked, NoMark, SideMoves, Marked,
         HasMark, BeforeUnlinkSide
<1>2. Shape /\ Owned /\ Attached /\ Dated /\ ServedInv /\ MarkInv /\ [Next]_vars => MarkInv'
  BY MarkStep, PlanRigid DEF MarkInv, Travelling
<1> DEFINE Travels ==
      Excluded({"race", "fork", "crash", "io", "clone", "rename"}) =>
        \A r \in there \cap there' :
          HasMark(r) /\ newest'[r] = newest[r] /\ ident'[r] = ident[r] =>
            (HasMark(r) /\ (Quiet(r) => side[Resolved(r)] = newest[r]))'
<1>3. /\ Shape /\ Owned /\ Attached /\ Dated /\ ServedInv /\ MarkInv /\ MarkInv'
      /\ [Next]_vars
      => [Travels]_vars
  <2> SUFFICES ASSUME Shape, Owned, Attached, Dated, ServedInv, MarkInv, MarkInv', [Next]_vars
               PROVE  Travels
    OBVIOUS
  <2>1. Excluded({"race", "fork", "crash", "io", "clone", "rename"}) => Travelling /\ Travelling'
    BY PlanRigid DEF Excluded, Travelling
  <2>2. there \subseteq Root
    BY DEF Shape, Typed, TypeOK
  <2>3. Travelling' /\ MarkInv' =>
          \A r \in there' : Quiet(r)' /\ HasMark(r)' => side'[Resolved(r)'] = newest'[r]
    BY DEF MarkInv, MarksServed, Marked, Quiet
  <2>4. Travelling => \A r \in Root : MarkStays(r)
    BY MarkStep
  <2> QED BY <2>1, <2>2, <2>3, <2>4 DEF MarkStays
<1> QED
  BY <1>1, <1>2, <1>3, AlwaysShape, AlwaysOwned, AlwaysAttached, AlwaysServed, AlwaysDated, PTL DEF Spec, MarkTravels
=============================================================================
