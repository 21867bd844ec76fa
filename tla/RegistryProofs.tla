---------------------------- MODULE RegistryProofs ----------------------------
(***************************************************************************)
(* What holds of the workspace registry for any number of invocations,     *)
(* roots and project names.                                                *)
(***************************************************************************)
EXTENDS WorkspaceRegistry, TLAPS

(***************************************************************************)
(* The edits of a document.                                                *)
(***************************************************************************)
LEMMA EmptyDocument == Empty \in Document /\ Unambiguous(Empty)
BY DEF Empty, Absent, Document, Entry, Unambiguous, Collides

LEMMA NotAbsent ==
  ASSUME NEW doc \in Document, NEW r \in Roots, doc[r] # Absent
  PROVE  doc[r].id \in Ids
<1>1. doc[r] \in Entry /\ (doc[r].id = None <=> doc[r].names = {})
  BY DEF Document
<1>2. QED
  BY <1>1 DEF Entry, Absent

LEMMA RegisterDocument ==
  ASSUME NEW doc \in Document, NEW root \in Roots, NEW names \in SUBSET Names,
         names # {}, NEW fresh \in Ids
  PROVE  Register(doc, root, names, fresh) \in Document
<1>1. IdFor(doc, root, fresh) \in Ids
  BY DocumentAssumption DEF IdFor, Document, Entry, Absent
<1>2. QED
  BY <1>1, DocumentAssumption DEF Register, Document, Entry

LEMMA RegisterUnambiguous ==
  ASSUME NEW doc \in Document, NEW root \in Roots, NEW names \in SUBSET Names,
         NEW fresh, Unambiguous(doc), ~Collides(doc, root, names)
  PROVE  Unambiguous(Register(doc, root, names, fresh))
<1> DEFINE new == Register(doc, root, names, fresh)
<1>1. new[root].names = names
  BY DEF Register, Document, Entry
<1>2. \A r \in Roots \ {root} : new[r] = doc[r]
  BY DEF Register, Document, Entry
<1> HIDE DEF new
<1>3. Unambiguous(new)
  BY <1>1, <1>2 DEF Unambiguous, Collides
<1>4. QED
  BY <1>3 DEF new

LEMMA UnregisterDocument ==
  ASSUME NEW doc \in Document, NEW names
  PROVE  Unregister(doc, names) \in Document
BY DEF Unregister, Document, Entry, Absent

LEMMA UnregisterUnambiguous ==
  ASSUME NEW doc \in Document, NEW names, Unambiguous(doc)
  PROVE  Unambiguous(Unregister(doc, names))
<1> DEFINE new == Unregister(doc, names)
<1>1. \A r \in Roots : new[r].names \subseteq doc[r].names
  BY DEF Unregister, Absent
<1> HIDE DEF new
<1>2. Unambiguous(new)
  BY <1>1 DEF Unambiguous, Collides
<1>3. QED
  BY <1>2 DEF new

LEMMA DropDocument ==
  ASSUME NEW doc \in Document, NEW ids
  PROVE  DropIds(doc, ids) \in Document
BY DEF DropIds, Document, Entry, Absent

LEMMA DropUnambiguous ==
  ASSUME NEW doc \in Document, NEW ids, Unambiguous(doc)
  PROVE  Unambiguous(DropIds(doc, ids))
<1> DEFINE new == DropIds(doc, ids)
<1>1. \A r \in Roots : new[r].names \subseteq doc[r].names
  BY DEF DropIds, Absent
<1> HIDE DEF new
<1>2. Unambiguous(new)
  BY <1>1 DEF Unambiguous, Collides
<1>3. QED
  BY <1>2 DEF new
-----------------------------------------------------------------------------
(***************************************************************************)
(* Typing.                                                                 *)
(***************************************************************************)
LEMMA EditedDocument ==
  ASSUME TypeOK, NEW p \in Proc, ~Does(p, "gc"), NEW doc \in Document
  PROVE  Edited(p, doc) \in Document
<1>1. /\ op[p].root \in Roots /\ op[p].names \in SUBSET Names
      /\ Does(p, "register") => op[p].names # {}
  BY DEF TypeOK, Ops, Does
<1>2. p \in Ids
  BY RegistryAssumption
<1>3. QED
  BY <1>1, <1>2, RegisterDocument, UnregisterDocument DEF Edited

\* gc never enters the locked section, and only gc runs gc's steps.
KindOfStep ==
  \A p \in Proc :
    /\ pc[p] \in {"reap", "mkdir", "note", "read", "save", "relCheck", "unlink", "rmdir"}
         => ~Does(p, "gc")
    /\ returns[p] = "mkdir" => ~Does(p, "gc")

LEMMA TypesAndKinds == Spec => [](TypeOK /\ KindOfStep)
<1> USE DEF TypeOK, KindOfStep
<1>1. Init => TypeOK /\ KindOfStep
  BY EmptyDocument DEF Init, PC
<1>2. TypeOK /\ KindOfStep /\ [Next]_vars => (TypeOK /\ KindOfStep)'
  <2> SUFFICES ASSUME TypeOK, KindOfStep, [Next]_vars PROVE (TypeOK /\ KindOfStep)'
    OBVIOUS
  <2> USE RegistryAssumption
      DEF PC, At, Goto, Answer, Does, locks, data, BeginRelease, Return
  <2>1. ASSUME NEW p \in Proc, Begin(p) PROVE (TypeOK /\ KindOfStep)'
    BY <2>1 DEF Begin
  <2>2. ASSUME NEW p \in Proc, Reap(p) PROVE (TypeOK /\ KindOfStep)'
    BY <2>2 DEF Reap
  <2>3. ASSUME NEW p \in Proc, Mkdir(p) PROVE (TypeOK /\ KindOfStep)'
    BY <2>3 DEF Mkdir, TakeLock
  <2>4. ASSUME NEW p \in Proc, Poll(p) \/ Timeout(p) PROVE (TypeOK /\ KindOfStep)'
    BY <2>4 DEF Poll, Timeout, Results
  <2>5. ASSUME NEW p \in Proc, Note(p) PROVE (TypeOK /\ KindOfStep)'
    BY <2>5 DEF Note
  <2>6. ASSUME NEW p \in Proc, Read(p) PROVE (TypeOK /\ KindOfStep)'
    BY <2>6 DEF Read, Refusal, Results
  <2>7. ASSUME NEW p \in Proc, Save(p) PROVE (TypeOK /\ KindOfStep)'
    <3>1. ~Does(p, "gc") /\ snap[p] \in Document
      BY <2>7 DEF Save
    <3>2. Edited(p, snap[p]) \in Document
      BY <3>1, EditedDocument
    <3>3. registry' \in Document
      BY <2>7, <3>2 DEF Save
    <3>4. QED
      BY <2>7, <3>3, EmptyDocument DEF Save, Results
  <2>8. ASSUME NEW p \in Proc, ReleaseCheck(p) PROVE (TypeOK /\ KindOfStep)'
    BY <2>8 DEF ReleaseCheck
  <2>9. ASSUME NEW p \in Proc, ReleaseRmdir(p) PROVE (TypeOK /\ KindOfStep)'
    BY <2>9 DEF ReleaseRmdir
  <2>10. ASSUME NEW p \in Proc, Plan(p) PROVE (TypeOK /\ KindOfStep)'
    <3>1. \A r \in Roots : registry[r] # Absent => registry[r].id \in Ids
      BY NotAbsent
    <3>2. StaleIds(registry) \subseteq Ids
      BY <3>1 DEF StaleIds
    <3>3. QED
      BY <2>10, <3>2 DEF Plan
  <2>11. ASSUME NEW p \in Proc, GcLoad(p) PROVE (TypeOK /\ KindOfStep)'
    BY <2>11 DEF GcLoad
  <2>12. ASSUME NEW p \in Proc, GcSave(p) PROVE (TypeOK /\ KindOfStep)'
    <3>1. DropIds(snap[p], stale[p]) \in Document
      BY DropDocument
    <3>2. registry' \in Document
      BY <2>12, <3>1 DEF GcSave
    <3>3. QED
      BY <2>12, <3>2, EmptyDocument DEF GcSave, Results
  <2>13. ASSUME NEW p \in Proc, Crash(p) PROVE (TypeOK /\ KindOfStep)'
    BY <2>13, EmptyDocument DEF Crash
  <2>14. CASE Expire
    BY <2>14 DEF Expire
  <2>15. ASSUME NEW r \in Roots, MoveCheckout(r) PROVE (TypeOK /\ KindOfStep)'
    BY <2>15 DEF MoveCheckout
  <2>16. CASE UNCHANGED vars
    BY <2>16 DEF vars
  <2>17. ASSUME NEW p \in Proc, ReleaseUnlink(p) PROVE (TypeOK /\ KindOfStep)'
    <3>1. CASE noted
      BY <2>17, <3>1 DEF ReleaseUnlink
    <3>2. CASE ~noted
      BY <2>17, <3>2 DEF ReleaseUnlink
    <3>3. QED
      BY <3>1, <3>2
  <2>18. QED
    BY <2>1, <2>2, <2>3, <2>4, <2>5, <2>6, <2>7, <2>8, <2>9, <2>10, <2>11, <2>12,
       <2>13, <2>14, <2>15, <2>16, <2>17 DEF Next, Step
<1>3. QED
  BY <1>1, <1>2, PTL DEF Spec

\* Every variable keeps its type: in particular every document that is read or
\* written, by whatever interleaving, consists of entries that have an id and
\* at least one project.
THEOREM RegistryTyping == Spec => []TypeOK
BY TypesAndKinds, PTL
-----------------------------------------------------------------------------
(***************************************************************************)
(* Names.  A document is checked before it is edited, by the invocation    *)
(* that edits it and in the snapshot that it edits, so an update that is   *)
(* lost is lost whole: what replaces it was unambiguous before it.         *)
(***************************************************************************)
SnapsUnambiguous ==
  /\ NamesUnique
  /\ \A p \in Proc : Unambiguous(snap[p])
  /\ \A p \in Proc : At(p, "save") => ~Refuses(p, snap[p])

\* A step of p that writes no document, and reads none that is to be edited.
LEMMA KeepsNames ==
  ASSUME NEW p \in Proc, TypeOK, SnapsUnambiguous, NEW label, Goto(p, label),
         label # "save", UNCHANGED <<op, registry>>,
         snap' = snap \/ snap' = [snap EXCEPT ![p] = Empty]
  PROVE  SnapsUnambiguous'
<1>1. NamesUnique'
  BY DEF SnapsUnambiguous, NamesUnique
<1>2. \A q \in Proc : snap'[q] = snap[q] \/ snap'[q] = Empty
  BY DEF TypeOK
<1>3. \A q \in Proc : Unambiguous(snap'[q])
  BY <1>2, EmptyDocument DEF SnapsUnambiguous
<1>4. ASSUME NEW q \in Proc, At(q, "save")' PROVE ~Refuses(q, snap[q])'
  <2>1. q # p /\ At(q, "save")
    BY <1>4 DEF At, Goto, TypeOK
  <2>2. snap'[q] = snap[q]
    BY <2>1 DEF TypeOK
  <2>3. QED
    BY <2>1, <2>2 DEF SnapsUnambiguous, Refuses, Does
<1>5. QED
  BY <1>1, <1>3, <1>4 DEF SnapsUnambiguous

LEMMA EditedUnambiguous ==
  ASSUME NEW p \in Proc, TypeOK, KindOfStep, SnapsUnambiguous, At(p, "save")
  PROVE  Unambiguous(Edited(p, snap[p]))
<1>1. snap[p] \in Document /\ op[p].root \in Roots /\ op[p].names \in SUBSET Names
  BY DEF TypeOK, Ops
<1>2. Unambiguous(snap[p]) /\ ~Refuses(p, snap[p])
  BY DEF SnapsUnambiguous
<1>3. QED
  BY <1>1, <1>2, RegisterUnambiguous, UnregisterUnambiguous DEF Edited, Refuses

LEMMA NamesStep ==
  ASSUME TypeOK, KindOfStep, SnapsUnambiguous, [Next]_vars
  PROVE  SnapsUnambiguous'
<1> USE DEF data
<1>1. ASSUME NEW p \in Proc, Begin(p) \/ Plan(p) PROVE SnapsUnambiguous'
  BY <1>1, KeepsNames DEF Begin, Plan
<1>2. ASSUME NEW p \in Proc, Reap(p) PROVE SnapsUnambiguous'
  BY <1>2, KeepsNames DEF Reap, BeginRelease
<1>3. ASSUME NEW p \in Proc, Mkdir(p) \/ Poll(p) \/ Timeout(p) PROVE SnapsUnambiguous'
  BY <1>3, KeepsNames DEF Mkdir, TakeLock, Poll, Timeout
<1>4. ASSUME NEW p \in Proc, Note(p) PROVE SnapsUnambiguous'
  BY <1>4, KeepsNames DEF Note
<1>5. ASSUME NEW p \in Proc, Read(p) PROVE SnapsUnambiguous'
  <2>1. CASE Refuses(p, registry)
    BY <1>5, <2>1, KeepsNames DEF Read, BeginRelease
  <2>2. CASE ~Refuses(p, registry)
    <3>1. /\ snap' = [snap EXCEPT ![p] = registry]
          /\ Goto(p, "save")
          /\ UNCHANGED <<op, registry>>
      BY <1>5, <2>2 DEF Read
    <3>2. NamesUnique' /\ Unambiguous(registry)
      BY <3>1 DEF SnapsUnambiguous, NamesUnique
    <3>3. \A q \in Proc : Unambiguous(snap'[q])
      BY <3>1, <3>2 DEF SnapsUnambiguous, TypeOK
    <3>4. ASSUME NEW q \in Proc, At(q, "save")' PROVE ~Refuses(q, snap[q])'
      <4>1. CASE q = p
        <5>1. snap'[p] = registry
          BY <3>1 DEF TypeOK
        <5>2. QED
          BY <2>2, <3>1, <4>1, <5>1 DEF Refuses, Does
      <4>2. CASE q # p
        <5>1. snap'[q] = snap[q] /\ At(q, "save")
          BY <3>1, <3>4, <4>2 DEF TypeOK, At, Goto
        <5>2. QED
          BY <3>1, <5>1 DEF SnapsUnambiguous, Refuses, Does
      <4>3. QED
        BY <4>1, <4>2
    <3>5. QED
      BY <3>2, <3>3, <3>4 DEF SnapsUnambiguous
  <2>3. QED
    BY <2>1, <2>2
<1>6. ASSUME NEW p \in Proc, NEW doc, Unambiguous(doc), registry' = doc \/ registry' = registry,
             snap' = [snap EXCEPT ![p] = Empty], UNCHANGED op,
             NEW label, Goto(p, label), label # "save"
      PROVE  SnapsUnambiguous'
  <2>1. NamesUnique'
    BY <1>6 DEF SnapsUnambiguous, NamesUnique
  <2>2. \A q \in Proc : Unambiguous(snap'[q])
    BY <1>6, EmptyDocument DEF SnapsUnambiguous, TypeOK
  <2>3. ASSUME NEW q \in Proc, At(q, "save")' PROVE ~Refuses(q, snap[q])'
    <3>1. q # p /\ At(q, "save") /\ snap'[q] = snap[q]
      BY <1>6, <2>3 DEF At, Goto, TypeOK
    <3>2. QED
      BY <1>6, <3>1 DEF SnapsUnambiguous, Refuses, Does
  <2>4. QED
    BY <2>1, <2>2, <2>3 DEF SnapsUnambiguous
<1>7. ASSUME NEW p \in Proc, Save(p) PROVE SnapsUnambiguous'
  BY <1>6, <1>7, EditedUnambiguous DEF Save, BeginRelease
<1>8. ASSUME NEW p \in Proc, GcSave(p) PROVE SnapsUnambiguous'
  <2>1. Unambiguous(DropIds(snap[p], stale[p]))
    BY DropUnambiguous DEF SnapsUnambiguous, TypeOK
  <2>2. QED
    BY <1>6, <1>8, <2>1 DEF GcSave
<1>9. ASSUME NEW p \in Proc, ReleaseCheck(p) PROVE SnapsUnambiguous'
  BY <1>9, KeepsNames DEF ReleaseCheck
<1>10. ASSUME NEW p \in Proc, ReleaseUnlink(p) \/ ReleaseRmdir(p) PROVE SnapsUnambiguous'
  <2>1. returns[p] # "save"
    BY DEF TypeOK
  <2>2. QED
    BY <1>10, <2>1, KeepsNames DEF ReleaseUnlink, ReleaseRmdir, Return
<1>11. ASSUME NEW p \in Proc, GcLoad(p) PROVE SnapsUnambiguous'
  <2>1. \A q \in Proc : At(q, "save")' => At(q, "save") /\ snap'[q] = snap[q]
    BY <1>11 DEF GcLoad, At, Goto, TypeOK
  <2>2. \A q \in Proc : Unambiguous(snap'[q])
    BY <1>11 DEF GcLoad, SnapsUnambiguous, NamesUnique, TypeOK
  <2>3. QED
    BY <1>11, <2>1, <2>2 DEF GcLoad, SnapsUnambiguous, NamesUnique, Refuses, Does
<1>12. ASSUME NEW p \in Proc, Crash(p) PROVE SnapsUnambiguous'
  BY <1>12, KeepsNames DEF Crash
<1>13. ASSUME Expire \/ (\E r \in Roots : MoveCheckout(r)) \/ UNCHANGED vars
       PROVE  SnapsUnambiguous'
  BY <1>13 DEF Expire, MoveCheckout, vars, SnapsUnambiguous, NamesUnique, At, Refuses, Does
<1>14. QED
  BY <1>1, <1>2, <1>3, <1>4, <1>5, <1>7, <1>8, <1>9, <1>10, <1>11, <1>12, <1>13
     DEF Next, Step

\* Whatever is killed, reaped under its holder, or collected beside a running
\* registration, no project name is ever registered for two workspaces.
THEOREM RegistryNames == Spec => []NamesUnique
<1>1. Init => SnapsUnambiguous
  BY EmptyDocument DEF Init, SnapsUnambiguous, NamesUnique, At
<1>2. TypeOK /\ KindOfStep /\ SnapsUnambiguous /\ [Next]_vars => SnapsUnambiguous'
  BY NamesStep
<1>3. SnapsUnambiguous => NamesUnique
  BY DEF SnapsUnambiguous
<1>4. QED
  BY <1>1, <1>2, <1>3, TypesAndKinds, PTL DEF Spec
-----------------------------------------------------------------------------
(***************************************************************************)
(* Serialisation.  While no invocation is killed and no lock gets stale,   *)
(* no lock is reaped, the invocation in the locked section made the        *)
(* directory, and what it has read is what is on disk when it writes.      *)
(***************************************************************************)
Section == {"note", "read", "save", "relCheck", "unlink", "rmdir"}
Unanswered == {"new", "reap", "mkdir", "note", "read", "save"}

Serial ==
  /\ ~old
  /\ \A p \in Proc : pc[p] \in Section => lock = p
  /\ \A p \in Proc : returns[p] = "done"
  /\ \A p \in Proc : pc[p] = "save" => snap[p] = registry /\ ~Refuses(p, registry)
  /\ \A p \in Proc : pc[p] \in Unanswered => result[p] = None
  /\ \A p \in Proc : pc[p] \notin {"plan", "gcLoad", "gcSave", "crashed"}

\* A behaviour keeps its plan, and its calls are of the kinds the plan names.
KindsPlanned == \A p \in Proc : op[p].kind \in plan.kinds

LEMMA PlanIsRigid == [Next]_vars => UNCHANGED <<op, plan>>
<1>1. ASSUME NEW p \in Proc, Step(p) \/ Crash(p) PROVE UNCHANGED <<op, plan>>
  BY <1>1 DEF Step, Begin, Reap, Mkdir, TakeLock, Poll, Timeout, Note, Read, Save,
     ReleaseCheck, ReleaseUnlink, ReleaseRmdir, Plan, GcLoad, GcSave, Crash
<1>2. QED
  BY <1>1 DEF Next, Expire, MoveCheckout, vars

LEMMA KindsStay == Spec => []KindsPlanned
<1>1. Init => KindsPlanned
  BY DEF Init, KindsPlanned
<1>2. KindsPlanned /\ [Next]_vars => KindsPlanned'
  BY PlanIsRigid DEF KindsPlanned
<1>3. QED
  BY <1>1, <1>2, PTL DEF Spec

\* A step of p that leaves the files, the snapshots and the answers alone.
LEMMA KeepsSerial ==
  ASSUME NEW p \in Proc, TypeOK, Serial, NEW label, Goto(p, label),
         UNCHANGED <<op, snap, result, registry, lock, old, returns>>,
         label \in Section => pc[p] \in Section,
         label \in Unanswered => pc[p] \in Unanswered,
         label \notin {"save", "plan", "gcLoad", "gcSave", "crashed"}
  PROVE  Serial'
BY DEF Serial, TypeOK, Goto, Refuses, Does

LEMMA SerialStep ==
  ASSUME Sheltered, TypeOK, KindsPlanned, Serial, [Next]_vars
  PROVE  Serial'
<1> USE DEF At, data, locks, Section, Unanswered, Refuses, Does
<1>1. ASSUME NEW p \in Proc, Begin(p) PROVE Serial'
  <2>1. ~Does(p, "gc")
    BY DEF KindsPlanned, Does, Sheltered
  <2>2. QED
    BY <1>1, <2>1, KeepsSerial DEF Begin
<1>2. ASSUME NEW p \in Proc, Reap(p) PROVE Serial'
  <2>1. ~old
    BY DEF Serial
  <2>2. QED
    BY <1>2, <2>1, KeepsSerial DEF Reap
<1>3. ASSUME NEW p \in Proc, Mkdir(p) PROVE Serial'
  <2>1. \A q \in Proc : pc[q] \notin Section
    BY <1>3, RegistryAssumption, DocumentAssumption DEF Mkdir, Serial
  <2>2. \A q \in Proc : pc'[q] = IF q = p THEN "note" ELSE pc[q]
    BY <1>3 DEF Mkdir, TakeLock, Goto, TypeOK
  <2>3. QED
    BY <1>3, <2>1, <2>2 DEF Mkdir, TakeLock, Serial
<1>4. ASSUME NEW p \in Proc, Poll(p) PROVE Serial'
  BY <1>4, KeepsSerial DEF Poll
<1>5. ASSUME NEW p \in Proc, Timeout(p) PROVE Serial'
  BY <1>5 DEF Timeout, Serial, Goto, Answer, TypeOK
<1>6. ASSUME NEW p \in Proc, Note(p) PROVE Serial'
  <2>1. ~old'
    BY <1>6 DEF Note, Serial
  <2>2. QED
    BY <1>6, <2>1 DEF Note, Serial, Goto, TypeOK
<1>7. ASSUME NEW p \in Proc, Read(p) PROVE Serial'
  BY <1>7 DEF Read, Serial, BeginRelease, Goto, Answer, TypeOK
<1>8. ASSUME NEW p \in Proc, Save(p) PROVE Serial'
  <2>1. \A q \in Proc : pc[q] = "save" => q = p
    BY <1>8 DEF Save, Serial
  <2>2. \A q \in Proc : pc'[q] = IF q = p THEN "relCheck" ELSE pc[q]
    BY <1>8 DEF Save, BeginRelease, Goto, TypeOK
  <2>3. \A q \in Proc : returns'[q] = "done" /\ (q # p => result'[q] = result[q])
    BY <1>8 DEF Save, BeginRelease, Serial, Answer, TypeOK
  <2>4. lock' = lock /\ old' = old
    BY <1>8 DEF Save
  <2>5. QED
    BY <1>8, <2>1, <2>2, <2>3, <2>4 DEF Save, Serial
<1>9. ASSUME NEW p \in Proc, ReleaseCheck(p) PROVE Serial'
  BY <1>9, KeepsSerial DEF ReleaseCheck
<1>10. ASSUME NEW p \in Proc, ReleaseUnlink(p) PROVE Serial'
  <2>1. returns[p] = "done"
    BY DEF Serial
  <2>2. QED
    BY <1>10, <2>1 DEF ReleaseUnlink, Return, Serial, Goto, TypeOK
<1>11. ASSUME NEW p \in Proc, ReleaseRmdir(p) PROVE Serial'
  <2>1. returns[p] = "done" /\ \A q \in Proc : pc[q] \in Section => q = p
    BY <1>11 DEF Serial, ReleaseRmdir
  <2>2. \A q \in Proc : pc'[q] = IF q = p THEN "done" ELSE pc[q]
    BY <1>11, <2>1 DEF ReleaseRmdir, Return, Goto, TypeOK
  <2>3. \A q \in Proc : returns'[q] = "done"
    BY <1>11 DEF ReleaseRmdir, Return, Serial, TypeOK
  <2>4. ~old'
    BY <1>11 DEF ReleaseRmdir, Serial
  <2>5. QED
    BY <1>11, <2>1, <2>2, <2>3, <2>4 DEF ReleaseRmdir, Serial
<1>12. ASSUME NEW p \in Proc, Plan(p) \/ GcLoad(p) \/ GcSave(p) PROVE FALSE
  BY <1>12 DEF Plan, GcLoad, GcSave, Serial
<1>13. ASSUME NEW p \in Proc, Crash(p) PROVE FALSE
  BY <1>13 DEF Crash, Sheltered
<1>14. ASSUME Expire PROVE FALSE
  BY <1>14 DEF Expire, TypeOK, Serial, Sheltered
<1>15. ASSUME (\E r \in Roots : MoveCheckout(r)) \/ UNCHANGED vars PROVE Serial'
  BY <1>15 DEF MoveCheckout, vars, Serial
<1>16. QED
  BY <1>1, <1>2, <1>3, <1>4, <1>5, <1>6, <1>7, <1>8, <1>9, <1>10, <1>11, <1>12, <1>13,
     <1>14, <1>15 DEF Next, Step

LEMMA SerialInit == Init => Serial
BY DEF Init, Serial, Section, Unanswered

\* The edits of the abstract document are those of the concrete one.
LEMMA SameEdits ==
  ASSUME NEW doc, NEW root, NEW names, NEW fresh
  PROVE  /\ Atomic!Register(doc, root, names, fresh) = Register(doc, root, names, fresh)
         /\ Atomic!Unregister(doc, names) = Unregister(doc, names)
         /\ Atomic!Collides(doc, root, names) <=> Collides(doc, root, names)
         /\ Atomic!Mentions(doc, names) <=> Mentions(doc, names)
BY DEF Atomic!Register, Register, Atomic!Unregister, Unregister, Atomic!Collides, Collides,
       Atomic!Mentions, Mentions, Atomic!IdFor, IdFor, Atomic!Absent, Absent

LEMMA AtomicStep ==
  ASSUME TypeOK, KindOfStep, Serial, Sheltered, [Next]_vars
  PROVE  [Atomic!Next]_<<shelteredRegistry, shelteredResult>>
<1> USE DEF At, Unanswered
<1>0. /\ shelteredRegistry = registry /\ shelteredRegistry' = registry'
      /\ shelteredResult = result /\ shelteredResult' = result'
  BY PlanIsRigid DEF Sheltered, shelteredRegistry, shelteredResult
<1> USE <1>0
<1> DEFINE Stutter == UNCHANGED <<registry, result>>
<1>1. ASSUME NEW p \in Proc, Read(p) PROVE Atomic!Next \/ Stutter
  <2>1. CASE ~Refuses(p, registry)
    BY <1>1, <2>1 DEF Read
  <2>2. CASE Refuses(p, registry)
    <3>1. /\ result[p] = None /\ op[p].root \in Roots /\ op[p].names \in SUBSET Names
      BY <1>1 DEF Read, Serial, TypeOK, Ops
    <3>2. Atomic!Answer(p, Refusal(p)) /\ UNCHANGED registry
      BY <1>1, <2>2, <3>1 DEF Read, Answer, Atomic!Answer
    <3>3. CASE Does(p, "register")
      <4>1. Collides(registry, op[p].root, op[p].names)
        BY <2>2, <3>3 DEF Refuses, Does
      <4>2. Atomic!Registering(p)
        BY <3>1, <3>2, <3>3, <4>1, SameEdits DEF Atomic!Registering, Refusal
      <4>3. QED
        BY <4>2 DEF Atomic!Next
    <3>4. CASE ~Does(p, "register")
      <4>1. ~Mentions(registry, op[p].names)
        BY <2>2, <3>4 DEF Refuses
      <4>2. Atomic!Unregistering(p)
        BY <3>1, <3>2, <3>4, <4>1, SameEdits DEF Atomic!Unregistering, Refusal
      <4>3. QED
        BY <4>2 DEF Atomic!Next
    <3>5. QED
      BY <3>3, <3>4
  <2>3. QED
    BY <2>1, <2>2
<1>2. ASSUME NEW p \in Proc, Save(p) PROVE Atomic!Next \/ Stutter
  <2>1. /\ result[p] = None /\ snap[p] = registry /\ ~Refuses(p, registry)
        /\ op[p].root \in Roots /\ op[p].names \in SUBSET Names
    BY <1>2 DEF Save, Serial, TypeOK, Ops
  <2>2. CASE Answer(p, "failed") /\ UNCHANGED registry
    BY <2>1, <2>2 DEF Answer, Atomic!Answer, Atomic!Failing, Atomic!Next
  <2>3. CASE registry' = Edited(p, snap[p]) /\ Does(p, "register") /\ Answer(p, "registered")
    <3>1. Atomic!Answer(p, "registered") /\ registry' = Register(registry, op[p].root, op[p].names, p)
      BY <2>1, <2>3 DEF Answer, Atomic!Answer, Edited
    <3>2. ~Collides(registry, op[p].root, op[p].names)
      BY <2>1, <2>3 DEF Refuses
    <3>3. Atomic!Registering(p)
      BY <2>1, <3>1, <3>2, SameEdits DEF Atomic!Registering
    <3>4. QED
      BY <3>3 DEF Atomic!Next
  <2>4. CASE registry' = Edited(p, snap[p]) /\ ~Does(p, "register") /\ Answer(p, "removed")
    <3>1. Atomic!Answer(p, "removed") /\ registry' = Unregister(registry, op[p].names)
      BY <2>1, <2>4 DEF Answer, Atomic!Answer, Edited
    <3>2. Does(p, "unregister")
      BY <1>2, <2>4 DEF Save, KindOfStep, TypeOK, Ops, Does
    <3>3. Mentions(registry, op[p].names)
      BY <2>1, <3>2 DEF Refuses, Does
    <3>4. Atomic!Unregistering(p)
      BY <2>1, <3>1, <3>3, SameEdits DEF Atomic!Unregistering
    <3>5. QED
      BY <3>4 DEF Atomic!Next
  <2>5. QED
    BY <1>2, <2>2, <2>3, <2>4 DEF Save
<1>3. ASSUME NEW p \in Proc, Timeout(p) PROVE Atomic!Next \/ Stutter
  BY <1>3 DEF Timeout, Serial, Answer, Atomic!Answer, Atomic!Failing, Atomic!Next
<1>4. ASSUME NEW p \in Proc,
             Step(p) \/ Crash(p), ~Read(p), ~Save(p), ~Timeout(p), ~GcSave(p)
      PROVE  Stutter
  BY <1>4 DEF Step, Begin, Reap, Mkdir, TakeLock, Poll, Note, ReleaseCheck, ReleaseUnlink,
     ReleaseRmdir, Plan, GcLoad, Crash, data
<1>5. ASSUME NEW p \in Proc, GcSave(p) PROVE FALSE
  BY <1>5 DEF GcSave, Serial
<1>6. CASE Expire \/ (\E r \in Roots : MoveCheckout(r)) \/ UNCHANGED vars
  BY <1>6 DEF Expire, MoveCheckout, vars, data
<1>7. QED
  BY <1>1, <1>2, <1>3, <1>4, <1>5, <1>6 DEF Next

\* Sheltered invocations implement AtomicRegistry: every register_workspace and
\* unregister_project takes effect at one instant, on the document as it is at
\* that instant, so no update is lost and no refusal is based on a stale read.
THEOREM RegistryLinearizable == Spec => Linearizable
<1> DEFINE Inv == Sheltered => Serial
<1>1. Init => Atomic!Init
  BY DEF Init, Atomic!Init, Empty, Atomic!Empty, Absent, Atomic!Absent,
     shelteredRegistry, shelteredResult
<1>2. TypeOK /\ KindsPlanned /\ Inv /\ [Next]_vars => Inv'
  BY SerialStep, PlanIsRigid DEF Sheltered
<1>3. TypeOK /\ KindOfStep /\ Inv /\ [Next]_vars
        => [Atomic!Next]_<<shelteredRegistry, shelteredResult>>
  <2> SUFFICES ASSUME TypeOK, KindOfStep, Inv, [Next]_vars
               PROVE  [Atomic!Next]_<<shelteredRegistry, shelteredResult>>
    OBVIOUS
  <2>1. CASE Sheltered
    BY <2>1, AtomicStep
  <2>2. CASE ~Sheltered
    BY <2>2, PlanIsRigid DEF Sheltered, shelteredRegistry, shelteredResult
  <2>3. QED
    BY <2>1, <2>2
<1>4. Init => Inv
  BY SerialInit
<1> HIDE DEF Inv
<1>5. QED
  BY <1>1, <1>2, <1>3, <1>4, KindsStay, TypesAndKinds, PTL DEF Spec, Linearizable, Atomic!Spec

LEMMA IdKeptStep ==
  ASSUME TypeOK, KindOfStep, Serial, Sheltered, [Next]_vars,
         NEW r \in Roots, registry[r] # Absent, registry'[r] # Absent
  PROVE  registry'[r].id \in {registry[r].id, Manifest[r]}
<1>1. CASE UNCHANGED registry
  BY <1>1
<1>2. ASSUME NEW p \in Proc, At(p, "save"), registry' = Edited(p, snap[p])
      PROVE  registry'[r].id \in {registry[r].id, Manifest[r]}
  <2>1. registry \in Document /\ snap[p] = registry
    BY <1>2 DEF Serial, TypeOK, At
  <2>2. \A names : Unregister(registry, names)[r] # Absent
                     => Unregister(registry, names)[r].id = registry[r].id
    BY DEF Unregister
  <2>3. \A root, names : Register(registry, root, names, p)[r].id \in {registry[r].id, Manifest[r]}
    BY <2>1 DEF Register, IdFor, Document, Entry
  <2>4. QED
    BY <1>2, <2>1, <2>2, <2>3 DEF Edited
<1>3. UNCHANGED registry \/ \E p \in Proc : At(p, "save") /\ registry' = Edited(p, snap[p])
  <2>1. ASSUME NEW p \in Proc, GcSave(p) PROVE FALSE
    BY <2>1 DEF GcSave, Serial, At
  <2>2. QED
    BY <2>1 DEF Next, Step, Begin, Reap, Mkdir, TakeLock, Poll, Timeout, Note, Read, Save,
       ReleaseCheck, ReleaseUnlink, ReleaseRmdir, Plan, GcLoad, Crash, Expire,
       MoveCheckout, data, vars
<1>4. QED
  BY <1>1, <1>2, <1>3

\* A workspace that is registered again by sheltered invocations keeps the id
\* that keys its state directory, unless its workspace.yaml commits another.
THEOREM RegistryIds == Spec => IdKept
<1> DEFINE Inv == Sheltered => Serial
<1>1. TypeOK /\ KindsPlanned /\ Inv /\ [Next]_vars => Inv'
  BY SerialStep, PlanIsRigid DEF Sheltered
<1>2. TypeOK /\ KindOfStep /\ Inv /\ [Next]_vars
        => [\A r \in Roots :
              Sheltered /\ registry[r] # Absent /\ registry'[r] # Absent =>
                registry'[r].id \in {registry[r].id, Manifest[r]}]_vars
  BY IdKeptStep
<1>3. Init => Inv
  BY SerialInit
<1> HIDE DEF Inv
<1>4. QED
  BY <1>1, <1>2, <1>3, KindsStay, TypesAndKinds, PTL DEF Spec, IdKept
-----------------------------------------------------------------------------
(***************************************************************************)
(* The lock directory.                                                     *)
(***************************************************************************)
\* Somebody is on the way to remove the directory, or was killed.
Cleaner(p) ==
  \/ pc[p] \in {"note", "read", "save", "relCheck", "crashed"}
  \/ pc[p] = "unlink" /\ noted
  \/ pc[p] = "rmdir" /\ ~noted

SomeoneCleans == lock # None => \E p \in Proc : Cleaner(p)

LEMMA SomeoneCleansStep ==
  ASSUME TypeOK, SomeoneCleans, [Next]_vars
  PROVE  SomeoneCleans'
<1> USE DEF SomeoneCleans, Cleaner, TypeOK, At, Goto, locks
<1>1. ASSUME NEW p \in Proc, Begin(p) \/ Reap(p) \/ Poll(p) \/ Timeout(p)
      PROVE SomeoneCleans'
  BY <1>1 DEF Begin, Reap, Poll, Timeout, BeginRelease
<1>2. ASSUME NEW p \in Proc, Mkdir(p) PROVE SomeoneCleans'
  BY <1>2 DEF Mkdir, TakeLock
<1>3. ASSUME NEW p \in Proc, Note(p) PROVE SomeoneCleans'
  BY <1>3 DEF Note
<1>4. ASSUME NEW p \in Proc, Read(p) \/ Save(p) PROVE SomeoneCleans'
  BY <1>4 DEF Read, Save, BeginRelease
<1>5. ASSUME NEW p \in Proc, ReleaseCheck(p) PROVE SomeoneCleans'
  BY <1>5 DEF ReleaseCheck
<1>6. ASSUME NEW p \in Proc, ReleaseUnlink(p) PROVE SomeoneCleans'
  BY <1>6 DEF ReleaseUnlink, Return
<1>7. ASSUME NEW p \in Proc, ReleaseRmdir(p) PROVE SomeoneCleans'
  BY <1>7 DEF ReleaseRmdir, Return
<1>8. ASSUME NEW p \in Proc, Plan(p) \/ GcLoad(p) \/ GcSave(p) PROVE SomeoneCleans'
  BY <1>8 DEF Plan, GcLoad, GcSave
<1>9. ASSUME NEW p \in Proc, Crash(p) PROVE SomeoneCleans'
  BY <1>9 DEF Crash
<1>10. ASSUME Expire PROVE SomeoneCleans'
  BY <1>10 DEF Expire
<1>11. ASSUME NEW r \in Roots, MoveCheckout(r) PROVE SomeoneCleans'
  BY <1>11 DEF MoveCheckout
<1>12. ASSUME UNCHANGED vars PROVE SomeoneCleans'
  BY <1>12 DEF vars
<1>13. QED
  BY <1>1, <1>2, <1>3, <1>4, <1>5, <1>6, <1>7, <1>8, <1>9, <1>10, <1>11, <1>12
     DEF Next, Step

\* When every invocation has returned and none was killed no lock directory is
\* left, even if locks are reaped under their holders.
THEOREM RegistryNoResidue == Spec => []NoLockLeft
<1>1. Init => SomeoneCleans
  BY DEF Init, SomeoneCleans
<1>2. TypeOK /\ SomeoneCleans /\ [Next]_vars => SomeoneCleans'
  BY SomeoneCleansStep
<1>3. SomeoneCleans => NoLockLeft
  BY DEF SomeoneCleans, Cleaner, NoLockLeft
<1>4. QED
  BY <1>1, <1>2, <1>3, RegistryTyping, PTL DEF Spec
=============================================================================
