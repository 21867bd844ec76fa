--------------------------- MODULE GovernanceProofs ---------------------------
(***************************************************************************)
(* What holds of the governance rows for any items, sessions and number of *)
(* schema versions.                                                        *)
(***************************************************************************)
EXTENDS GovernanceStore, TLAPS

\* A behaviour keeps its plan.
LEMMA PlanIsRigid == [Next]_vars => UNCHANGED plan
<1>1. ASSUME Tools PROVE UNCHANGED plan
  BY <1>1 DEF Tools, Record, Resolve, StartSession, CreateSession, Sync, Prune,
     DeleteRow, Pruned, Commit
<1>2. ASSUME Index PROVE UNCHANGED plan
  BY <1>2 DEF Index, StartIndex, Export, ForceRebuild, Clear, Import, PhaseFails,
     Ingest, ReadPlans
<1>3. ASSUME Outside PROVE UNCHANGED plan
  BY <1>3 DEF Outside, Crash, Upgrade, DeleteCache, Pull, Conflict
<1>4. QED
  BY <1>1, <1>2, <1>3 DEF Next, vars

\* What the functions that make rows return.
LEMMA ConstantRows == Empty \in Rows /\ Texts \in Rows
BY DEF Rows, Status, Empty, Texts

LEMMA InsertedRows ==
  ASSUME graph \in Rows, NEW rows \in Rows, NEW S
  PROVE  Inserted(rows, S) \in Rows
BY DEF Rows, Inserted

LEMMA MarkedRows ==
  ASSUME graph \in Rows, NEW S, NEW status \in Status
  PROVE  Marked(S, status) \in Rows
BY DEF Rows, Marked

LEMMA SessionRows == \A s \in Session : s \in Row /\ s \notin PlanText
BY StoreAssumption DEF Row

\* Where the process is tells what it has in memory.
InMemory ==
  /\ pc = "import" => from # 0
  /\ pc = "export" => stored # 0
  /\ pc = "create" => fresh # None

LEMMA IncomingTyping ==
  ASSUME TypeOK, InMemory, pc \in {"import", "phases", "texts"}
  PROVE  Incoming \in Rows
BY ConstantRows DEF Incoming, TypeOK, InMemory

LEMMA InsertTyping ==
  ASSUME TypeOK, InMemory, pc \in {"import", "phases", "texts"}, Insert
  PROVE  graph' \in Rows
<1>1. graph \in Rows
  BY DEF TypeOK
<1>2. QED
  BY <1>1, IncomingTyping, InsertedRows DEF Insert

LEMMA TypingStep ==
  ASSUME TypeOK, InMemory, [Next]_vars
  PROVE  TypeOK' /\ InMemory'
<1> USE StoreAssumption, ConstantRows, InsertedRows, MarkedRows
<1>1. ASSUME NEW S \in SUBSET Row, Record(S) PROVE TypeOK' /\ InMemory'
  <2>1. [r \in Row |-> "open"] \in Rows
    BY DEF Rows, Status
  <2>2. graph' \in Rows
    BY <1>1, <2>1 DEF Record, TypeOK
  <2>3. QED
    BY <1>1, <2>2 DEF Record, Commit, TypeOK, InMemory
<1>2. ASSUME NEW r \in Row, Resolve(r) PROVE TypeOK' /\ InMemory'
  <2>1. graph' \in Rows
    BY <1>2 DEF Resolve, TypeOK, Status
  <2>2. QED
    BY <1>2, <2>1 DEF Resolve, Commit, TypeOK, InMemory
<1>3. ASSUME NEW s \in Session, NEW S \in SUBSET Session, StartSession(s, S)
      PROVE  TypeOK' /\ InMemory'
  <2>1. graph' \in Rows
    BY <1>3 DEF StartSession, TypeOK, Status
  <2>2. QED
    BY <1>3, <2>1 DEF StartSession, Commit, TypeOK, InMemory, OpenSessions, Row
<1>4. CASE CreateSession
  <2>1. graph' \in Rows
    BY <1>4 DEF CreateSession, TypeOK, Status
  <2>2. fresh \in Session
    BY <1>4 DEF CreateSession, TypeOK, InMemory
  <2>3. QED
    BY <1>4, <2>1, <2>2 DEF CreateSession, Commit, TypeOK, InMemory, Row
<1>5. CASE Sync
  <2>1. graph \in Rows /\ artifact' \in Rows /\ readable' \in BOOLEAN
    BY <1>5 DEF Sync, TypeOK
  <2>2. told' \in [Row -> Status \cup {"pruned"}]
    BY <1>5, <2>1 DEF Sync, TypeOK, Rows
  <2>3. pc' \in {"idle", "create"} /\ todo' \subseteq Row /\ fresh' \in Session \cup {None}
        /\ from' \in 0..MaxVersion /\ InMemory'
    BY <1>5 DEF Sync, Close, TypeOK, InMemory
  <2>4. QED
    BY <1>5, <2>1, <2>2, <2>3 DEF Sync, TypeOK
<1>6. ASSUME NEW S \in SUBSET Row, Prune(S) PROVE TypeOK' /\ InMemory'
  BY <1>6 DEF Prune, TypeOK, InMemory, disk
<1>7. ASSUME NEW r \in Row, DeleteRow(r) PROVE TypeOK' /\ InMemory'
  <2>1. graph' \in Rows
    BY <1>7 DEF DeleteRow, TypeOK, Status
  <2>2. told' \in [Row -> Status \cup {"pruned"}]
    BY <1>7 DEF DeleteRow, TypeOK
  <2>3. QED
    BY <1>7, <2>1, <2>2 DEF DeleteRow, TypeOK, InMemory
<1>8. CASE Pruned
  BY <1>8 DEF Pruned, Commit, TypeOK, InMemory
<1>9. CASE StartIndex
  BY <1>9 DEF StartIndex, TypeOK, InMemory
<1>10. CASE Export
  <2>1. stored \in 1..MaxVersion
    BY <1>10 DEF Export, TypeOK, InMemory
  <2>2. exports' \in [1..MaxVersion -> Rows]
    BY <1>10, <2>1 DEF Export, TypeOK
  <2>3. QED
    BY <1>10, <2>1, <2>2 DEF Export, Close, TypeOK, InMemory
<1>11. CASE ForceRebuild \/ Clear \/ PhaseFails
  BY <1>11 DEF ForceRebuild, Clear, PhaseFails, Close, TypeOK, InMemory, disk, Empty, Rows, Status
<1>12. CASE Import \/ Ingest \/ ReadPlans
  <2>1. graph' \in Rows
    BY <1>12, InsertTyping DEF Import, Ingest, ReadPlans
  <2>2. QED
    BY <1>12, <2>1 DEF Import, Ingest, ReadPlans, Close, TypeOK, InMemory
<1>13. CASE Crash
  <2>1. ASSUME pc \in {"import", "phases", "texts"}, NEW S \in SUBSET Row,
               graph' = Inserted(Incoming, S)
        PROVE  graph' \in Rows
    BY <2>1, IncomingTyping DEF TypeOK
  <2>2. graph' \in Rows
    BY <1>13, <2>1 DEF Crash, TypeOK, disk
  <2>3. exports' \in [1..MaxVersion -> Rows]
    BY <1>13 DEF Crash, TypeOK, disk
  <2>4. stored' \in {stored, 0} /\ artifact' = artifact /\ readable' = readable
    BY <1>13 DEF Crash, disk
  <2>5. QED
    BY <1>13, <2>2, <2>3, <2>4 DEF Crash, Close, TypeOK, InMemory
<1>14. CASE Upgrade \/ DeleteCache \/ Conflict
  <2>1. version' \in 1..MaxVersion /\ stored' \in 0..version'
    BY <1>14 DEF Upgrade, DeleteCache, Conflict, TypeOK, disk
  <2>2. graph' \in Rows /\ readable' \in BOOLEAN
    BY <1>14 DEF Upgrade, DeleteCache, Conflict, TypeOK, disk
  <2>3. UNCHANGED <<plan, artifact, exports, proc, told>>
    BY <1>14 DEF Upgrade, DeleteCache, Conflict, disk
  <2>4. pc = "idle" \/ UNCHANGED stored
    BY <1>14 DEF Upgrade, DeleteCache, Conflict
  <2>5. QED
    BY <2>1, <2>2, <2>3, <2>4 DEF TypeOK, InMemory, proc
<1>15. ASSUME NEW r \in plan.rows, Pull(r) PROVE TypeOK' /\ InMemory'
  <2>1. artifact' \in Rows
    BY <1>15 DEF Pull, TypeOK, Rows, Status
  <2>2. QED
    BY <1>15, <2>1 DEF Pull, TypeOK, InMemory, proc
<1>16. CASE UNCHANGED vars
  BY <1>16 DEF vars, disk, proc, TypeOK, InMemory
<1>17. ASSUME Tools PROVE TypeOK' /\ InMemory'
  <2>1. \A S \in SUBSET ((Item \ PlanText) \cap plan.rows) : S \in SUBSET Row
    BY DEF Row
  <2>2. QED
    BY <2>1, <1>1, <1>2, <1>3, <1>4, <1>5, <1>6, <1>7, <1>8, <1>17 DEF Tools
<1>18. ASSUME Index PROVE TypeOK' /\ InMemory'
  BY <1>9, <1>10, <1>11, <1>12, <1>18 DEF Index
<1>19. ASSUME Outside PROVE TypeOK' /\ InMemory'
  BY <1>13, <1>14, <1>15, <1>19 DEF Outside
<1>20. QED
  BY <1>16, <1>17, <1>18, <1>19 DEF Next

LEMMA TypingInit == Init => TypeOK /\ InMemory
BY StoreAssumption, ConstantRows DEF Init, TypeOK, InMemory, Empty, Status

\* Every variable keeps its type.
THEOREM GovernanceTyping == Spec => []TypeOK
<1>1. TypeOK /\ InMemory /\ [Next]_vars => (TypeOK /\ InMemory)'
  BY TypingStep
<1>2. QED
  BY <1>1, TypingInit, PTL DEF Spec

-----------------------------------------------------------------------------
(***************************************************************************)
(* No acknowledged row is lost: while the database is kept, what is not in *)
(* it is in the export of a version it has left.  The step that empties it *)
(* has the export of exactly its rows behind it, or the user's word that   *)
(* none of them matters.                                                   *)
(***************************************************************************)
Held(r) == graph[r] # "absent" \/ \E v \in Past : exports[v][r] # "absent"

AllHeld == \A r \in Row : told[r] \in {"open", "done"} => Held(r)

Exported ==
  /\ pc = "export" => stored < version
  /\ pc = "clear" => IF from = 0
                     THEN told = Empty
                     ELSE from = stored /\ stored < version /\ exports[stored] = graph

\* A step of the tools, or an insertion, that takes no row out of the database.
LEMMA KeepsHeld ==
  ASSUME AllHeld, UNCHANGED <<version, stored, exports>>,
         pc' \notin {"export", "clear"},
         \A r \in Row : graph[r] # "absent" => graph'[r] # "absent",
         \A r \in Row : told'[r] = told[r] \/ graph'[r] # "absent"
                          \/ told'[r] \notin {"open", "done"}
  PROVE  AllHeld' /\ Exported'
BY DEF AllHeld, Held, Past, Exported

LEMMA MarkedKeeps ==
  ASSUME graph \in Rows, NEW S, NEW status, status # "absent", NEW r \in Row,
         graph[r] # "absent"
  PROVE  Marked(S, status)[r] # "absent"
BY DEF Marked

LEMMA InsertedKeeps ==
  ASSUME graph \in Rows, NEW rows, NEW S, NEW r \in Row, graph[r] # "absent"
  PROVE  Inserted(rows, S)[r] # "absent"
BY DEF Inserted

LEMMA HeldStep ==
  ASSUME "delete" \notin plan.events, TypeOK, InMemory, AllHeld, Exported, [Next]_vars
  PROVE  AllHeld' /\ Exported'
<1> USE StoreAssumption
<1>0. graph \in Rows
  BY DEF TypeOK
<1>1. ASSUME NEW S \in SUBSET Row, Record(S) PROVE AllHeld' /\ Exported'
  BY <1>0, <1>1, KeepsHeld, InsertedKeeps DEF Record, Commit
<1>2. ASSUME NEW r \in Row, Resolve(r) PROVE AllHeld' /\ Exported'
  BY <1>0, <1>2, KeepsHeld, MarkedKeeps DEF Resolve, Commit
<1>3. ASSUME NEW s \in Session, NEW S \in SUBSET Session, StartSession(s, S)
      PROVE  AllHeld' /\ Exported'
  BY <1>0, <1>3, KeepsHeld, MarkedKeeps DEF StartSession, Commit
<1>4. CASE CreateSession
  BY <1>0, <1>4, KeepsHeld, MarkedKeeps DEF CreateSession, Commit
<1>5. CASE Sync
  <2>1. \A r \in Row : told'[r] = told[r] \/ told'[r] = graph[r]
    BY <1>5 DEF Sync
  <2>2. \A r \in Row : graph[r] # "absent" \/ graph[r] \notin {"open", "done"}
    OBVIOUS
  <2>3. UNCHANGED <<version, stored, exports, graph>> /\ pc' \notin {"export", "clear"}
    BY <1>5 DEF Sync, Close
  <2>4. QED
    BY <2>1, <2>2, <2>3, KeepsHeld
<1>6. ASSUME NEW S \in SUBSET Row, Prune(S) PROVE AllHeld' /\ Exported'
  BY <1>6, KeepsHeld DEF Prune, disk
<1>7. ASSUME NEW r \in Row, DeleteRow(r) PROVE AllHeld' /\ Exported'
  <2>1. \A q \in Row : q # r => graph'[q] = graph[q] /\ told'[q] = told[q]
    BY <1>7 DEF DeleteRow, Marked, TypeOK
  <2>2. told'[r] = "pruned"
    BY <1>7 DEF DeleteRow, TypeOK
  <2>3. UNCHANGED <<version, stored, exports, pc>> /\ pc = "prune"
    BY <1>7 DEF DeleteRow
  <2>4. QED
    BY <2>1, <2>2, <2>3 DEF AllHeld, Held, Past, Exported
<1>8. CASE Pruned
  BY <1>8, KeepsHeld DEF Pruned, Commit
<1>9. CASE StartIndex
  <2>1. Past' = Past
    BY <1>9 DEF StartIndex, Past, TypeOK
  <2>2. UNCHANGED <<graph, exports, told>>
    BY <1>9 DEF StartIndex
  <2>3. Exported'
    BY <1>9 DEF StartIndex, Exported, TypeOK
  <2>4. QED
    BY <2>1, <2>2, <2>3 DEF AllHeld, Held
<1>10. CASE Export
  <2>1. stored \in 1..MaxVersion /\ stored \notin Past /\ Past \subseteq 1..MaxVersion
    BY <1>10 DEF Export, TypeOK, InMemory, Past
  <2>2. \A v \in Past : exports'[v] = exports[v]
    BY <1>10, <2>1 DEF Export, TypeOK
  <2>3. UNCHANGED <<version, stored, graph, told>>
    BY <1>10 DEF Export
  <2>4. AllHeld'
    BY <2>2, <2>3 DEF AllHeld, Held, Past
  <2>5. Exported'
    BY <1>10, <2>1 DEF Export, Close, Exported, TypeOK
  <2>6. QED
    BY <2>4, <2>5
<1>11. CASE ForceRebuild
  BY <1>11 DEF ForceRebuild, AllHeld, Exported, Empty, disk
<1>12. CASE Clear
  <2>1. pc' \notin {"export", "clear"} /\ UNCHANGED <<exports, told, version>>
    BY <1>12 DEF Clear
  <2>2. CASE from = 0
    BY <1>12, <2>1, <2>2 DEF Clear, AllHeld, Exported, Empty
  <2>3. CASE from # 0
    <3>1. from = stored /\ stored < version /\ exports[stored] = graph
      BY <1>12, <2>3 DEF Clear, Exported
    <3>2. Past' = 1..(version - 1)
      BY <1>12, <2>1 DEF Clear, Past, TypeOK
    <3>3. Past = 1..(stored - 1)
      BY <2>3, <3>1 DEF Past
    <3>4. stored \in Nat /\ version \in Nat
      BY DEF TypeOK
    <3>5. Past \subseteq Past'
      BY <3>1, <3>2, <3>3, <3>4
    <3>6. stored \in Past'
      BY <2>3, <3>1, <3>2, <3>4
    <3>7. ASSUME NEW r \in Row, told'[r] \in {"open", "done"} PROVE Held(r)'
      BY <2>1, <3>1, <3>5, <3>6, <3>7 DEF AllHeld, Held
    <3>8. QED
      BY <2>1, <3>7 DEF AllHeld, Exported
  <2>4. QED
    BY <2>2, <2>3
<1>13. CASE Import \/ Ingest \/ ReadPlans
  <2>1. \A r \in Row : graph[r] # "absent" => graph'[r] # "absent"
    BY <1>0, <1>13, InsertedKeeps DEF Import, Ingest, ReadPlans, Insert
  <2>2. QED
    BY <1>13, <2>1, KeepsHeld DEF Import, Ingest, ReadPlans, Close
<1>14. CASE PhaseFails
  BY <1>14, KeepsHeld DEF PhaseFails, Close, disk
<1>15. CASE Crash
  <2>1. pc' = "idle" /\ UNCHANGED <<version, told>>
    BY <1>15 DEF Crash, Close
  <2>2. CASE UNCHANGED disk
    BY <2>1, <2>2, KeepsHeld DEF disk
  <2>3. CASE pc = "export" /\ exports' = [exports EXCEPT ![stored] = Empty]
             /\ UNCHANGED <<graph, stored>>
    <3>1. stored \in 1..MaxVersion /\ stored \notin Past /\ Past \subseteq 1..MaxVersion
      BY <2>3 DEF TypeOK, InMemory, Past
    <3>2. \A v \in Past : exports'[v] = exports[v]
      BY <2>3, <3>1 DEF TypeOK
    <3>3. QED
      BY <2>1, <2>3, <3>2 DEF AllHeld, Held, Past, Exported
  <2>4. CASE pc = "clear" /\ graph' = Empty /\ stored' = 0 /\ UNCHANGED exports
    <3>1. CASE from = 0
      BY <2>1, <2>4, <3>1 DEF AllHeld, Exported, Empty
    <3>2. CASE from # 0
      <4>1. from = stored /\ stored < version /\ exports[stored] = graph
        BY <2>4, <3>2 DEF Exported
      <4>2. Past' = 1..(version - 1)
        BY <2>1, <2>4 DEF Past
      <4>3. Past = 1..(stored - 1)
        BY <3>2, <4>1 DEF Past
      <4>4. stored \in Nat /\ version \in Nat
        BY DEF TypeOK
      <4>5. Past \subseteq Past' /\ stored \in Past'
        BY <3>2, <4>1, <4>2, <4>3, <4>4
      <4>6. ASSUME NEW r \in Row, told'[r] \in {"open", "done"} PROVE Held(r)'
        BY <2>1, <2>4, <4>1, <4>5, <4>6 DEF AllHeld, Held
      <4>7. QED
        BY <2>1, <4>6 DEF AllHeld, Exported
    <3>3. QED
      BY <3>1, <3>2
  <2>5. ASSUME NEW S \in SUBSET Row, graph' = Inserted(Incoming, S),
               UNCHANGED <<stored, exports>>
        PROVE  AllHeld' /\ Exported'
    BY <1>0, <2>1, <2>5, InsertedKeeps, KeepsHeld
  <2>6. QED
    BY <1>15, <2>2, <2>3, <2>4, <2>5 DEF Crash
<1>16. CASE Upgrade
  <2>1. UNCHANGED <<pc, stored, graph, exports, told>> /\ pc = "idle"
    BY <1>16 DEF Upgrade, disk, proc
  <2>2. Past \subseteq Past'
    BY <1>16, <2>1 DEF Upgrade, Past, TypeOK
  <2>3. QED
    BY <2>1, <2>2 DEF AllHeld, Held, Exported
<1>17. ASSUME Conflict \/ (\E r \in plan.rows : Pull(r)) \/ UNCHANGED vars
       PROVE  AllHeld' /\ Exported'
  BY <1>17 DEF Conflict, Pull, vars, disk, proc, AllHeld, Held, Past, Exported
<1>18. ASSUME Tools PROVE AllHeld' /\ Exported'
  <2>1. \A S \in SUBSET ((Item \ PlanText) \cap plan.rows) : S \in SUBSET Row
    BY DEF Row
  <2>2. QED
    BY <2>1, <1>1, <1>2, <1>3, <1>4, <1>5, <1>6, <1>7, <1>8, <1>18 DEF Tools
<1>19. QED
  BY <1>9, <1>10, <1>11, <1>12, <1>13, <1>14, <1>15, <1>16, <1>17, <1>18
     DEF Next, Index, Outside, DeleteCache

\* What a caller was told is recorded stays in the database or in the export
\* of a version it has left, whatever fails or dies on the way.
THEOREM NoRowLost == Spec => []NothingLost
<1> DEFINE Inv == "delete" \notin plan.events => AllHeld /\ Exported
<1>1. Init => Inv
  BY DEF Init, AllHeld, Exported, Empty
<1>2. TypeOK /\ InMemory /\ Inv /\ [Next]_vars => Inv'
  BY HeldStep, PlanIsRigid
<1>3. Inv => NothingLost
  BY DEF NothingLost, AllHeld, Held
<1>4. TypeOK /\ InMemory /\ [Next]_vars => (TypeOK /\ InMemory)'
  BY TypingStep
<1> HIDE DEF Inv
<1>5. QED
  BY <1>1, <1>2, <1>3, <1>4, TypingInit, PTL DEF Spec

-----------------------------------------------------------------------------
(***************************************************************************)
(* A disposition stands: a row somebody was told is done is done in the    *)
(* database, or in the export that is about to fill it.                    *)
(***************************************************************************)
Calm == plan.events \cap {"crash", "import", "delete", "force"} = {}

Done(r) == IF pc = "import" THEN exports[from][r] = "done" ELSE graph[r] = "done"

AllDone == \A r \in Row : told[r] = "done" => Done(r)

Carried ==
  /\ pc = "clear" => from # 0 /\ exports[from] = graph
  /\ pc = "import" => graph = Empty
  /\ fresh # None => pc \in {"sync", "create"} /\ fresh \notin todo /\ told[fresh] = "absent"

DoneInv == AllDone /\ Carried

\* A step outside a rebuild that takes no disposition back and tells of none
\* that is not in the database.
LEMMA KeepsDone ==
  ASSUME AllDone, pc # "import", pc' \notin {"clear", "import"},
         \A r \in Row : told[r] = "done" => graph'[r] = "done" \/ told'[r] # "done",
         \A r \in Row : told'[r] = "done" => told[r] = "done" \/ graph'[r] = "done"
  PROVE  AllDone'
BY DEF AllDone, Done

LEMMA DoneStep ==
  ASSUME Calm, TypeOK, InMemory, DoneInv, [Next]_vars
  PROVE  DoneInv'
<1> USE StoreAssumption DEF DoneInv
<1>0. graph \in Rows /\ told \in [Row -> Status \cup {"pruned"}]
  BY DEF TypeOK
<1>settled. pc # "import" => \A r \in Row : told[r] = "done" => graph[r] = "done"
  BY DEF AllDone, Done
<1>1. ASSUME NEW S \in SUBSET Row, Record(S) PROVE DoneInv'
  <2>1. \A r \in Row : told[r] = "done" => graph'[r] = "done"
    BY <1>settled, <1>1 DEF Record, Opens, Inserted
  <2>2. QED
    BY <1>1, <2>1, KeepsDone DEF Record, Opens, Commit, Carried
<1>2. ASSUME NEW r \in Row, Resolve(r) PROVE DoneInv'
  <2>1. \A q \in Row : told[q] = "done" => graph'[q] = "done"
    BY <1>settled, <1>2 DEF Resolve, Opens, Marked
  <2>2. QED
    BY <1>2, <2>1, KeepsDone DEF Resolve, Opens, Commit, Carried
<1>3. ASSUME NEW s \in Session, NEW S \in SUBSET Session, StartSession(s, S) PROVE DoneInv'
  <2>1. told[s] = "absent" /\ graph[s] = "absent" /\ pc = "idle" /\ s # None
    BY <1>3 DEF StartSession, Unused, Opens
  <2>2. s \notin S
    BY <1>3, <2>1 DEF StartSession, OpenSessions
  <2>3. \A q \in Row : told[q] = "done" => graph'[q] = "done"
    BY <1>settled, <1>3, <2>1 DEF StartSession, Marked
  <2>4. pc' = "sync" /\ told' = told
    BY <1>3 DEF StartSession, Commit
  <2>5. fresh' = None \/ (fresh' = s /\ todo' = S)
    BY <1>3 DEF StartSession, Commit
  <2>6. QED
    BY <2>1, <2>2, <2>3, <2>4, <2>5, KeepsDone DEF Carried
<1>4. CASE CreateSession
  <2>1. told[fresh] = "absent" /\ pc = "create"
    BY <1>4 DEF CreateSession, Carried, InMemory
  <2>2. \A q \in Row : told[q] = "done" => graph'[q] = "done"
    BY <1>settled, <1>4, <2>1 DEF CreateSession, Marked
  <2>3. QED
    BY <1>4, <2>1, <2>2, KeepsDone DEF CreateSession, Commit, Carried
<1>5. CASE Sync
  <2>1. pc = "sync" /\ pc' \in {"idle", "create"} /\ graph' = graph
    BY <1>5 DEF Sync, Close
  <2>2. \A r \in Row : told'[r] = IF r \in todo THEN graph[r] ELSE told[r]
    BY <1>5 DEF Sync
  <2>3. fresh' = None \/ (fresh' = fresh /\ todo' = todo /\ pc' = "create")
    BY <1>5 DEF Sync, Close
  <2>4. fresh \in Session => fresh \in Row
    BY DEF Row
  <2>5. AllDone'
    BY <1>settled, <2>1, <2>2, KeepsDone
  <2>6. Carried'
    BY <2>1, <2>2, <2>3, <2>4 DEF Carried, TypeOK
  <2>7. QED
    BY <2>5, <2>6
<1>6. ASSUME NEW S \in SUBSET Row, Prune(S) PROVE DoneInv'
  BY <1>settled, <1>6, KeepsDone DEF Prune, Opens, disk, Carried
<1>7. ASSUME NEW r \in Row, DeleteRow(r) PROVE DoneInv'
  <2>1. \A q \in Row : q # r => graph'[q] = graph[q] /\ told'[q] = told[q]
    BY <1>7 DEF DeleteRow, Marked, TypeOK
  <2>2. told'[r] = "pruned" /\ pc = "prune" /\ pc' = pc /\ fresh' = fresh
    BY <1>7 DEF DeleteRow, TypeOK
  <2>3. QED
    BY <1>settled, <2>1, <2>2, KeepsDone DEF Carried
<1>8. CASE Pruned
  BY <1>settled, <1>8, KeepsDone DEF Pruned, Commit, Carried
<1>9. CASE StartIndex
  <2>1. pc = "idle" /\ pc' \in {"export", "phases"} /\ UNCHANGED <<graph, told, fresh>>
    BY <1>9 DEF StartIndex
  <2>2. QED
    BY <1>settled, <2>1, KeepsDone DEF Carried
<1>10. CASE Export
  <2>1. UNCHANGED <<graph, told>> /\ pc = "export" /\ fresh = None
    BY <1>10 DEF Export, Carried
  <2>2. fresh' = None
    BY <1>10, <2>1 DEF Export, Close
  <2>3. pc' = "clear" => from' # 0 /\ exports'[from'] = graph
    <3>1. stored \in 1..MaxVersion
      BY <2>1 DEF TypeOK, InMemory
    <3>2. QED
      BY <1>10, <3>1 DEF Export, Close, TypeOK
  <2>4. pc' # "import"
    BY <1>10 DEF Export, Close
  <2>5. QED
    BY <1>settled, <2>1, <2>2, <2>3, <2>4 DEF AllDone, Done, Carried
<1>11. CASE ForceRebuild
  BY <1>11 DEF ForceRebuild, Calm
<1>12. CASE Clear
  <2>1. pc = "clear" /\ from # 0 /\ exports[from] = graph /\ fresh = None
    BY <1>12 DEF Clear, Carried
  <2>2. pc' = "import" /\ graph' = Empty /\ UNCHANGED <<exports, from, told, fresh>>
    BY <1>12, <2>1 DEF Clear
  <2>3. QED
    BY <1>settled, <2>1, <2>2 DEF AllDone, Done, Carried
<1>13. CASE Import
  <2>1. graph' = Inserted(exports[from], Row) /\ graph = Empty /\ fresh = None
    BY <1>13 DEF Import, Insert, Incoming, Calm, Carried
  <2>2. \A r \in Row : told[r] = "done" => graph'[r] = "done"
    BY <1>13, <2>1 DEF Import, Inserted, Empty, AllDone, Done
  <2>3. pc' = "phases" /\ UNCHANGED <<told, fresh>>
    BY <1>13 DEF Import
  <2>4. QED
    BY <2>1, <2>2, <2>3 DEF AllDone, Done, Carried
<1>14. CASE Ingest \/ ReadPlans
  <2>1. pc # "import" /\ pc' \in {"texts", "idle"} /\ told' = told /\ fresh = None
    BY <1>14 DEF Ingest, ReadPlans, Close, Carried
  <2>2. fresh' = None
    BY <1>14, <2>1 DEF Ingest, ReadPlans, Close
  <2>3. \A r \in Row : told[r] = "done" => graph'[r] = "done"
    BY <1>settled, <1>14, <2>1 DEF Ingest, ReadPlans, Insert, Inserted
  <2>4. QED
    BY <2>1, <2>2, <2>3, KeepsDone DEF Carried
<1>15. CASE PhaseFails
  BY <1>settled, <1>15, KeepsDone DEF PhaseFails, Close, disk, Carried
<1>16. ASSUME Crash \/ DeleteCache PROVE FALSE
  BY <1>16 DEF Crash, DeleteCache, Calm
<1>17. ASSUME Upgrade \/ Conflict \/ (\E r \in plan.rows : Pull(r)) \/ UNCHANGED vars
       PROVE  DoneInv'
  BY <1>17 DEF Upgrade, Conflict, Pull, vars, disk, proc, AllDone, Done, Carried
<1>18. ASSUME Tools PROVE DoneInv'
  <2>1. \A S \in SUBSET ((Item \ PlanText) \cap plan.rows) : S \in SUBSET Row
    BY DEF Row
  <2>2. QED
    BY <2>1, <1>1, <1>2, <1>3, <1>4, <1>5, <1>6, <1>7, <1>8, <1>18 DEF Tools
<1>19. QED
  BY <1>9, <1>10, <1>11, <1>12, <1>13, <1>14, <1>15, <1>16, <1>17, <1>18
     DEF Next, Index, Outside

\* A disposition a caller was told of is not taken back by a failed write of
\* the artifact, an older artifact from git, or a change of the schema.
THEOREM DispositionsStand == Spec => []DispositionStands
<1> DEFINE Inv == Calm => DoneInv
<1>1. Init => Inv
  BY DEF Init, DoneInv, AllDone, Carried, Empty
<1>2. TypeOK /\ InMemory /\ Inv /\ [Next]_vars => Inv'
  BY DoneStep, PlanIsRigid DEF Calm
<1>3. TypeOK /\ Inv => DispositionStands
  BY ConstantRows DEF DispositionStands, DoneInv, AllDone, Done, Carried, Calm, Empty
<1>4. TypeOK /\ InMemory /\ [Next]_vars => (TypeOK /\ InMemory)'
  BY TypingStep
<1> HIDE DEF Inv
<1>5. QED
  BY <1>1, <1>2, <1>3, <1>4, TypingInit, PTL DEF Spec

-----------------------------------------------------------------------------
(***************************************************************************)
(* One open session: of all the copies that may still fill the database,   *)
(* taken together, at most one session is open.  Between a tool's change   *)
(* and the write through, the artifact is not one of them.                 *)
(***************************************************************************)
Steady == plan.events \cap {"crash", "io", "pull"} = {}

MayOpen(s) ==
  \/ graph[s] = "open"
  \/ pc # "sync" /\ artifact[s] = "open"
  \/ pc = "import" /\ exports[from][s] = "open"

OneInv ==
  /\ \A s, t \in Session : MayOpen(s) /\ MayOpen(t) => s = t
  /\ pc = "clear" => from # 0 /\ exports[from] = graph
  /\ fresh # None => pc \in {"sync", "create"} /\ OpenSessions = {}

\* A step after which no more sessions may be open than before.
LEMMA KeepsOne ==
  ASSUME OneInv, \A s \in Session : MayOpen(s)' => MayOpen(s)
  PROVE  (\A s, t \in Session : MayOpen(s) /\ MayOpen(t) => s = t)'
BY DEF OneInv

\* A change that closes sessions, or touches none, and will be written through.
LEMMA ClosesOne ==
  ASSUME OneInv, NEW S, NEW s, Commit(S, s),
         \A t \in Session : graph'[t] = "open" => graph[t] = "open",
         s # None => \A t \in Session : graph'[t] # "open"
  PROVE  OneInv'
<1>1. pc' = "sync" /\ fresh' = s
  BY DEF Commit
<1>2. \A t \in Session : MayOpen(t)' => MayOpen(t)
  BY <1>1 DEF MayOpen
<1>3. fresh' # None => OpenSessions' = {}
  BY <1>1 DEF OpenSessions
<1>4. QED
  BY <1>1, <1>2, <1>3, KeepsOne DEF OneInv

\* A session is opened where none is.
LEMMA OpensOne ==
  ASSUME OneInv, NEW s \in Session, graph' = Marked({s}, "open"), OpenSessions = {},
         Commit({s}, None)
  PROVE  OneInv'
<1>1. pc' = "sync" /\ fresh' = None
  BY DEF Commit
<1>2. \A t \in Session : graph'[t] = "open" => t = s
  BY SessionRows DEF Marked, OpenSessions
<1>3. \A t \in Session : MayOpen(t)' => t = s
  BY <1>1, <1>2 DEF MayOpen
<1>4. QED
  BY <1>1, <1>3 DEF OneInv

\* What is inserted may be open already; the plans' text holds no session.
LEMMA InsertOpensNone ==
  ASSUME pc \in {"import", "phases", "texts"}, NEW S, NEW s \in Session,
         Inserted(Incoming, S)[s] = "open"
  PROVE  MayOpen(s)
<1>1. s \in Row /\ s \notin PlanText
  BY SessionRows
<1>2. graph[s] = "open" \/ Incoming[s] = "open"
  BY <1>1 DEF Inserted
<1>3. QED
  BY <1>1, <1>2 DEF Incoming, Texts, Empty, MayOpen

LEMMA OneStep ==
  ASSUME Steady, TypeOK, InMemory, OneInv, [Next]_vars
  PROVE  OneInv'
<1> USE StoreAssumption
<1>0. graph \in Rows /\ artifact \in Rows
  BY DEF TypeOK
<1>1. ASSUME NEW S \in SUBSET ((Item \ PlanText) \cap plan.rows), Record(S) PROVE OneInv'
  <2>1. \A t \in Session : t \in Row /\ t \notin S
    BY SessionRows
  <2>2. \A t \in Session : graph'[t] = graph[t]
    BY <1>1, <2>1 DEF Record, Inserted
  <2>3. QED
    BY <1>1, <2>2, ClosesOne DEF Record
<1>2. ASSUME NEW r \in Row, Resolve(r) PROVE OneInv'
  <2>1. \A t \in Session : graph'[t] = "open" => graph[t] = "open"
    BY <1>2, SessionRows DEF Resolve, Marked
  <2>2. QED
    BY <1>2, <2>1, ClosesOne DEF Resolve
<1>3. ASSUME NEW s \in Session, NEW S \in SUBSET Session, StartSession(s, S) PROVE OneInv'
  <2>1. CASE S # {} /\ graph' = Marked(S, "done") /\ Commit(S, IF S = OpenSessions THEN s ELSE None)
    <3>1. \A t \in Session : graph'[t] = "open" => graph[t] = "open" /\ t \notin S
      BY <2>1, SessionRows DEF Marked
    <3>2. CASE S = OpenSessions
      <4>1. \A t \in Session : graph'[t] # "open"
        BY <3>1, <3>2 DEF OpenSessions
      <4>2. QED
        BY <2>1, <3>2, <4>1, ClosesOne
    <3>3. CASE S # OpenSessions
      BY <2>1, <3>1, <3>3, ClosesOne
    <3>4. QED
      BY <3>2, <3>3
  <2>2. CASE UNCHANGED graph /\ Commit({}, None)
    BY <2>2, ClosesOne
  <2>3. CASE OpenSessions = {} /\ graph' = Marked({s}, "open") /\ Commit({s}, None)
    BY <2>3, OpensOne
  <2>4. QED
    BY <1>3, <2>1, <2>2, <2>3 DEF StartSession
<1>4. CASE CreateSession
  <2>1. fresh \in Session /\ OpenSessions = {}
    BY <1>4 DEF CreateSession, InMemory, TypeOK, OneInv
  <2>2. QED
    BY <1>4, <2>1, OpensOne DEF CreateSession
<1>5. CASE Sync
  <2>1. artifact' = graph /\ graph' = graph /\ pc = "sync"
    BY <1>5 DEF Sync, Steady
  <2>2. \/ pc' = "idle" /\ fresh' = None
        \/ pc' = "create" /\ fresh' = fresh
    BY <1>5 DEF Sync, Close
  <2>3. \A t \in Session : MayOpen(t)' => MayOpen(t)
    BY <2>1, <2>2 DEF MayOpen
  <2>4. QED
    BY <2>1, <2>2, <2>3, KeepsOne DEF OneInv, OpenSessions
<1>6. ASSUME NEW S \in SUBSET Row, Prune(S) PROVE OneInv'
  <2>1. pc = "idle" /\ pc' = "prune" /\ UNCHANGED <<graph, artifact, fresh>>
    BY <1>6 DEF Prune, Opens, disk
  <2>2. \A t \in Session : MayOpen(t)' => MayOpen(t)
    BY <2>1 DEF MayOpen
  <2>3. QED
    BY <2>1, <2>2, KeepsOne DEF OneInv
<1>7. ASSUME NEW r \in Row, DeleteRow(r) PROVE OneInv'
  <2>1. pc = "prune" /\ UNCHANGED <<artifact, pc, fresh>> /\ graph' = Marked({r}, "absent")
    BY <1>7 DEF DeleteRow
  <2>2. \A t \in Session : graph'[t] = "open" => graph[t] = "open"
    BY <2>1, SessionRows DEF Marked
  <2>3. \A t \in Session : MayOpen(t)' => MayOpen(t)
    BY <2>1, <2>2 DEF MayOpen
  <2>4. QED
    BY <2>1, <2>3, KeepsOne DEF OneInv
<1>8. CASE Pruned
  BY <1>8, ClosesOne DEF Pruned
<1>9. CASE StartIndex
  <2>1. pc = "idle" /\ pc' \in {"export", "phases"} /\ UNCHANGED <<graph, artifact, fresh>>
    BY <1>9 DEF StartIndex
  <2>2. \A t \in Session : MayOpen(t)' => MayOpen(t)
    BY <2>1 DEF MayOpen
  <2>3. QED
    BY <2>1, <2>2, KeepsOne DEF OneInv
<1>10. CASE Export
  <2>1. pc = "export" /\ stored \in 1..MaxVersion
    BY <1>10 DEF Export, TypeOK, InMemory
  <2>2. /\ pc' = "clear" /\ from' # 0 /\ exports'[from'] = graph'
        /\ UNCHANGED <<graph, artifact, fresh>>
    BY <1>10, <2>1 DEF Export, Steady, TypeOK
  <2>3. \A t \in Session : MayOpen(t)' => MayOpen(t)
    BY <2>1, <2>2 DEF MayOpen
  <2>4. QED
    BY <2>1, <2>2, <2>3, KeepsOne DEF OneInv
<1>11. CASE Clear
  <2>1. pc = "clear" /\ from # 0 /\ exports[from] = graph /\ fresh = None
    BY <1>11 DEF Clear, OneInv
  <2>2. /\ pc' = "import" /\ graph' = Empty
        /\ UNCHANGED <<artifact, exports, from, fresh>>
    BY <1>11, <2>1 DEF Clear
  <2>3. \A t \in Session : MayOpen(t)' => MayOpen(t)
    BY <2>1, <2>2, SessionRows DEF MayOpen, Empty
  <2>4. QED
    BY <2>1, <2>2, <2>3, KeepsOne DEF OneInv
<1>12. CASE Import \/ Ingest \/ ReadPlans
  <2>1. /\ pc \in {"import", "phases", "texts"} /\ pc' \in {"phases", "texts", "idle"}
        /\ UNCHANGED artifact /\ fresh = None /\ \E S \in SUBSET Row : graph' = Inserted(Incoming, S)
    <3>1. pc \in {"import", "phases", "texts"} /\ pc' \in {"phases", "texts", "idle"}
      BY <1>12 DEF Import, Ingest, ReadPlans, Close
    <3>2. UNCHANGED artifact /\ Insert
      BY <1>12 DEF Import, Ingest, ReadPlans
    <3>3. fresh = None
      BY <3>1 DEF OneInv
    <3>4. \E S \in SUBSET Row : graph' = Inserted(Incoming, S)
      BY <3>2 DEF Insert
    <3>5. QED
      BY <3>1, <3>2, <3>3, <3>4
  <2>2. fresh' = None
    BY <1>12, <2>1 DEF Import, Ingest, ReadPlans, Close
  <2>3. \A t \in Session : MayOpen(t)' => MayOpen(t)
    <3> SUFFICES ASSUME NEW t \in Session, MayOpen(t)' PROVE MayOpen(t)
      OBVIOUS
    <3>1. CASE graph'[t] = "open"
      BY <2>1, <3>1, InsertOpensNone
    <3>2. CASE artifact[t] = "open"
      BY <2>1, <3>2 DEF MayOpen
    <3>3. QED
      BY <2>1, <3>1, <3>2 DEF MayOpen
  <2>4. QED
    BY <2>1, <2>2, <2>3, KeepsOne DEF OneInv
<1>13. CASE PhaseFails
  <2>1. pc = "phases" /\ pc' = "idle" /\ fresh' = None /\ UNCHANGED <<graph, artifact>>
    BY <1>13 DEF PhaseFails, Close, disk
  <2>2. \A t \in Session : MayOpen(t)' => MayOpen(t)
    BY <2>1 DEF MayOpen
  <2>3. QED
    BY <2>1, <2>2, KeepsOne DEF OneInv
<1>14. CASE DeleteCache
  <2>1. pc = "idle" /\ graph' = Empty /\ UNCHANGED <<artifact, pc, fresh>>
    BY <1>14 DEF DeleteCache, proc
  <2>2. \A t \in Session : MayOpen(t)' => MayOpen(t)
    BY <2>1, SessionRows DEF MayOpen, Empty
  <2>3. QED
    BY <2>1, <2>2, KeepsOne DEF OneInv
<1>15. CASE Upgrade \/ Conflict \/ UNCHANGED vars
  BY <1>15 DEF Upgrade, Conflict, vars, disk, proc, OneInv, MayOpen, OpenSessions
<1>16. ASSUME ForceRebuild \/ Crash \/ \E r \in plan.rows : Pull(r) PROVE FALSE
  BY <1>16 DEF ForceRebuild, Crash, Pull, Steady
<1>17. QED
  BY <1>1, <1>2, <1>3, <1>4, <1>5, <1>6, <1>7, <1>8, <1>9, <1>10, <1>11, <1>12, <1>13,
     <1>14, <1>15, <1>16 DEF Next, Tools, Index, Outside

\* At most one session is open, whatever is rebuilt, restored or deleted.
THEOREM SessionsOneAtATime == Spec => []OneOpenSession
<1> DEFINE Inv == Steady => OneInv
<1>1. Init => Inv
  BY SessionRows DEF Init, OneInv, MayOpen, Empty
<1>2. TypeOK /\ InMemory /\ Inv /\ [Next]_vars => Inv'
  BY OneStep, PlanIsRigid DEF Steady
<1>3. Inv => OneOpenSession
  BY DEF OneOpenSession, OneInv, MayOpen, Steady
<1>4. TypeOK /\ InMemory /\ [Next]_vars => (TypeOK /\ InMemory)'
  BY TypingStep
<1> HIDE DEF Inv
<1>5. QED
  BY <1>1, <1>2, <1>3, <1>4, TypingInit, PTL DEF Spec

-----------------------------------------------------------------------------
(***************************************************************************)
(* What the artifact has stays in it: when a tool gets at the database it  *)
(* has all rows of the artifact, but for those that were pruned while the  *)
(* write through failed.                                                   *)
(***************************************************************************)
Local == plan.events \cap {"crash", "import", "phase", "pull", "conflict"} = {}

\* The database is whole: not one that is missing or being filled.
Whole == stored # 0 /\ pc \notin {"clear", "import", "phases"}

Backed(r) == artifact[r] # "absent" => graph[r] # "absent" \/ told[r] = "pruned"

BackedInv ==
  /\ readable
  /\ stored = 0 => pc = "idle"
  /\ Whole => \A r \in Row : Backed(r)
  /\ pc = "sync" => \A r \in todo : graph[r] # "absent"

\* A tool's change that deletes nothing.
LEMMA CommitBacked ==
  ASSUME BackedInv, pc \notin {"clear", "import", "phases"}, stored # 0,
         NEW S \in SUBSET Row, NEW s, Commit(S, s),
         \A r \in Row : graph[r] # "absent" => graph'[r] # "absent",
         \A r \in S : graph'[r] # "absent"
  PROVE  BackedInv'
BY DEF BackedInv, Commit, Whole, Backed

LEMMA BackedStep ==
  ASSUME Local, TypeOK, InMemory, BackedInv, [Next]_vars
  PROVE  BackedInv'
<1> USE StoreAssumption
<1>0. graph \in Rows /\ artifact \in Rows
  BY DEF TypeOK
<1>1. ASSUME NEW S \in SUBSET Row, Record(S) PROVE BackedInv'
  <2>1. \A r \in Row : graph'[r] = IF graph[r] = "absent" /\ r \in S THEN "open" ELSE graph[r]
    BY <1>1 DEF Record, Inserted
  <2>2. pc = "idle" /\ stored # 0 /\ Commit(S, None)
    BY <1>1 DEF Record, Opens
  <2>3. \A r \in Row : graph[r] # "absent" => graph'[r] # "absent"
    BY <2>1
  <2>4. \A r \in S : graph'[r] # "absent"
    BY <2>1
  <2>5. QED
    BY <2>2, <2>3, <2>4, CommitBacked
<1>mark. ASSUME NEW S \in SUBSET Row, NEW T \in SUBSET Row, NEW s, NEW status \in {"open", "done"},
                graph' = Marked(T, status), Commit(S, s), S \subseteq T,
                pc \in {"idle", "create"}, stored # 0
         PROVE  BackedInv'
  <2>1. \A r \in Row : graph'[r] = IF r \in T THEN status ELSE graph[r]
    BY <1>mark DEF Marked
  <2>2. QED
    BY <1>mark, <2>1, CommitBacked
<1>2. ASSUME NEW r \in Row, Resolve(r) PROVE BackedInv'
  BY <1>2, <1>mark DEF Resolve, Opens
<1>3. ASSUME NEW s \in Session, NEW S \in SUBSET Session, StartSession(s, S) PROVE BackedInv'
  <2>1. pc = "idle" /\ stored # 0 /\ {s} \subseteq Row /\ S \subseteq Row
    BY <1>3, SessionRows DEF StartSession, Opens
  <2>2. CASE graph' = Marked(S, "done") /\ \E x : Commit(S, x)
    BY <2>1, <2>2, <1>mark
  <2>3. CASE UNCHANGED graph /\ Commit({}, None)
    BY <2>1, <2>3, CommitBacked
  <2>4. CASE graph' = Marked({s}, "open") /\ Commit({s}, None)
    BY <2>1, <2>4, <1>mark
  <2>5. QED
    BY <1>3, <2>2, <2>3, <2>4 DEF StartSession
<1>4. CASE CreateSession
  <2>1. fresh \in Session /\ pc = "create" /\ stored # 0
    BY <1>4 DEF CreateSession, InMemory, TypeOK, BackedInv
  <2>2. {fresh} \subseteq Row
    BY <2>1, SessionRows
  <2>3. QED
    BY <1>4, <2>1, <2>2, <1>mark DEF CreateSession
<1>5. CASE Sync
  <2>1. UNCHANGED <<graph, stored>> /\ pc = "sync" /\ pc' \in {"idle", "create"} /\ stored # 0
    BY <1>5 DEF Sync, Close, BackedInv
  <2>2. \A r \in Row : told'[r] = IF r \in todo THEN graph[r] ELSE told[r]
    BY <1>5 DEF Sync
  <2>3. artifact' \in {artifact, graph} /\ readable'
    BY <1>5 DEF Sync, BackedInv
  <2>4. QED
    BY <2>1, <2>2, <2>3 DEF BackedInv, Whole, Backed
<1>6. ASSUME NEW S \in SUBSET Row, Prune(S) PROVE BackedInv'
  BY <1>6 DEF Prune, Opens, disk, BackedInv, Whole, Backed
<1>7. ASSUME NEW r \in Row, DeleteRow(r) PROVE BackedInv'
  <2>1. \A q \in Row : q # r => graph'[q] = graph[q] /\ told'[q] = told[q]
    BY <1>7 DEF DeleteRow, Marked, TypeOK
  <2>2. told'[r] = "pruned" /\ pc = "prune" /\ UNCHANGED <<artifact, stored, readable, pc>>
    BY <1>7 DEF DeleteRow, TypeOK
  <2>3. QED
    BY <2>1, <2>2 DEF BackedInv, Whole, Backed
<1>8. CASE Pruned
  <2>1. pc = "prune" /\ stored # 0 /\ UNCHANGED graph /\ Commit({}, None)
    BY <1>8 DEF Pruned, BackedInv
  <2>2. QED
    BY <2>1, CommitBacked
<1>9. CASE StartIndex
  <2>1. /\ pc = "idle" /\ stored' # 0 /\ pc' \in {"export", "phases"}
        /\ (pc' = "export" => stored # 0)
        /\ UNCHANGED <<graph, artifact, readable, told>>
    BY <1>9 DEF StartIndex, TypeOK
  <2>2. QED
    BY <2>1 DEF BackedInv, Whole, Backed
<1>10. CASE Export \/ ForceRebuild
  <2>1. /\ pc = "export" /\ stored # 0 /\ pc' \in {"clear", "idle"}
        /\ UNCHANGED <<graph, artifact, readable, stored>>
        /\ pc' = "idle" => UNCHANGED told
    BY <1>10 DEF Export, ForceRebuild, Close, disk, InMemory
  <2>2. QED
    BY <2>1 DEF BackedInv, Whole, Backed
<1>11. CASE Clear
  <2>1. stored' # 0 /\ pc' \in {"import", "phases"} /\ readable' = readable
    BY <1>11 DEF Clear, TypeOK
  <2>2. QED
    BY <2>1 DEF BackedInv, Whole
<1>12. CASE Import
  <2>1. pc' = "phases" /\ stored' # 0 /\ readable' = readable
    BY <1>12 DEF Import, BackedInv
  <2>2. QED
    BY <2>1 DEF BackedInv, Whole
<1>13. CASE Ingest
  <2>1. graph' = Inserted(artifact, Row) /\ pc' = "texts"
        /\ UNCHANGED <<artifact, readable, stored>> /\ stored # 0
    BY <1>13 DEF Ingest, Insert, Incoming, Local, BackedInv
  <2>2. \A r \in Row : artifact[r] # "absent" => graph'[r] # "absent"
    BY <2>1 DEF Inserted
  <2>3. QED
    BY <2>1, <2>2 DEF BackedInv, Whole, Backed
<1>14. CASE ReadPlans
  <2>1. /\ \A r \in Row : graph[r] # "absent" => graph'[r] # "absent"
        /\ pc = "texts" /\ pc' = "idle" /\ UNCHANGED <<artifact, readable, stored, told>>
    BY <1>0, <1>14, InsertedKeeps DEF ReadPlans, Insert, Close
  <2>2. QED
    BY <2>1 DEF BackedInv, Whole, Backed
<1>15. CASE Upgrade \/ DeleteCache \/ UNCHANGED vars
  BY <1>15 DEF Upgrade, DeleteCache, vars, disk, proc, BackedInv, Whole, Backed
<1>16. ASSUME PhaseFails \/ Crash \/ Conflict \/ \E r \in plan.rows : Pull(r) PROVE FALSE
  BY <1>16 DEF PhaseFails, Crash, Conflict, Pull, Local
<1>17. \A S \in SUBSET ((Item \ PlanText) \cap plan.rows) : S \in SUBSET Row
  BY DEF Row
<1>18. QED
  BY <1>1, <1>2, <1>3, <1>4, <1>5, <1>6, <1>7, <1>8, <1>9, <1>10, <1>11, <1>12, <1>13,
     <1>14, <1>15, <1>16, <1>17 DEF Next, Tools, Index, Outside

\* Only Sync and git write the artifact, and Sync has at least its rows.
THEOREM ArtifactOnlyPruned == Spec => ArtifactKept
<1> DEFINE Inv == Local => BackedInv
<1> DEFINE Kept1 == \A r \in Row : artifact[r] # "absent" /\ artifact'[r] = "absent"
                                     => told[r] = "pruned"
<1>1. Init => Inv
  BY DEF Init, BackedInv, Whole
<1>2. TypeOK /\ InMemory /\ Inv /\ [Next]_vars => Inv'
  BY BackedStep, PlanIsRigid DEF Local
<1>3. ASSUME Inv, Local, Next PROVE Kept1
  <2>1. CASE Sync
    <3>1. artifact' \in {artifact, graph} /\ pc = "sync" /\ stored # 0
      BY <1>3, <2>1 DEF Sync, BackedInv
    <3>2. QED
      BY <1>3, <3>1 DEF BackedInv, Whole, Backed
  <2>2. CASE UNCHANGED artifact
    BY <2>2
  <2>3. CASE Tools /\ ~Sync
    BY <2>2, <2>3 DEF Tools, Record, Resolve, StartSession, CreateSession, Prune, DeleteRow,
       Pruned, Commit, disk
  <2>4. CASE Index
    BY <2>2, <2>4 DEF Index, StartIndex, Export, ForceRebuild, Clear, Import, PhaseFails,
       Ingest, ReadPlans, disk
  <2>5. CASE Outside
    BY <1>3, <2>2, <2>5 DEF Outside, Crash, Upgrade, DeleteCache, Conflict, Pull, Local, disk
  <2>6. QED
    BY <1>3, <2>1, <2>2, <2>3, <2>4, <2>5 DEF Next
<1>4. Inv /\ [Next]_vars => [Local => Kept1]_vars
  BY <1>3
<1>5. TypeOK /\ InMemory /\ [Next]_vars => (TypeOK /\ InMemory)'
  BY TypingStep
<1>6. [Local => Kept1]_vars
        <=> [plan.events \cap {"crash", "import", "phase", "pull", "conflict"} = {} =>
               \A r \in Row : artifact[r] # "absent" /\ artifact'[r] = "absent"
                                => told[r] = "pruned"]_vars
  BY DEF Local
<1> HIDE DEF Inv, Kept1
<1>7. QED
  BY <1>1, <1>2, <1>4, <1>5, <1>6, TypingInit, PTL DEF Spec, ArtifactKept

-----------------------------------------------------------------------------
(***************************************************************************)
(* The ledger: what the database lacks while it is rebuilt is in the       *)
(* artifact or in the export, except items of the plans' text nobody has   *)
(* disposed of.                                                            *)
(***************************************************************************)
Agrees(g, a, r) == a = g \/ (r \in PlanText /\ a = "absent" /\ g = "open")

Mirrored ==
  /\ readable
  /\ stored = 0 => pc = "idle" /\ graph = Empty
  /\ pc \in {"idle", "export", "clear", "texts"} /\ stored # 0
       => \A r \in Row : Agrees(graph[r], artifact[r], r)
  /\ pc = "clear" => from # 0 /\ exports[from] = graph
  /\ pc = "import" => /\ graph = Empty
                      /\ \A r \in Row : Agrees(exports[from][r], artifact[r], r)
  /\ pc = "phases" => \A r \in Row : graph[r] = "absent" \/ Agrees(graph[r], artifact[r], r)
  /\ fresh # None => /\ pc \in {"sync", "create"}
                     /\ OpenSessions = {} /\ graph[fresh] = "absent"

\* Outside a rebuild the ledger shows the database.
Shown(k, r) == IF k = "absent" /\ r \in PlanText THEN "open" ELSE k

LEMMA LedgerShows == sheltered => ledger = [r \in Row |-> Shown(Kept(r), r)]
BY DEF ledger, Shown

LEMMA ShelteredStays == [Next]_vars => sheltered' = sheltered
BY PlanIsRigid DEF sheltered

\* A tool that has finished changing rows: the relation to the artifact is
\* restored by Sync, whatever they are.
LEMMA CommitMirrors ==
  ASSUME Mirrored, NEW S, NEW s, Commit(S, s), stored # 0,
         s # None => OpenSessions' = {} /\ graph'[s] = "absent"
  PROVE  Mirrored'
BY DEF Mirrored, Commit

LEMMA MirroredTools ==
  ASSUME sheltered, TypeOK, InMemory, Mirrored, Tools
  PROVE  Mirrored'
<1> USE StoreAssumption
<1>1. ASSUME NEW S \in SUBSET Row, Record(S) PROVE Mirrored'
  BY <1>1, CommitMirrors DEF Record, Opens
<1>2. ASSUME NEW r \in Row, Resolve(r) PROVE Mirrored'
  BY <1>2, CommitMirrors DEF Resolve, Opens
<1>3. ASSUME NEW s \in Session, NEW S \in SUBSET Session, StartSession(s, S) PROVE Mirrored'
  <2>1. graph[s] = "absent" /\ stored # 0 /\ s # None
    BY <1>3 DEF StartSession, Unused, Opens
  <2>2. CASE S # {} /\ graph' = Marked(S, "done") /\ Commit(S, IF S = OpenSessions THEN s ELSE None)
    <3>1. S = OpenSessions => OpenSessions' = {} /\ graph'[s] = "absent"
      BY <2>1, <2>2, SessionRows DEF Marked, OpenSessions
    <3>2. CASE S = OpenSessions
      BY <2>1, <2>2, <3>1, <3>2, CommitMirrors
    <3>3. CASE S # OpenSessions
      BY <2>1, <2>2, <3>3, CommitMirrors
    <3>4. QED
      BY <3>2, <3>3
  <2>3. CASE Commit({}, None) \/ Commit({s}, None)
    BY <2>1, <2>3, CommitMirrors
  <2>4. QED
    BY <1>3, <2>2, <2>3 DEF StartSession
<1>4. CASE CreateSession
  <2>1. stored # 0
    BY <1>4 DEF CreateSession, Mirrored
  <2>2. QED
    BY <1>4, <2>1, CommitMirrors DEF CreateSession
<1>5. CASE Sync
  <2>1. artifact' = graph /\ readable' = TRUE
    BY <1>5 DEF Sync, sheltered
  <2>2. graph' = graph /\ stored' = stored /\ stored # 0
    BY <1>5 DEF Sync, Mirrored
  <2>3. \/ pc' = "idle" /\ fresh' = None
        \/ pc' = "create" /\ fresh' = fresh /\ fresh # None
    BY <1>5 DEF Sync, Close
  <2>4. QED
    BY <2>1, <2>2, <2>3 DEF Mirrored, Agrees, OpenSessions
<1>6. ASSUME NEW S \in SUBSET Row, Prune(S) PROVE Mirrored'
  BY <1>6 DEF Prune, Opens, disk, Mirrored
<1>7. ASSUME NEW r \in Row, DeleteRow(r) PROVE Mirrored'
  BY <1>7 DEF DeleteRow, Mirrored
<1>8. CASE Pruned
  <2>1. stored # 0
    BY <1>8 DEF Pruned, Mirrored
  <2>2. QED
    BY <1>8, <2>1, CommitMirrors DEF Pruned
<1>9. \A S \in SUBSET ((Item \ PlanText) \cap plan.rows) : S \in SUBSET Row
  BY DEF Row
<1>10. QED
  BY <1>1, <1>2, <1>3, <1>4, <1>5, <1>6, <1>7, <1>8, <1>9 DEF Tools

LEMMA MirroredStep ==
  ASSUME sheltered, TypeOK, InMemory, Mirrored, [Next]_vars
  PROVE  Mirrored'
<1> USE StoreAssumption
<1>1. CASE StartIndex
  <2>1. pc = "idle" /\ fresh = None
    BY <1>1 DEF StartIndex, Mirrored
  <2>2. UNCHANGED <<readable, graph, artifact, fresh>> /\ stored' # 0
        /\ pc' \in {"export", "phases"} /\ (pc' = "export" => stored # 0)
    BY <1>1 DEF StartIndex, TypeOK
  <2>3. stored = 0 => \A r \in Row : graph[r] = "absent"
    BY DEF Mirrored, Empty
  <2>4. QED
    BY <2>1, <2>2, <2>3 DEF Mirrored
<1>2. CASE Export
  <2>1. stored \in 1..MaxVersion /\ pc = "export"
    BY <1>2 DEF Export, TypeOK, InMemory
  <2>2. pc' = "clear" /\ from' = stored /\ exports'[stored] = graph
        /\ UNCHANGED <<readable, stored, graph, artifact, fresh>>
    BY <1>2, <2>1 DEF Export, sheltered, TypeOK
  <2>3. QED
    BY <2>1, <2>2 DEF Mirrored
<1>3. CASE Clear
  <2>1. pc = "clear" /\ from # 0 /\ exports[from] = graph /\ fresh = None /\ stored # 0
    BY <1>3 DEF Clear, Mirrored
  <2>2. pc' = "import" /\ graph' = Empty /\ stored' # 0
        /\ UNCHANGED <<readable, artifact, exports, from, fresh>>
    BY <1>3, <2>1 DEF Clear, TypeOK
  <2>3. QED
    BY <2>1, <2>2 DEF Mirrored
<1>4. CASE Import
  <2>1. graph' = Inserted(exports[from], Row) /\ graph = Empty /\ stored # 0 /\ fresh = None
    BY <1>4 DEF Import, Insert, Incoming, sheltered, Mirrored
  <2>2. \A r \in Row : graph'[r] = exports[from][r]
    BY <2>1 DEF Inserted, Empty
  <2>3. pc' = "phases" /\ UNCHANGED <<readable, stored, artifact, fresh>> /\ pc = "import"
    BY <1>4 DEF Import
  <2>4. QED
    BY <2>1, <2>2, <2>3 DEF Mirrored
<1>5. CASE Ingest
  <2>1. graph' = Inserted(artifact, Row) /\ stored # 0 /\ fresh = None
    BY <1>5 DEF Ingest, Insert, Incoming, sheltered, Mirrored
  <2>2. pc' = "texts" /\ UNCHANGED <<readable, stored, artifact, fresh>> /\ pc = "phases"
    BY <1>5 DEF Ingest
  <2>3. \A r \in Row : Agrees(graph'[r], artifact[r], r)
    BY <2>1, <2>2 DEF Inserted, Mirrored, Agrees
  <2>4. QED
    BY <2>1, <2>2, <2>3 DEF Mirrored
<1>6. CASE ReadPlans
  <2>1. graph' = Inserted(Texts, Row) /\ stored # 0
    BY <1>6 DEF ReadPlans, Insert, Incoming, sheltered, Mirrored
  <2>2. pc' = "idle" /\ fresh' = None /\ UNCHANGED <<readable, stored, artifact>> /\ pc = "texts"
    BY <1>6 DEF ReadPlans, Close
  <2>3. \A r \in Row : Agrees(graph'[r], artifact[r], r)
    BY <2>1, <2>2 DEF Inserted, Texts, Mirrored, Agrees
  <2>4. QED
    BY <2>1, <2>2, <2>3 DEF Mirrored
<1>7. CASE DeleteCache
  BY <1>7 DEF DeleteCache, Mirrored, proc
<1>8. CASE Upgrade \/ UNCHANGED vars
  BY <1>8 DEF Upgrade, vars, disk, proc, Mirrored, OpenSessions
<1>9. ASSUME ForceRebuild \/ PhaseFails \/ Crash \/ Conflict \/ \E r \in plan.rows : Pull(r)
      PROVE  FALSE
  BY <1>9 DEF ForceRebuild, PhaseFails, Crash, Conflict, Pull, sheltered
<1>10. QED
  BY <1>1, <1>2, <1>3, <1>4, <1>5, <1>6, <1>7, <1>8, <1>9, MirroredTools
     DEF Next, Index, Outside

\* While the database is in use the ledger is what it shows.
LEMMA InUse ==
  ASSUME sheltered, stored # 0, pc \notin {"import", "phases"}
  PROVE  ledger = [r \in Row |-> Shown(graph[r], r)]
BY LedgerShows DEF Kept, Rebuilding

LEMMA InUseNext ==
  ASSUME sheltered', stored' # 0, pc' \notin {"import", "phases"}
  PROVE  ledger' = [r \in Row |-> Shown(graph'[r], r)]
BY DEF ledger, Shown, Kept, Rebuilding

\* What the index does is invisible.
LEMMA SameLedger ==
  ASSUME sheltered, sheltered',
         \A r \in Row : Shown(Kept(r), r) = Shown(Kept(r)', r)
  PROVE  ledger' = ledger
<1>1. ledger' = [r \in Row |-> Shown(Kept(r)', r)]
  BY DEF ledger, Shown
<1>2. QED
  BY <1>1, LedgerShows

LEMMA IndexInvisible ==
  ASSUME sheltered, sheltered', TypeOK, InMemory, Mirrored, Index
  PROVE  ledger' = ledger
<1>1. CASE StartIndex
  <2>1. pc = "idle" /\ UNCHANGED <<graph, artifact>> /\ stored' # 0
        /\ (pc' = "phases" \/ (pc' = "export" /\ stored # 0))
    BY <1>1 DEF StartIndex, TypeOK
  <2>2. stored = 0 => \A r \in Row : graph[r] = "absent"
    BY DEF Mirrored, Empty
  <2>3. stored # 0 => \A r \in Row : Agrees(graph[r], artifact[r], r)
    BY <2>1 DEF Mirrored
  <2>4. \A r \in Row : Shown(Kept(r), r) = Shown(Kept(r)', r)
    BY <2>1, <2>2, <2>3 DEF Kept, Rebuilding, Behind, Agrees, Shown
  <2>5. QED
    BY <2>4, SameLedger
<1>2. CASE Export
  <2>1. stored # 0 /\ stored' = stored /\ graph' = graph /\ pc = "export" /\ pc' \in {"clear", "idle"}
    BY <1>2 DEF Export, Close, InMemory
  <2>2. QED
    BY <2>1, InUse, InUseNext
<1>3. CASE Clear
  <2>1. pc = "clear" /\ from # 0 /\ exports[from] = graph /\ stored # 0
    BY <1>3 DEF Clear, Mirrored
  <2>2. pc' = "import" /\ graph' = Empty /\ UNCHANGED <<exports, from>>
    BY <1>3, <2>1 DEF Clear
  <2>3. \A r \in Row : Shown(Kept(r), r) = Shown(Kept(r)', r)
    BY <2>1, <2>2 DEF Kept, Rebuilding, Behind, Empty
  <2>4. QED
    BY <2>3, SameLedger
<1>4. CASE Import
  <2>1. pc = "import" /\ graph = Empty /\ \A r \in Row : Agrees(exports[from][r], artifact[r], r)
    BY <1>4 DEF Import, Mirrored
  <2>2. graph' = Inserted(exports[from], Row) /\ pc' = "phases" /\ artifact' = artifact
    BY <1>4 DEF Import, Insert, Incoming, sheltered
  <2>3. \A r \in Row : graph[r] = "absent" /\ graph'[r] = exports[from][r]
    BY <2>1, <2>2 DEF Inserted, Empty
  <2>4. \A r \in Row : Shown(Kept(r), r) = Shown(Kept(r)', r)
    BY <2>1, <2>2, <2>3 DEF Kept, Rebuilding, Behind, Agrees, Shown
  <2>5. QED
    BY <2>4, SameLedger
<1>5. CASE Ingest
  <2>1. graph' = Inserted(artifact, Row) /\ pc = "phases" /\ pc' = "texts"
        /\ stored' = stored /\ stored # 0
    BY <1>5 DEF Ingest, Insert, Incoming, sheltered, Mirrored
  <2>2. \A r \in Row : Shown(Kept(r), r) = Shown(Kept(r)', r)
    BY <2>1 DEF Kept, Rebuilding, Behind, Inserted
  <2>3. QED
    BY <2>2, SameLedger
<1>6. CASE ReadPlans
  <2>1. graph' = Inserted(Texts, Row) /\ pc = "texts" /\ pc' = "idle"
        /\ stored' = stored /\ stored # 0
    BY <1>6 DEF ReadPlans, Close, Insert, Incoming, sheltered, Mirrored
  <2>2. \A r \in Row : Shown(Kept(r), r) = Shown(Kept(r)', r)
    BY <2>1 DEF Kept, Rebuilding, Inserted, Texts, Shown
  <2>3. QED
    BY <2>2, SameLedger
<1>7. ASSUME ForceRebuild \/ PhaseFails PROVE FALSE
  BY <1>7 DEF ForceRebuild, PhaseFails, sheltered
<1>8. QED
  BY <1>1, <1>2, <1>3, <1>4, <1>5, <1>6, <1>7 DEF Index

\* So is what happens around it.
LEMMA OutsideInvisible ==
  ASSUME sheltered, sheltered', TypeOK, Mirrored, Outside \/ UNCHANGED vars
  PROVE  ledger' = ledger
<1>1. CASE DeleteCache
  <2>1. pc = "idle" /\ graph' = Empty /\ stored' = 0 /\ artifact' = artifact /\ pc' = pc
    BY <1>1 DEF DeleteCache, proc
  <2>2. stored = 0 => \A r \in Row : graph[r] = "absent"
    BY DEF Mirrored, Empty
  <2>3. stored # 0 => \A r \in Row : Agrees(graph[r], artifact[r], r)
    BY <2>1 DEF Mirrored
  <2>4. \A r \in Row : Shown(Kept(r), r) = Shown(Kept(r)', r)
    BY <2>1, <2>2, <2>3 DEF Kept, Rebuilding, Behind, Agrees, Shown, Empty
  <2>5. QED
    BY <2>4, SameLedger
<1>2. CASE Upgrade \/ UNCHANGED vars
  <2>1. UNCHANGED <<graph, stored, artifact, exports, pc, from>>
    BY <1>2 DEF Upgrade, vars, disk, proc
  <2>2. \A r \in Row : Shown(Kept(r), r) = Shown(Kept(r)', r)
    BY <2>1 DEF Kept, Rebuilding, Behind
  <2>3. QED
    BY <2>2, SameLedger
<1>3. ASSUME Crash \/ Conflict \/ \E r \in plan.rows : Pull(r) PROVE FALSE
  BY <1>3 DEF Crash, Conflict, Pull, sheltered
<1>4. QED
  BY <1>1, <1>2, <1>3 DEF Outside

\* Each change a tool makes is one operation of the ledger.
LEMMA ToolOperates ==
  ASSUME sheltered, sheltered', TypeOK, InMemory, Mirrored, Tools
  PROVE  [Ledger!Next]_ledger
<1> USE StoreAssumption
<1>sessions. \A s \in Session : s \in Row /\ s \notin PlanText
  BY SessionRows
<1>1. ASSUME NEW S \in SUBSET ((Item \ PlanText) \cap plan.rows), Record(S)
      PROVE  [Ledger!Next]_ledger
  <2>1. pc = "idle" /\ pc' = "sync" /\ stored # 0 /\ stored' = stored
    BY <1>1 DEF Record, Commit, Opens
  <2>2. \A r \in Row : graph'[r] = IF graph[r] = "absent" /\ r \in S THEN "open" ELSE graph[r]
    BY <1>1 DEF Record, Inserted
  <2>3. \A r \in Row : ledger[r] = Shown(graph[r], r)
    BY <2>1, InUse
  <2>4. ledger' = [r \in Row |-> Shown(graph'[r], r)]
    BY <2>1, InUseNext
  <2>5. \A r \in Row : Shown(graph'[r], r) = IF r \in S /\ ledger[r] = "absent" THEN "open" ELSE ledger[r]
    BY <2>2, <2>3 DEF Shown
  <2>6. Ledger!Record(S)
    BY <2>4, <2>5 DEF Ledger!Record, Ledger!Row, Row
  <2>7. QED
    BY <2>6 DEF Ledger!Next
<1>dispose. ASSUME NEW S \in SUBSET Row, graph' = Marked(S, "done"),
                   \A r \in S : graph[r] # "absent",
                   pc = "idle", pc' = "sync", stored # 0, stored' = stored
            PROVE  Ledger!Next
  <2>1. \A r \in Row : ledger[r] = Shown(graph[r], r)
    BY <1>dispose, InUse
  <2>2. ledger' = [r \in Row |-> Shown(graph'[r], r)]
    BY <1>dispose, InUseNext
  <2>3. \A r \in Row : Shown(graph'[r], r) = IF r \in S THEN "done" ELSE ledger[r]
    BY <1>dispose, <2>1 DEF Shown, Marked
  <2>4. \A r \in S : ledger[r] # "absent"
    BY <1>dispose, <2>1 DEF Shown
  <2>5. Ledger!Dispose(S)
    BY <2>2, <2>3, <2>4 DEF Ledger!Dispose, Ledger!Row, Row
  <2>6. QED
    BY <2>5 DEF Ledger!Next, Ledger!Row, Row
<1>start. ASSUME NEW s \in Session, graph' = Marked({s}, "open"), graph[s] = "absent",
                 OpenSessions = {}, pc \in {"idle", "create"}, pc' = "sync",
                 stored # 0, stored' = stored
          PROVE  Ledger!Next
  <2>1. ledger = [r \in Row |-> Shown(graph[r], r)]
    BY <1>start, InUse
  <2>2. ledger' = [r \in Row |-> Shown(graph'[r], r)]
    BY <1>start, InUseNext
  <2>3. \A r \in Row : Shown(graph'[r], r) = IF r = s THEN "open" ELSE ledger[r]
    BY <1>start, <2>1, <1>sessions DEF Shown, Marked
  <2>4. \A t \in Session : ledger[t] = graph[t]
    BY <2>1, <1>sessions DEF Shown
  <2>5. Ledger!OpenSessions = {} /\ ledger[s] = "absent"
    BY <1>start, <2>4 DEF Ledger!OpenSessions, OpenSessions
  <2>6. ledger' = [ledger EXCEPT ![s] = "open"]
    BY <2>1, <2>2, <2>3
  <2>7. Ledger!Start(s)
    BY <2>5, <2>6 DEF Ledger!Start
  <2>8. QED
    BY <2>7 DEF Ledger!Next
<1>2. ASSUME NEW r \in Row, Resolve(r) PROVE [Ledger!Next]_ledger
  BY <1>2, <1>dispose DEF Resolve, Opens, Commit
<1>3. ASSUME NEW s \in Session, NEW S \in SUBSET Session, StartSession(s, S)
      PROVE  [Ledger!Next]_ledger
  <2>1. pc = "idle" /\ stored # 0 /\ stored' = stored /\ pc' = "sync" /\ graph[s] = "absent"
    BY <1>3 DEF StartSession, Opens, Commit, Unused
  <2>2. CASE graph' = Marked(S, "done")
    <3>1. S \in SUBSET Row /\ \A r \in S : graph[r] # "absent"
      BY <1>3, <1>sessions DEF StartSession, OpenSessions
    <3>2. QED
      BY <2>1, <2>2, <3>1, <1>dispose
  <2>3. CASE UNCHANGED graph
    BY <2>1, <2>3, InUse, InUseNext
  <2>4. CASE OpenSessions = {} /\ graph' = Marked({s}, "open")
    BY <2>1, <2>4, <1>start
  <2>5. QED
    BY <1>3, <2>2, <2>3, <2>4 DEF StartSession
<1>4. CASE CreateSession
  <2>1. fresh \in Session /\ OpenSessions = {} /\ graph[fresh] = "absent" /\ stored # 0
    BY <1>4 DEF CreateSession, InMemory, TypeOK, Mirrored
  <2>2. graph' = Marked({fresh}, "open") /\ pc = "create" /\ pc' = "sync" /\ stored' = stored
    BY <1>4 DEF CreateSession, Commit
  <2>3. QED
    BY <2>1, <2>2, <1>start
<1>5. ASSUME Sync \/ Pruned \/ \E S \in SUBSET Row : Prune(S) PROVE [Ledger!Next]_ledger
  <2>1. graph' = graph /\ stored' = stored /\ stored # 0
    BY <1>5 DEF Sync, Pruned, Commit, Prune, Opens, disk, Mirrored
  <2>2. pc \notin {"import", "phases"} /\ pc' \notin {"import", "phases"}
    BY <1>5 DEF Sync, Close, Pruned, Commit, Prune, Opens
  <2>3. QED
    BY <2>1, <2>2, InUse, InUseNext
<1>6. ASSUME NEW r \in Row, DeleteRow(r) PROVE [Ledger!Next]_ledger
  <2>1. pc = "prune" /\ pc' = pc /\ stored' = stored /\ stored # 0
    BY <1>6 DEF DeleteRow, Mirrored
  <2>2. ledger = [q \in Row |-> Shown(graph[q], q)]
    BY <2>1, InUse
  <2>3. ledger' = [q \in Row |-> Shown(graph'[q], q)]
    BY <2>1, InUseNext
  <2>4. \A q \in Row : Shown(graph'[q], q) = IF q = r THEN Ledger!Blank[r] ELSE ledger[q]
    BY <1>6, <2>2 DEF DeleteRow, Marked, Shown, Ledger!Blank, Ledger!Row, Row
  <2>5. Ledger!Remove(r)
    BY <2>2, <2>3, <2>4 DEF Ledger!Remove
  <2>6. QED
    BY <2>5 DEF Ledger!Next, Ledger!Row, Row
<1>7. QED
  BY <1>1, <1>2, <1>3, <1>4, <1>5, <1>6 DEF Tools

LEMMA LedgerStep ==
  ASSUME TypeOK, InMemory, sheltered => Mirrored, [Next]_vars
  PROVE  [Ledger!Next]_ledger
<1>1. CASE ~sheltered
  BY <1>1, ShelteredStays DEF ledger
<1>2. CASE sheltered
  <2>1. sheltered'
    BY <1>2, ShelteredStays
  <2>2. QED
    BY <1>2, <2>1, IndexInvisible, OutsideInvisible, ToolOperates DEF Next
<1>3. QED
  BY <1>1, <1>2

LEMMA LedgerInit == Init => Ledger!Init /\ Mirrored
BY StoreAssumption DEF Init, Ledger!Init, Ledger!Blank, Ledger!Row, Row, ledger, Kept,
   Rebuilding, Behind, Empty, Mirrored

\* Where nothing fails the store is the ledger: whatever is deleted, rebuilt or
\* upgraded, only the tools change what the rows say.
THEOREM StoreImplementsLedger == Spec => Implements
<1> DEFINE Inv == sheltered => Mirrored
<1>1. TypeOK /\ InMemory /\ Inv /\ [Next]_vars => Inv'
  BY MirroredStep, ShelteredStays
<1>2. TypeOK /\ InMemory /\ Inv /\ [Next]_vars => [Ledger!Next]_ledger
  BY LedgerStep
<1>3. Init => Inv /\ Ledger!Init
  BY LedgerInit
<1>4. TypeOK /\ InMemory /\ [Next]_vars => (TypeOK /\ InMemory)'
  BY TypingStep
<1> HIDE DEF Inv
<1>5. QED
  BY <1>1, <1>2, <1>3, <1>4, TypingInit, PTL DEF Spec, Implements, Ledger!Spec
=============================================================================
