------------------------- MODULE IndexPipelineProofs -------------------------
(***************************************************************************)
(* What holds of the index runs for any files, imports, plans and faults.  *)
(***************************************************************************)
EXTENDS IndexPipeline, TLAPS

\* The bounds are counted, and nothing more is asked of the constants.
LEMMA Docs ==
  1 \in Doc /\ Doc \subseteq Nat \ {0} /\ \A d \in Doc : d < MaxDoc => d + 1 \in Doc
BY PipelineAssumption DEF Doc

LEMMA Versions ==
  /\ Version \subseteq Nat \ {0}
  /\ \A v \in Version \cup {0} :
       (v < MaxVersion => v + 1 \in Version) /\ 1..v \subseteq Version
BY PipelineAssumption DEF Version

LEMMA FirstDoc == 1 \in Doc
BY Docs

\* A fault is counted, and leaves debts there are.
LEMMA SufferTyping ==
  ASSUME NEW debts \in SUBSET Debts, faults \in Nat, owed \subseteq Debts, Suffer(debts)
  PROVE  faults' \in Nat /\ owed' \subseteq Debts
BY DEF Suffer

LEMMA AbandonedDebts == Abandoned \subseteq Debts
BY DEF Abandoned

LEMMA TargetsAreFiles == TypeOK => \A f \in File : Targets(f) \subseteq File
<1> SUFFICES ASSUME TypeOK, NEW f \in File, tree[f] # 0 PROVE Targets(f) \subseteq File
  BY DEF Targets
<1>1. tree[f] \in Version
  BY DEF TypeOK
<1>2. Imports[f][tree[f]] \subseteq File
  BY <1>1, PipelineAssumption
<1>3. QED
  BY <1>2 DEF Targets

\* Every variable keeps its type.
THEOREM IndexTyping == Spec => []TypeOK
<1> USE DEF TypeOK
<1>1. Init => TypeOK
  <2> SUFFICES ASSUME Init PROVE TypeOK
    OBVIOUS
  <2>1. tree \in [File -> {0}] /\ last \in [File -> {0}] /\ node \in [File -> {0}]
    BY DEF Init
  <2>2. doc \in Doc /\ phases = 0 /\ stamp = 0 /\ seen = 0 /\ faults \in Nat
    BY FirstDoc DEF Init
  <2>3. QED
    BY <2>1, <2>2 DEF Init, PC
<1>2. TypeOK /\ [Next]_vars => TypeOK'
  <2> SUFFICES ASSUME TypeOK, [Next]_vars PROVE TypeOK'
    OBVIOUS
  <2> USE DEF PC, disk, graph, meta, changeset, harm, place, Enter, Return, Visit, Begin,
              Continue, EndOf, AtIn, PhaseDone
  <2>1. ASSUME EditDoc PROVE TypeOK'
    <3>1. doc' \in Doc
      BY <2>1, Docs DEF EditDoc
    <3>2. faults' \in Nat /\ owed' \subseteq Debts
      BY <2>1, SufferTyping DEF EditDoc, Debts
    <3>3. QED
      BY <2>1, <3>1, <3>2 DEF EditDoc
  <2>2. ASSUME NEW f \in File, Edit(f) \/ Delete(f) PROVE TypeOK'
    <3>1. last[f] \in Version \cup {0}
      OBVIOUS
    <3>2. CASE Edit(f)
      <4>1. last[f] + 1 \in Version
        BY <3>1, <3>2, Versions DEF Edit
      <4>2. PICK v \in Version : v = last[f] + 1
        BY <4>1
      <4>3. QED
        BY <3>2, <4>2 DEF Edit
    <3>3. CASE Delete(f)
      BY <3>3 DEF Delete
    <3>4. QED
      BY <2>2, <3>2, <3>3
  <2>3. ASSUME NEW f \in File, Revert(f) PROVE TypeOK'
    <3>1. PICK v \in 1..last[f] : tree' = [tree EXCEPT ![f] = v]
      BY <2>3 DEF Revert
    <3>2. v \in Version
      BY Versions
    <3>3. faults' \in Nat /\ owed' \subseteq Debts
      BY <2>3, SufferTyping DEF Revert, Debts
    <3>4. QED
      BY <2>3, <3>1, <3>2, <3>3 DEF Revert
  <2>4. CASE StartFull
    BY <2>4 DEF StartFull, Indexed
  <2>5. CASE ClearEdges \/ ClearFiles \/ ClearRest
    BY <2>5 DEF ClearEdges, ClearFiles, ClearRest
  <2>6. ASSUME NEW f \in File, Structure(f) \/ Add(f) \/ RemoveFile(f) PROVE TypeOK'
    BY <2>6 DEF Structure, Add, RemoveFile, CutDefines, DropDefs, DropEdges, DropRow
  <2>7. CASE StructureDone \/ ParseDone \/ ResolveDone
    BY <2>7 DEF StructureDone, ParseDone, ResolveDone, Indexed
  <2>8. ASSUME NEW f \in File, ParseFile(f) PROVE TypeOK'
    <3>1. CASE Parse(f)
      BY <3>1 DEF Parse
    <3>2. CASE LinkDefs(f)
      BY <3>2 DEF LinkDefs
    <3>3. CASE Skip(f)
      <4>1. faults' \in Nat /\ owed' \subseteq Debts
        BY <3>3, SufferTyping DEF Skip, Debts
      <4>2. QED
        BY <3>3, <4>1 DEF Skip
    <3>4. QED
      BY <2>8, <3>1, <3>2, <3>3 DEF ParseFile
  <2>9. ASSUME NEW f \in File, Resolve(f) PROVE TypeOK'
    BY <2>9, TargetsAreFiles DEF Resolve
  <2>10. CASE Govern \/ Stamp \/ Finish \/ ClearGovernance
    BY <2>10 DEF Govern, Stamp, Finish, ClearGovernance, Indexed
  <2>11. CASE StartIncremental \/ Noop \/ DropDone \/ AddDone
    BY <2>11 DEF StartIncremental, Noop, DropDone, AddDone, Indexed
  <2>12. CASE Diff
    BY <2>12 DEF Diff, Added, Modified, Deleted, Indexed, OnDisk
  <2>13. CASE Scope \/ Scoped
    BY <2>13 DEF Scope, Scoped, Affected, Indexed
  <2>14. CASE Fault
    <3>1. faults' \in Nat /\ owed' \subseteq Debts
      BY <2>14, AbandonedDebts, SufferTyping DEF Fault, Crash, PhaseFails, GovernanceFails
    <3>2. QED
      BY <2>14, <3>1 DEF Fault, Crash, PhaseFails, GovernanceFails
  <2>15. CASE UNCHANGED vars
    BY <2>15 DEF vars
  <2>16. QED
    BY <2>1, <2>2, <2>3, <2>4, <2>5, <2>6, <2>7, <2>8, <2>9, <2>10, <2>11, <2>12, <2>13,
       <2>14, <2>15 DEF Next, Environment, RunStep, Loops
<1>3. QED
  BY <1>1, <1>2, PTL DEF Spec
-----------------------------------------------------------------------------
(***************************************************************************)
(* The rows of a file.  A file whose row is not current can never be taken *)
(* for unchanged again, since an edit makes a version there has not been.  *)
(***************************************************************************)
Past == \A f \in File : tree[f] <= last[f] /\ node[f] <= last[f]

\* remove_file_nodes is under way.
Dropping == {"drop", "dropDefs", "dropEdges", "dropRow"}

ModeOfStep ==
  /\ pc \in {"clear", "clearFiles", "clearRest", "structure"} => mode = "full"
  /\ pc \in {"diff", "add", "clearGov"} \cup Dropping => mode = "incremental"

\* What the files that a loop has yet to visit have in common.
LoopOf ==
  /\ pc \in {"clearFiles", "clearRest"} => \A f \in File : defines[f] = {}
  /\ pc = "clearRest" => \A f \in File : node[f] = 0
  /\ pc \in {"parse", "link"} => todo \cup at \subseteq Indexed
  /\ pc \in Dropping => \A f \in changed : node[f] = 0 \/ f \in todo \cup at
  /\ pc \in {"parse", "drop"} => at = {}
  /\ pc = "add" => todo \subseteq changed /\ \A f \in todo : node[f] = 0

\* A run is on its way to parse f, or a full run is needed to do so.
ToBeParsed(f) ==
  \/ pc = "structure"
  \/ pc \in {"parse", "link"} /\ f \in todo
  \/ pc = "add" /\ f \in changed
  \/ "parse" \in owed /\ ~(AtIn("parse", "full") \/ AtIn("link", "full"))

DefsFollow(f) ==
  /\ node[f] = 0 => defs[f] = {} \/ pc = "clearRest"
  /\ Unchanged(f) => defs[f] = {node[f]} \/ (defs[f] = {} /\ ToBeParsed(f))

\* A file that is dropped is not unchanged while its row outlives its definitions.
DropsStale(f) ==
  /\ pc \in Dropping /\ f \in todo \cup at => ~Unchanged(f)
  /\ pc \in {"dropEdges", "dropRow"} /\ f \in at => defs[f] = {}

\* All definitions of a file hang on it, except between the two statements that
\* insert or delete them.
Half(f) == pc \in {"dropDefs", "link"} /\ f \in at

DefinesFollow(f) ==
  /\ pc = "dropDefs" /\ f \in at => defines[f] = {} /\ found = defs[f]
  /\ pc = "link" /\ f \in at => defs[f] = defines[f] \cup found
  /\ ~Half(f) /\ pc \notin {"clearFiles", "clearRest"} => defines[f] = defs[f]

RowsFollow(f) == DefsFollow(f) /\ DropsStale(f) /\ DefinesFollow(f)

CodeInv ==
  /\ Past /\ ModeOfStep /\ LoopOf
  /\ "clear" \in owed \/ \A f \in File : RowsFollow(f)

LEMMA PastInit == Init => Past
<1>1. ASSUME Init, NEW f \in File PROVE tree[f] = 0 /\ last[f] = 0 /\ node[f] = 0
  BY <1>1 DEF Init
<1>2. ASSUME Init, NEW f \in File PROVE tree[f] <= last[f] /\ node[f] <= last[f]
  BY <1>1, <1>2
<1>3. QED
  BY <1>2 DEF Past

\* No file has a version later than its last: edits make new ones.
LEMMA PastStep == TypeOK /\ Past /\ [Next]_vars => Past'
<1> SUFFICES ASSUME TypeOK, Past, [Next]_vars PROVE Past'
  OBVIOUS
<1> USE DEF disk, graph, TypeOK
<1>1. \A f \in File : /\ tree[f] \in Nat /\ last[f] \in Nat /\ node[f] \in Nat
                      /\ tree[f] <= last[f] /\ node[f] <= last[f]
  <2>1. Version \cup {0} \subseteq Nat
    BY Versions
  <2>2. QED
    BY <2>1 DEF Past
<1>2. ASSUME NEW f \in File, Edit(f) PROVE Past'
  BY <1>1, <1>2 DEF Edit, Past
<1>3. ASSUME NEW f \in File, Delete(f) PROVE Past'
  BY <1>1, <1>3 DEF Delete, Past
<1>4. ASSUME NEW f \in File, Revert(f) PROVE Past'
  <2>1. PICK v \in 1..last[f] : tree' = [tree EXCEPT ![f] = v]
    BY <1>4 DEF Revert
  <2>2. v \in Nat /\ v <= last[f]
    BY <1>1
  <2>3. last' = last /\ node' = node
    BY <1>4 DEF Revert
  <2>4. QED
    BY <1>1, <2>1, <2>2, <2>3 DEF Past
<1>5. ASSUME NEW f \in File, Structure(f) \/ Add(f) \/ DropRow(f) PROVE Past'
  BY <1>1, <1>5 DEF Structure, Add, DropRow, Past
<1>6. CASE ClearFiles
  BY <1>1, <1>6 DEF ClearFiles, Past
<1>7. CASE UNCHANGED <<tree, last, node>>
  BY <1>7 DEF Past
<1>8. QED
  <2>1. ASSUME NEW f \in File, ParseFile(f) \/ Resolve(f) PROVE Past'
    BY <1>7, <2>1 DEF ParseFile, Parse, LinkDefs, Skip, Resolve
  <2>2. CASE StartFull \/ ClearEdges \/ ClearRest \/ StructureDone \/ ParseDone \/ ResolveDone
    BY <1>7, <2>2 DEF StartFull, ClearEdges, ClearRest, StructureDone, ParseDone, ResolveDone
  <2>3. CASE Govern \/ Stamp \/ Finish \/ StartIncremental \/ Noop \/ Diff \/ DropDone
    BY <1>7, <2>3 DEF Govern, Stamp, Finish, StartIncremental, Noop, Diff, DropDone
  <2>4. CASE AddDone \/ Scope \/ Scoped \/ ClearGovernance \/ EditDoc \/ Fault
    BY <1>7, <2>4 DEF AddDone, Scope, Scoped, ClearGovernance, EditDoc, Fault, Crash,
                      PhaseFails, GovernanceFails
  <2>5. CASE UNCHANGED vars
    BY <1>7, <2>5 DEF vars
  <2>6. ASSUME NEW f \in File, CutDefines(f) \/ DropDefs(f) \/ DropEdges(f) PROVE Past'
    BY <1>7, <2>6 DEF CutDefines, DropDefs, DropEdges
  <2>7. QED
    BY <1>2, <1>3, <1>4, <1>5, <1>6, <2>1, <2>2, <2>3, <2>4, <2>5, <2>6
    DEF Next, Environment, RunStep, Loops, RemoveFile

\* Every step keeps to its mode, and every loop to its files.
LEMMA LoopStep ==
  ASSUME TypeOK, ModeOfStep, LoopOf, [Next]_vars
  PROVE  ModeOfStep' /\ LoopOf'
<1> USE DEF ModeOfStep, LoopOf, Indexed, Dropping, disk, graph, meta, changeset, place, Enter,
            Return, Visit, Begin, Continue, EndOf, AtIn, TypeOK
<1>1. ASSUME NEW f \in File, Edit(f) \/ Delete(f) \/ Revert(f) PROVE ModeOfStep' /\ LoopOf'
  BY <1>1 DEF Edit, Delete, Revert
<1>2. ASSUME NEW f \in File, Structure(f) \/ ParseFile(f) \/ Resolve(f)
      PROVE  ModeOfStep' /\ LoopOf'
  BY <1>2 DEF Structure, ParseFile, Parse, LinkDefs, Skip, Resolve
<1>3. ASSUME NEW f \in File, RemoveFile(f) PROVE ModeOfStep' /\ LoopOf'
  BY <1>3 DEF RemoveFile, CutDefines, DropDefs, DropEdges, DropRow
<1>4. ASSUME NEW f \in File, Add(f) PROVE ModeOfStep' /\ LoopOf'
  BY <1>4 DEF Add
<1>5. CASE StartFull
  BY <1>5 DEF StartFull
<1>6. CASE ClearEdges \/ ClearFiles \/ ClearRest
  BY <1>6 DEF ClearEdges, ClearFiles, ClearRest
<1>7. CASE StructureDone \/ ParseDone \/ ResolveDone
  BY <1>7 DEF StructureDone, ParseDone, ResolveDone
<1>8. CASE Govern \/ Stamp \/ Finish \/ StartIncremental \/ Noop
  BY <1>8 DEF Govern, Stamp, Finish, StartIncremental, Noop
<1>9. CASE Diff
  BY <1>9 DEF Diff, Added, Modified, Deleted, OnDisk
<1>10. CASE DropDone \/ AddDone
  BY <1>10 DEF DropDone, AddDone
<1>11. CASE Scope \/ Scoped \/ ClearGovernance \/ EditDoc
  BY <1>11 DEF Scope, Scoped, ClearGovernance, EditDoc
<1>12. CASE Fault
  BY <1>12 DEF Fault, Crash, PhaseFails, GovernanceFails
<1>13. CASE UNCHANGED vars
  BY <1>13 DEF vars
<1>14. QED
  BY <1>1, <1>2, <1>3, <1>4, <1>5, <1>6, <1>7, <1>8, <1>9, <1>10, <1>11, <1>12, <1>13
  DEF Next, Environment, RunStep, Loops

\* A new content of a file is not the one that its row has the hash of.
LEMMA EditedIsSeen ==
  ASSUME NEW f \in File, TypeOK, Past, RowsFollow(f), tree'[f] \in {0, last[f] + 1},
         UNCHANGED <<node, defs, defines, place>>
  PROVE  RowsFollow(f)'
<1>1. node[f] <= last[f] /\ last[f] \in Nat /\ node[f] \in Nat
  <2>1. Version \cup {0} \subseteq Nat
    BY Versions
  <2>2. QED
    BY <2>1 DEF Past, TypeOK
<1>2. ~Unchanged(f)'
  BY <1>1 DEF Unchanged
<1>3. QED
  BY <1>2 DEF RowsFollow, DefsFollow, DropsStale, DefinesFollow, Half, place

\* Only a run from scratch settles the debt of one.
LEMMA ClearDebt ==
  ASSUME [Next]_vars, "clear" \in owed, "clear" \notin owed'
  PROVE  ClearRest
<1> USE DEF harm, Suffer
<1>1. ASSUME NEW f \in File, Edit(f) \/ Delete(f) \/ Revert(f) PROVE FALSE
  BY <1>1 DEF Edit, Delete, Revert
<1>2. CASE Loops
  BY <1>2 DEF Loops, Structure, ParseFile, Parse, LinkDefs, Skip, Resolve, RemoveFile,
              CutDefines, DropDefs, DropEdges, DropRow, Add
<1>3. CASE StartFull \/ ClearEdges \/ ClearFiles \/ StructureDone \/ ParseDone \/ ResolveDone
  BY <1>3 DEF StartFull, ClearEdges, ClearFiles, StructureDone, ParseDone, ResolveDone
<1>4. CASE Govern \/ Stamp \/ Finish \/ StartIncremental \/ Noop \/ Diff \/ DropDone
  BY <1>4 DEF Govern, Stamp, Finish, StartIncremental, Noop, Diff, DropDone
<1>5. CASE AddDone \/ Scope \/ Scoped \/ ClearGovernance \/ EditDoc \/ Fault
  BY <1>5 DEF AddDone, Scope, Scoped, ClearGovernance, EditDoc, Fault, Crash, PhaseFails,
              GovernanceFails
<1>6. CASE UNCHANGED vars
  BY <1>6 DEF vars
<1>7. QED
  BY <1>1, <1>2, <1>3, <1>4, <1>5, <1>6 DEF Next, Environment, RunStep, Loops

\* A step that leaves the rows, the content and the place of every file alone.
LEMMA KeepsRows ==
  ASSUME NEW f \in File, RowsFollow(f), UNCHANGED <<tree, node, defs, defines, place, mode>>,
         UNCHANGED <<changed, owed>>
  PROVE  RowsFollow(f)'
BY DEF RowsFollow, DefsFollow, DropsStale, DefinesFollow, Half, Unchanged, ToBeParsed, AtIn,
       place

LEMMA RowsStep ==
  ASSUME TypeOK, CodeInv, [Next]_vars, "clear" \notin owed', NEW f \in File
  PROVE  RowsFollow(f)'
<1> USE DEF disk, graph, meta, changeset, harm, place, Enter, Return, Visit, Begin, Continue,
            EndOf, AtIn
<1>1. CASE ClearRest
  BY <1>1 DEF ClearRest, CodeInv, LoopOf, RowsFollow, DefsFollow, DropsStale, DefinesFollow,
              Half, Unchanged, Dropping
<1>2. CASE ~ClearRest
  <2> USE DEF RowsFollow, DefsFollow, DropsStale, DefinesFollow, Half, Unchanged, ToBeParsed,
              Dropping
  <2>1. "clear" \notin owed
    BY <1>2, ClearDebt
  <2>2. RowsFollow(f)
    BY <2>1 DEF CodeInv
  <2>3. ASSUME NEW g \in File, Edit(g) \/ Delete(g) PROVE RowsFollow(f)'
    <3>1. CASE f = g
      <4>1. tree'[f] \in {0, last[f] + 1} /\ UNCHANGED <<node, defs, defines, place>>
        BY <2>3, <3>1 DEF Edit, Delete, TypeOK
      <4>2. QED
        BY <2>2, <4>1, EditedIsSeen DEF CodeInv
    <3>2. CASE f # g
      BY <2>2, <2>3, <3>2 DEF Edit, Delete, TypeOK
    <3>3. QED
      BY <3>1, <3>2
  <2>4. ASSUME NEW g \in File, Revert(g) PROVE FALSE
    BY <2>4 DEF Revert, Suffer
  <2>5. ASSUME NEW g \in File, Structure(g) PROVE RowsFollow(f)'
    BY <2>2, <2>5 DEF Structure, TypeOK
  <2>6. ASSUME NEW g \in File, ParseFile(g) PROVE RowsFollow(f)'
    <3>1. CASE Parse(g)
      <4>1. node[g] # 0 /\ at = {} /\ pc = "parse"
        BY <3>1 DEF Parse, CodeInv, LoopOf, Indexed
      <4>2. defs[f] = defines[f]
        BY <2>2, <4>1
      <4>3. QED
        BY <2>2, <3>1, <4>1, <4>2 DEF Parse, TypeOK
    <3>2. CASE LinkDefs(g)
      BY <2>2, <3>2 DEF LinkDefs, TypeOK, CodeInv, LoopOf, Indexed
    <3>3. CASE Skip(g)
      BY <2>2, <3>3 DEF Skip, Suffer
    <3>4. QED
      BY <2>6, <3>1, <3>2, <3>3 DEF ParseFile
  <2>7. ASSUME NEW g \in File, Resolve(g) PROVE RowsFollow(f)'
    BY <2>2, <2>7 DEF Resolve
  <2>8. ASSUME NEW g \in File, RemoveFile(g) PROVE RowsFollow(f)'
    <3>1. CASE CutDefines(g)
      <4>1. at = {} /\ pc = "drop" /\ defines[f] = defs[f]
        BY <2>2, <3>1 DEF CutDefines, CodeInv, LoopOf
      <4>2. QED
        BY <2>2, <3>1, <4>1 DEF CutDefines, TypeOK
    <3>2. CASE DropDefs(g)
      BY <2>2, <3>2 DEF DropDefs, TypeOK
    <3>3. CASE DropEdges(g)
      BY <2>2, <3>3 DEF DropEdges
    <3>4. CASE DropRow(g)
      BY <2>2, <3>4 DEF DropRow, TypeOK
    <3>5. QED
      BY <2>8, <3>1, <3>2, <3>3, <3>4 DEF RemoveFile
  <2>9. ASSUME NEW g \in File, Add(g) PROVE RowsFollow(f)'
    BY <2>2, <2>9 DEF Add, TypeOK, CodeInv, LoopOf
  <2>10. CASE StartFull
    BY <2>2, <2>10 DEF StartFull, Indexed
  <2>11. CASE ClearEdges \/ ClearFiles
    BY <2>2, <2>11 DEF ClearEdges, ClearFiles
  <2>12. CASE StructureDone
    BY <2>2, <2>12 DEF StructureDone, Indexed
  <2>13. CASE ParseDone \/ ResolveDone
    BY <2>2, <2>13 DEF ParseDone, ResolveDone
  <2>14. CASE Govern \/ Stamp \/ Finish \/ ClearGovernance
    BY <2>2, <2>14 DEF Govern, Stamp, Finish, ClearGovernance
  <2>15. CASE StartIncremental \/ Noop \/ DropDone
    BY <2>2, <2>15 DEF StartIncremental, Noop, DropDone
  <2>16. CASE Diff
    BY <2>2, <2>16 DEF Diff, Modified, Deleted, Indexed, OnDisk
  <2>17. CASE AddDone
    BY <2>2, <2>17 DEF AddDone, Indexed, CodeInv, ModeOfStep
  <2>18. CASE Scope \/ Scoped \/ EditDoc
    BY <2>2, <2>18 DEF Scope, Scoped, EditDoc, Suffer
  <2>19. CASE Fault
    BY <2>2, <2>19 DEF Fault, Crash, PhaseFails, GovernanceFails, Suffer, Abandoned, Debts,
                       CodeInv, ModeOfStep
  <2>20. CASE UNCHANGED vars
    BY <2>2, <2>20, KeepsRows DEF vars
  <2>21. QED
    BY <1>2, <2>3, <2>4, <2>5, <2>6, <2>7, <2>8, <2>9, <2>10, <2>11, <2>12, <2>13, <2>14,
       <2>15, <2>16, <2>17, <2>18, <2>19, <2>20 DEF Next, Environment, RunStep, Loops
<1>3. QED
  BY <1>1, <1>2

LEMMA CodeInvariant == Spec => []CodeInv
<1>1. Init => CodeInv
  <2>1. ASSUME Init, NEW f \in File PROVE RowsFollow(f)
    BY <2>1 DEF Init, RowsFollow, DefsFollow, DropsStale, DefinesFollow, Half, Unchanged, Dropping
  <2>2. Init => ModeOfStep /\ LoopOf
    BY DEF Init, ModeOfStep, LoopOf, Dropping
  <2>3. QED
    BY <2>1, <2>2, PastInit DEF CodeInv
<1>2. TypeOK /\ CodeInv /\ [Next]_vars => CodeInv'
  <2> SUFFICES ASSUME TypeOK, CodeInv, [Next]_vars PROVE CodeInv'
    OBVIOUS
  <2>1. Past' /\ ModeOfStep' /\ LoopOf'
    BY PastStep, LoopStep DEF CodeInv
  <2>2. "clear" \in owed' \/ \A f \in File : RowsFollow(f)'
    BY RowsStep
  <2>3. QED
    BY <2>1, <2>2 DEF CodeInv
<1>3. QED
  BY <1>1, <1>2, IndexTyping, PTL DEF Spec

\* CodeInv says of idle states what UnchangedIsParsed says: a file that the next
\* changeset passes over has the definitions of its content, and they are where
\* the next drop looks for them.
THEOREM ParsedIfUnchanged == Spec => []UnchangedIsParsed
<1>1. CodeInv => UnchangedIsParsed
  BY DEF CodeInv, UnchangedIsParsed, RowsFollow, DefsFollow, DefinesFollow, Half, ToBeParsed
<1>2. QED
  BY <1>1, CodeInvariant, PTL
-----------------------------------------------------------------------------
(***************************************************************************)
(* The rows of the governance documents.                                   *)
(***************************************************************************)
\* A full run has yet to ingest the documents, or an incremental one to do so
\* again after it cleared them.
Ungoverned ==
  \/ mode = "full" /\ pc \in {"structure", "parse", "link", "resolve", "govern"}
  \/ pc = "govern"

\* A full run that will not clear the graph finds no governance rows in it.
NoRowsYet ==
  \/ Ungoverned
  \/ /\ pstate \in {"none", "initialized", "partial"}
     /\ ~(mode = "incremental" /\ pc \in {"stamp", "finish"})

Current == stamp = doc => gov = {doc}

Ingested == \E d \in gov : gov = {d} /\ (mode = "incremental" => seen <= d /\ d <= doc)

GovInv ==
  /\ stamp <= doc /\ seen <= doc
  /\ pc # "idle" => pstate # "none"
  /\ pc \in {"clear", "clearFiles", "clearRest"} => pstate \in {"failed", "complete"}
  /\ AtIn("stamp", "full") => pstate = "complete"
  /\ \/ "clear" \in owed
     \/ /\ NoRowsYet => gov = {}
        /\ "govern" \in owed \/ Ungoverned \/ Current
        /\ pc = "stamp" => Ingested
        /\ AtIn("stamp", "full") => "govern" \in owed \/ gov = {doc}

\* A step that changes neither the documents nor their rows, and that neither
\* enters nor leaves a place where something else is said of them.
LEMMA KeepsGov ==
  ASSUME GovInv, UNCHANGED <<doc, gov, stamp, seen, pstate, mode>>,
         pc' = pc \/ {pc, pc'} \subseteq Dropping \/ {pc, pc'} \subseteq {"parse", "link"},
         owed \subseteq owed'
  PROVE  GovInv'
BY DEF GovInv, NoRowsYet, Ungoverned, Current, Ingested, AtIn, Dropping

LEMMA GovStep ==
  ASSUME TypeOK, ModeOfStep, GovInv, [Next]_vars
  PROVE  GovInv'
<1> USE DEF disk, graph, meta, changeset, harm, place, Enter, Return, Visit, Begin, Continue,
            EndOf, AtIn
<1>1. ASSUME NEW f \in File, Edit(f) \/ Delete(f) \/ Revert(f) PROVE GovInv'
  BY <1>1, KeepsGov DEF Edit, Delete, Revert, Suffer
<1>2. ASSUME NEW f \in File, Structure(f) \/ ParseFile(f) \/ Resolve(f) \/ RemoveFile(f) \/ Add(f)
      PROVE  GovInv'
  <2>1. CASE Structure(f) \/ Resolve(f) \/ Add(f)
    BY <2>1, KeepsGov DEF Structure, Resolve, Add
  <2>2. CASE ParseFile(f)
    BY <2>2, KeepsGov DEF ParseFile, Parse, LinkDefs, Skip, Suffer
  <2>3. CASE RemoveFile(f)
    BY <2>3, KeepsGov DEF RemoveFile, CutDefines, DropDefs, DropEdges, DropRow, Dropping
  <2>4. QED
    BY <1>2, <2>1, <2>2, <2>3
<1> USE DEF GovInv, NoRowsYet, Ungoverned, Current, Ingested
<1>3. CASE EditDoc
  BY <1>3, Docs DEF EditDoc, Suffer, TypeOK
<1>4. CASE StartFull
  BY <1>4 DEF StartFull, TypeOK
<1>5. CASE ClearEdges \/ ClearFiles
  BY <1>5 DEF ClearEdges, ClearFiles, ModeOfStep
<1>6. CASE ClearRest
  BY <1>6 DEF ClearRest, ModeOfStep
<1>7. CASE StructureDone \/ ParseDone \/ ResolveDone
  BY <1>7 DEF StructureDone, ParseDone, ResolveDone, PhaseDone, ModeOfStep
<1>8. CASE Govern
  <2>1. pc = "govern" /\ pc' = "stamp" /\ gov' = gov \cup {doc}
    BY <1>8 DEF Govern
  <2>2. UNCHANGED <<doc, stamp, seen, mode>> /\ owed' = owed \ {"govern"}
    BY <1>8 DEF Govern
  <2>3. doc <= doc
    BY Docs DEF TypeOK
  <2>4. "clear" \notin owed => gov' = {doc}
    BY <2>1 DEF TypeOK
  <2>5. "clear" \notin owed => Ingested'
    BY <2>2, <2>3, <2>4
  <2>6. AtIn("stamp", "full")' => pstate' = "complete"
    BY <1>8 DEF Govern
  <2>7. pstate' # "none" /\ ~NoRowsYet'
    BY <1>8, <2>1 DEF Govern, TypeOK
  <2>8. QED
    BY <2>1, <2>2, <2>4, <2>5, <2>6, <2>7
<1>9. CASE Stamp
  BY <1>9, Docs DEF Stamp, TypeOK
<1>10. CASE Finish \/ Noop
  BY <1>10, Docs DEF Finish, Noop, TypeOK
<1>11. CASE StartIncremental
  BY <1>11 DEF StartIncremental
<1>12. CASE Diff
  BY <1>12, Docs DEF Diff, TypeOK
<1>13. CASE DropDone \/ AddDone \/ Scope \/ Scoped
  BY <1>13 DEF DropDone, AddDone, Scope, Scoped, ModeOfStep
<1>14. CASE ClearGovernance
  BY <1>14 DEF ClearGovernance, ModeOfStep
<1>15. CASE Crash
  <2>1. pc' = "idle" /\ seen' = 0 /\ UNCHANGED <<doc, gov, stamp, pstate>>
    BY <1>15 DEF Crash
  <2>2. owed' = owed \cup Abandoned
    BY <1>15 DEF Crash, Suffer
  <2>3. 0 <= doc
    BY Docs DEF TypeOK
  <2>4. "clear" \notin owed' => (NoRowsYet' => gov' = {})
    BY <1>15, <2>1, <2>2 DEF Crash, Abandoned, Debts, TypeOK
  <2>5. "clear" \notin owed' => "govern" \in owed' \/ Current'
    BY <1>15, <2>1, <2>2 DEF Crash, Abandoned, Debts, TypeOK
  <2>6. QED
    BY <2>1, <2>2, <2>3, <2>4, <2>5
<1>16. CASE PhaseFails
  BY <1>16, Docs DEF PhaseFails, Suffer, Abandoned, Debts, TypeOK
<1>17. CASE GovernanceFails
  BY <1>17 DEF GovernanceFails, Suffer, Abandoned, Debts, TypeOK
<1>18. CASE UNCHANGED vars
  BY <1>18 DEF vars
<1>19. QED
  BY <1>1, <1>2, <1>3, <1>4, <1>5, <1>6, <1>7, <1>8, <1>9, <1>10, <1>11, <1>12, <1>13,
     <1>14, <1>15, <1>16, <1>17, <1>18 DEF Next, Environment, RunStep, Loops, Fault

LEMMA GovInvariant == Spec => []GovInv
<1>1. Init => GovInv
  BY DEF Init, GovInv, NoRowsYet, Ungoverned, Current, Ingested, AtIn
<1>2. TypeOK /\ CodeInv /\ GovInv /\ [Next]_vars => GovInv'
  BY GovStep DEF CodeInv
<1>3. QED
  BY <1>1, <1>2, CodeInvariant, IndexTyping, PTL DEF Spec

\* GovInv says of idle states what GovernanceTracked says: whatever edits, runs
\* and failures came, a fingerprint that matches vouches for the rows.
THEOREM FingerprintTracksRows == Spec => []GovernanceTracked
<1>1. GovInv => GovernanceTracked
  BY DEF GovInv, GovernanceTracked, Current, Ungoverned
<1>2. QED
  BY <1>1, GovInvariant, PTL

\* The two together: a file that is on disk is indexed and unchanged or else is
\* in the changeset, one that is not has neither a row nor definitions, and the
\* documents are those of the fingerprint.  So a changeset that is empty is
\* the truth about the whole graph.
THEOREM NothingToDoIsTrue == Spec => []UpToDateIsFaithful
<1>1. TypeOK /\ CodeInv /\ GovInv => UpToDateIsFaithful
  <2> SUFFICES ASSUME TypeOK, CodeInv, GovInv, pc = "idle", owed = {}, UpToDate
               PROVE  Faithful
    BY DEF UpToDateIsFaithful
  <2>1. ASSUME NEW f \in File PROVE node[f] = tree[f]
    BY DEF UpToDate, Added, Modified, Deleted, OnDisk, Indexed
  <2>2. ASSUME NEW f \in File PROVE defs[f] = {tree[f]} \ {0}
    BY <2>1 DEF CodeInv, RowsFollow, DefsFollow, Unchanged, ToBeParsed
  <2>3. stamp = doc /\ gov = {doc}
    BY DEF UpToDate, GovInv, Current, Ungoverned
  <2>4. QED
    BY <2>1, <2>2, <2>3 DEF Faithful
<1>2. QED
  BY <1>1, IndexTyping, CodeInvariant, GovInvariant, PTL
-----------------------------------------------------------------------------
(***************************************************************************)
(* The edges.  None outlives a row it is an end of, and none outlives the  *)
(* content that it was resolved from while the row says it is that content.*)
(***************************************************************************)
SoundEdge(e) ==
  /\ node[e[1]] # 0 /\ node[e[2]] # 0
  /\ Unchanged(e[1]) => e[2] \in Imports[e[1]][tree[e[1]]]

EdgePlaces ==
  /\ pc \in {"clearFiles", "clearRest"} => imports = {}
  /\ pc = "dropRow" => \A e \in imports : e[1] \notin at /\ e[2] \notin at
  /\ pc = "resolve" => todo \subseteq Indexed

EdgeInv == EdgePlaces /\ ("clear" \in owed \/ \A e \in imports : SoundEdge(e))

LEMMA PlacesStep ==
  ASSUME TypeOK, EdgePlaces, [Next]_vars
  PROVE  EdgePlaces'
<1> USE DEF EdgePlaces, Indexed, disk, graph, meta, changeset, harm, place, Enter, Return, Visit,
            Begin, Continue, EndOf, AtIn
<1>1. ASSUME NEW f \in File, Edit(f) \/ Delete(f) \/ Revert(f) PROVE EdgePlaces'
  BY <1>1 DEF Edit, Delete, Revert
<1>2. CASE Loops
  BY <1>2 DEF Loops, Structure, ParseFile, Parse, LinkDefs, Skip, Resolve, RemoveFile,
              CutDefines, DropDefs, DropEdges, DropRow, Add
<1>3. CASE StartFull \/ ClearEdges \/ ClearFiles \/ ClearRest
  BY <1>3 DEF StartFull, ClearEdges, ClearFiles, ClearRest
<1>4. CASE StructureDone \/ ParseDone \/ ResolveDone \/ Govern \/ Stamp \/ Finish
  BY <1>4 DEF StructureDone, ParseDone, ResolveDone, Govern, Stamp, Finish
<1>5. CASE StartIncremental \/ Noop \/ Diff \/ DropDone \/ AddDone
  BY <1>5 DEF StartIncremental, Noop, Diff, DropDone, AddDone
<1>6. CASE Scope \/ Scoped \/ ClearGovernance
  BY <1>6 DEF Scope, Scoped, ClearGovernance, Affected
<1>7. CASE EditDoc \/ Fault
  BY <1>7 DEF EditDoc, Fault, Crash, PhaseFails, GovernanceFails
<1>8. CASE UNCHANGED vars
  BY <1>8 DEF vars
<1>9. QED
  BY <1>1, <1>2, <1>3, <1>4, <1>5, <1>6, <1>7, <1>8 DEF Next, Environment, RunStep

LEMMA EdgesKept ==
  ASSUME TypeOK, UNCHANGED <<tree, node>>, imports' \subseteq imports,
         \A e \in imports : SoundEdge(e)
  PROVE  \A e \in imports' : SoundEdge(e)'
BY DEF SoundEdge, Unchanged

LEMMA EdgeStep ==
  ASSUME TypeOK, Past, LoopOf, EdgeInv, [Next]_vars, ~ClearRest, "clear" \notin owed'
  PROVE  \A e \in imports' : SoundEdge(e)'
<1> USE DEF disk, graph, meta, changeset, harm, place, Enter, Return, Visit, Begin, Continue,
            EndOf, AtIn
<1>1. \A e \in imports : SoundEdge(e) /\ e[1] \in File /\ e[2] \in File
  BY ClearDebt DEF EdgeInv, TypeOK
<1>2. ASSUME NEW f \in File, Edit(f) \/ Delete(f) PROVE \A e \in imports' : SoundEdge(e)'
  <2>1. Version \cup {0} \subseteq Nat
    BY Versions
  <2>2. node[f] <= last[f] /\ node[f] \in Nat /\ last[f] \in Nat
    BY <2>1 DEF Past, TypeOK
  <2>3. tree'[f] \in {0, last[f] + 1} /\ node' = node /\ imports' = imports
    BY <1>2 DEF Edit, Delete, TypeOK
  <2>4. \A g \in File \ {f} : tree'[g] = tree[g]
    BY <1>2 DEF Edit, Delete, TypeOK
  <2>5. ~Unchanged(f)'
    BY <2>2, <2>3 DEF Unchanged
  <2>6. ASSUME NEW e \in imports' PROVE SoundEdge(e)'
    <3>1. CASE e[1] = f
      BY <1>1, <2>3, <2>5, <3>1 DEF SoundEdge
    <3>2. CASE e[1] # f
      BY <1>1, <2>3, <2>4, <3>2 DEF SoundEdge, Unchanged
    <3>3. QED
      BY <3>1, <3>2
  <2>7. QED
    BY <2>6
<1>3. ASSUME NEW f \in File, Revert(f) PROVE FALSE
  BY <1>3 DEF Revert, Suffer
<1>4. ASSUME NEW f \in File, Structure(f) \/ Add(f) PROVE \A e \in imports' : SoundEdge(e)'
  <2>1. imports' = imports /\ tree' = tree
    BY <1>4 DEF Structure, Add
  <2>2. \A g \in File : node[g] # 0 => node'[g] = node[g]
    BY <1>4 DEF Structure, Add, LoopOf, TypeOK
  <2>3. QED
    BY <1>1, <2>1, <2>2 DEF SoundEdge, Unchanged
<1>5. ASSUME NEW f \in File, Resolve(f) PROVE \A e \in imports' : SoundEdge(e)'
  <2>1. node' = node /\ tree' = tree /\ imports' = imports \cup ({f} \X Targets(f))
    BY <1>5 DEF Resolve
  <2>2. node[f] # 0
    BY <1>5 DEF Resolve, EdgeInv, EdgePlaces, Indexed
  <2>3. \A g \in Targets(f) : node[g] # 0 /\ g \in Imports[f][tree[f]]
    BY DEF Targets
  <2>4. ASSUME NEW e \in imports' PROVE SoundEdge(e)'
    <3>1. CASE e \in imports
      BY <1>1, <2>1, <3>1 DEF SoundEdge, Unchanged
    <3>2. CASE e[1] = f /\ e[2] \in Targets(f)
      BY <2>1, <2>2, <2>3, <3>2 DEF SoundEdge, Unchanged
    <3>3. QED
      BY <2>1, <3>1, <3>2
  <2>5. QED
    BY <2>4
<1>6. ASSUME NEW f \in File, DropRow(f) PROVE \A e \in imports' : SoundEdge(e)'
  <2>1. tree' = tree /\ imports' = imports /\ \A g \in File \ {f} : node'[g] = node[g]
    BY <1>6 DEF DropRow, TypeOK
  <2>2. \A e \in imports : e[1] # f /\ e[2] # f
    BY <1>6 DEF DropRow, EdgeInv, EdgePlaces
  <2>3. QED
    BY <1>1, <2>1, <2>2 DEF SoundEdge, Unchanged
<1>7. CASE UNCHANGED <<tree, node>> /\ imports' \subseteq imports
  BY <1>1, <1>7, EdgesKept
<1>8. QED
  <2>1. ASSUME NEW f \in File,
               ParseFile(f) \/ CutDefines(f) \/ DropDefs(f) \/ DropEdges(f)
        PROVE  \A e \in imports' : SoundEdge(e)'
    BY <1>7, <2>1 DEF ParseFile, Parse, LinkDefs, Skip, CutDefines, DropDefs, DropEdges
  <2>2. CASE ClearFiles
    BY <2>2 DEF ClearFiles, EdgeInv, EdgePlaces
  <2>3. CASE StartFull \/ ClearEdges \/ StructureDone \/ ParseDone \/ ResolveDone
    BY <1>7, <2>3 DEF StartFull, ClearEdges, StructureDone, ParseDone, ResolveDone
  <2>4. CASE Govern \/ Stamp \/ Finish \/ StartIncremental \/ Noop \/ Diff \/ DropDone
    BY <1>7, <2>4 DEF Govern, Stamp, Finish, StartIncremental, Noop, Diff, DropDone
  <2>5. CASE AddDone \/ Scope \/ Scoped \/ ClearGovernance \/ EditDoc \/ Fault
    BY <1>7, <2>5 DEF AddDone, Scope, Scoped, ClearGovernance, EditDoc, Fault, Crash,
                      PhaseFails, GovernanceFails
  <2>6. CASE UNCHANGED vars
    BY <1>7, <2>6 DEF vars
  <2>7. QED
    BY <1>2, <1>3, <1>4, <1>5, <1>6, <2>1, <2>2, <2>3, <2>4, <2>5, <2>6
    DEF Next, Environment, RunStep, Loops, RemoveFile

LEMMA EdgeInvariant == Spec => []EdgeInv
<1>1. Init => EdgeInv
  BY DEF Init, EdgeInv, EdgePlaces
<1>2. TypeOK /\ CodeInv /\ EdgeInv /\ [Next]_vars => EdgeInv'
  <2> SUFFICES ASSUME TypeOK, CodeInv, EdgeInv, [Next]_vars PROVE EdgeInv'
    OBVIOUS
  <2>1. EdgePlaces'
    BY PlacesStep DEF EdgeInv
  <2>2. CASE ClearRest
    BY <2>1, <2>2 DEF ClearRest, EdgeInv, EdgePlaces
  <2>3. CASE ~ClearRest
    BY <2>1, <2>3, EdgeStep DEF EdgeInv, CodeInv
  <2>4. QED
    BY <2>2, <2>3
<1>3. QED
  BY <1>1, <1>2, CodeInvariant, IndexTyping, PTL DEF Spec

\* EdgeInv says of idle states what ImportsSound says: impact analysis shows no
\* import that an unchanged file does not have.
THEOREM NoPhantomImport == Spec => []ImportsSound
<1>1. EdgeInv => ImportsSound
  BY DEF EdgeInv, ImportsSound, SoundEdge
<1>2. QED
  BY <1>1, EdgeInvariant, PTL
-----------------------------------------------------------------------------
(***************************************************************************)
(* The converse: a full run that resolves its files finds their imports.   *)
(***************************************************************************)
\* A file that has been visited has its edges to the files that are unchanged.
Resolved(f) ==
  \A g \in File :
    Unchanged(f) /\ Unchanged(g) /\ g \in Imports[f][tree[f]] => <<f, g>> \in imports

ResolveInv ==
  AtIn("resolve", "full") /\ "clear" \notin owed => \A f \in File \ todo : Resolved(f)

\* While the files are being resolved only the working tree may interfere, and a
\* file that is edited is no longer unchanged.
LEMMA ResolveStep ==
  ASSUME TypeOK, Past, ResolveInv, [Next]_vars
  PROVE  ResolveInv'
<1> SUFFICES ASSUME AtIn("resolve", "full")', "clear" \notin owed', NEW f \in File \ todo'
             PROVE  Resolved(f)'
  BY DEF ResolveInv
<1> USE DEF disk, graph, meta, changeset, harm, place, Enter, Return, Visit, Begin, Continue,
            EndOf, AtIn
<1>1. ASSUME NEW h \in File, Edit(h) \/ Delete(h) PROVE Resolved(f)'
  <2>1. tree'[h] \in {0, last[h] + 1} /\ UNCHANGED <<node, imports, pc, mode, todo, owed>>
    BY <1>1 DEF Edit, Delete, TypeOK
  <2>2. \A g \in File \ {h} : tree'[g] = tree[g]
    BY <1>1 DEF Edit, Delete, TypeOK
  <2>3. Version \cup {0} \subseteq Nat
    BY Versions
  <2>4. node[h] <= last[h] /\ node[h] \in Nat /\ last[h] \in Nat
    BY <2>3 DEF Past, TypeOK
  <2>5. ~Unchanged(h)'
    BY <2>1, <2>4 DEF Unchanged
  <2>6. Resolved(f)
    BY <2>1 DEF ResolveInv
  <2>7. QED
    BY <2>1, <2>2, <2>5, <2>6 DEF Resolved, Unchanged
<1>2. ASSUME NEW h \in File, Revert(h) PROVE Resolved(f)'
  BY <1>2 DEF Revert, Suffer
<1>3. ASSUME NEW h \in File, Resolve(h) PROVE Resolved(f)'
  <2>1. /\ UNCHANGED <<tree, node, pc, mode, owed>> /\ todo' = todo \ {h}
        /\ imports' = imports \cup ({h} \X Targets(h))
    BY <1>3 DEF Resolve
  <2>2. CASE f = h
    <3>1. \A g \in File : Unchanged(f) /\ Unchanged(g) /\ g \in Imports[f][tree[f]]
                           => g \in Targets(f)
      BY DEF Targets, Unchanged
    <3>2. QED
      BY <2>1, <2>2, <3>1 DEF Resolved, Unchanged
  <2>3. CASE f # h
    <3>1. Resolved(f)
      BY <2>1, <2>3 DEF ResolveInv
    <3>2. QED
      BY <2>1, <3>1 DEF Resolved, Unchanged
  <2>4. QED
    BY <2>2, <2>3
<1>4. CASE StartFull \/ ParseDone
  BY <1>4 DEF StartFull, ParseDone, Resolved, Unchanged, Indexed
<1>5. CASE EditDoc \/ UNCHANGED vars
  <2>1. UNCHANGED <<tree, node, imports, pc, mode, todo>> /\ owed \subseteq owed'
    BY <1>5 DEF EditDoc, Suffer, vars
  <2>2. QED
    BY <2>1 DEF ResolveInv, Resolved, Unchanged
<1>6. QED
  <2>1. ASSUME NEW h \in File, Structure(h) \/ ParseFile(h) \/ RemoveFile(h) \/ Add(h)
        PROVE  FALSE
    BY <2>1 DEF Structure, ParseFile, Parse, LinkDefs, Skip, RemoveFile, CutDefines, DropDefs,
                DropEdges, DropRow, Add
  <2>2. CASE ClearEdges \/ ClearFiles \/ ClearRest \/ StructureDone \/ ResolveDone
    BY <2>2 DEF ClearEdges, ClearFiles, ClearRest, StructureDone, ResolveDone
  <2>3. CASE Govern \/ Stamp \/ Finish \/ StartIncremental \/ Noop \/ Diff \/ DropDone
    BY <2>3 DEF Govern, Stamp, Finish, StartIncremental, Noop, Diff, DropDone
  <2>4. CASE AddDone \/ Scope \/ Scoped \/ ClearGovernance \/ Fault
    BY <2>4 DEF AddDone, Scope, Scoped, ClearGovernance, Fault, Crash, PhaseFails,
                GovernanceFails
  <2>5. QED
    BY <1>1, <1>2, <1>3, <1>4, <1>5, <2>1, <2>2, <2>3, <2>4
    DEF Next, Environment, RunStep, Loops

\* When the loop is at its end every file has been visited: a full run, a resumed
\* one too, leaves no import between unchanged files out, whatever is edited
\* meanwhile.
THEOREM FullRunFindsImports == Spec => FullRunResolves
<1>1. Init => ResolveInv
  BY DEF Init, ResolveInv, AtIn
<1>2. TypeOK /\ CodeInv /\ ResolveInv /\ [Next]_vars => ResolveInv'
  BY ResolveStep DEF CodeInv
<1>3. ASSUME ResolveInv, [Next]_vars
      PROVE  [AtIn("resolve", "full") /\ pc' = "govern" /\ "clear" \notin owed => Linked]_vars
  <2> SUFFICES ASSUME AtIn("resolve", "full"), pc' = "govern", "clear" \notin owed PROVE Linked
    OBVIOUS
  <2>1. todo = {}
    <3> USE DEF AtIn, place, Enter, Return, Visit, Begin, Continue, EndOf
    <3>1. ASSUME NEW h \in File, Edit(h) \/ Delete(h) \/ Revert(h) PROVE FALSE
      BY <3>1 DEF Edit, Delete, Revert
    <3>2. CASE Loops
      BY <3>2 DEF Loops, Structure, ParseFile, Parse, LinkDefs, Skip, Resolve, RemoveFile,
                  CutDefines, DropDefs, DropEdges, DropRow, Add
    <3>3. CASE StartFull \/ StartIncremental \/ EditDoc \/ Fault
      BY <3>3 DEF StartFull, StartIncremental, EditDoc, Fault, Crash, PhaseFails,
                  GovernanceFails
    <3>4. CASE RunStep /\ ~Loops
      BY <3>4 DEF RunStep, ClearEdges, ClearFiles, ClearRest, StructureDone, ParseDone,
                  ResolveDone, Govern, Stamp, Finish, Noop, Diff, DropDone, AddDone, Scope,
                  Scoped, ClearGovernance
    <3>5. CASE UNCHANGED vars
      BY <3>5 DEF vars
    <3>6. QED
      BY <1>3, <3>1, <3>2, <3>3, <3>4, <3>5 DEF Next, Environment
  <2>2. \A f \in File : Resolved(f)
    BY <1>3, <2>1 DEF ResolveInv
  <2>3. QED
    BY <2>2 DEF Resolved, Linked
<1>4. Spec => []ResolveInv
  BY <1>1, <1>2, CodeInvariant, IndexTyping, PTL DEF Spec
<1>5. QED
  BY <1>3, <1>4, PTL DEF Spec, FullRunResolves
=============================================================================
