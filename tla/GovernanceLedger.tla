--------------------------- MODULE GovernanceLedger ---------------------------
(***************************************************************************)
(* What the governance store promises: one ledger of findings, backlog     *)
(* items and sessions.  Only the operations of the tools change it; that   *)
(* it is kept as a database, a committed file and an export is invisible.  *)
(* A finding written in the text of a plan is always in the ledger:        *)
(* removing its row only makes the next index read it anew, as open.       *)
(***************************************************************************)
CONSTANTS Item, Session,   \* what the rows are named by
          PlanText         \* the items found in the plans' own text

VARIABLE ledger            \* the status of every row

Row == Item \cup Session
Blank == [r \in Row |-> IF r \in PlanText THEN "open" ELSE "absent"]
OpenSessions == {s \in Session : ledger[s] = "open"}

Init == ledger = Blank

\* An item that is already there keeps its status.
Record(S) ==
  ledger' = [r \in Row |->
               IF r \in S /\ ledger[r] = "absent" THEN "open" ELSE ledger[r]]

\* A disposition: resolved, deferred or not applicable; archived; ended.
Dispose(S) ==
  /\ \A r \in S : ledger[r] # "absent"
  /\ ledger' = [r \in Row |-> IF r \in S THEN "done" ELSE ledger[r]]

\* A session starts only when no other is open.
Start(s) ==
  /\ OpenSessions = {}
  /\ ledger[s] = "absent"
  /\ ledger' = [ledger EXCEPT ![s] = "open"]

Remove(r) == ledger' = [ledger EXCEPT ![r] = Blank[r]]

Next ==
  \/ \E S \in SUBSET (Item \ PlanText) : Record(S)
  \/ \E S \in SUBSET Row : Dispose(S)
  \/ \E s \in Session : Start(s)
  \/ \E r \in Row : Remove(r)

Spec == Init /\ [][Next]_ledger
=============================================================================
