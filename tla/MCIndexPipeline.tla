--------------------------- MODULE MCIndexPipeline ---------------------------
(* Two files of which odd versions import the other one and even versions     *)
(* import nothing; plans that speak of every file or of one of them, or of    *)
(* none, for a run whose properties do not read the impacts.                  *)
EXTENDS IndexPipeline

CONSTANTS a, b

MCFile == {a, b}
MCImports == [f \in MCFile |-> [v \in Version |-> IF v % 2 = 1 THEN MCFile \ {f} ELSE {}]]
MCNoImpacts == [d \in Doc |-> {}]
MCImpacts == [d \in Doc |-> IF d % 2 = 1 THEN MCFile ELSE {a}]
=============================================================================
