----------------------------- MODULE MCReporting -----------------------------
EXTENDS Reporting

(* A directory with a file and a folder that holds another. *)
CONSTANTS root, sub, f1, f2

MCTree == [f \in {root, sub} |-> IF f = root THEN {f1, sub} ELSE {f2}]
=============================================================================
