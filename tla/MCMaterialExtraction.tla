------------------------ MODULE MCMaterialExtraction ------------------------
(* Constants of the MaterialExtraction runs.                               *)
EXTENDS MaterialExtraction, TLC

CONSTANTS f1, f2, t1, r1, r2, q1, q2, s1, s2

\* Two files that differ in their bytes and read the same.
OneText == [f \in Files |-> t1]

RowSymmetry == Permutations(Rows)
=============================================================================
