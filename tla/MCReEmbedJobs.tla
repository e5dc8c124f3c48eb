--------------------------- MODULE MCReEmbedJobs ---------------------------
(* Constants of the ReEmbedJobs runs.                                      *)
EXTENDS ReEmbedJobs, TLC

CONSTANTS i1, i2, s1, s2, k1, m1, m2

\* Jobs, start requests and materials are interchangeable.
Symmetric == {p @@ q @@ r : p \in Permutations(Ids), q \in Permutations(Requests), r \in Permutations(Mats)}
=============================================================================
