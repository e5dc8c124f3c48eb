------------------------- MODULE MCCourseMembership -------------------------
(* Constants of the CourseMembership runs.                                 *)
EXTENDS CourseMembership, TLC

CONSTANTS u1, u2, r1, r2, r3

\* Users and requests are interchangeable.
Symmetric == {p @@ q : p \in Permutations(Users), q \in Permutations(Requests)}
=============================================================================
