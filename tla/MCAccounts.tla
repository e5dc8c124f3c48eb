----------------------------- MODULE MCAccounts -----------------------------
(* Constants of the Accounts runs.                                         *)
EXTENDS Accounts, TLC

CONSTANTS a1, a2, n1, n2, e1, i1, i2, r1, r2, r3

\* Administrators, new accounts, invitations and requests are interchangeable.
Symmetric ==
    {p @@ q @@ s @@ t : p \in Permutations(Admins), q \in Permutations(Users \ Admins),
                        s \in Permutations(Links), t \in Permutations(Requests)}
=============================================================================
