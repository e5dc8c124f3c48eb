----------------------------- MODULE MCCronRuns -----------------------------
(* CronRuns on small instances: run ids are interchangeable.                *)
EXTENDS CronRuns, TLC

RunSymmetry == Permutations(Runs)
=============================================================================
