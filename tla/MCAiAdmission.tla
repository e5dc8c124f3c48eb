--------------------------- MODULE MCAiAdmission ---------------------------
(* Constants of the AiAdmission run: two chat turns, a completion and an    *)
(* answer of the assistant, for two slots.                                  *)
EXTENDS AiAdmission

CONSTANTS c1, c2, p1, a1
=============================================================================
