------------------------------- MODULE MCForms -------------------------------
(* Instances of Forms for TLC. *)
EXTENDS Forms

CONSTANTS k1, k2, v1, v2, m1, m2, c1, c2

\* CODEAGENT_MODEL_OPTIONS.
MCCodeModels == <<c1, c2>>

=============================================================================
