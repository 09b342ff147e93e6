--------------------------- MODULE MCWebhookCerts ---------------------------
(***************************************************************************)
(* Instances of WebhookCerts for TLC.                                      *)
(***************************************************************************)
EXTENDS WebhookProperties, TLC

CONSTANTS r1, r2, h1, h2

\* The replicas differ in nothing but their names.
Symmetry == Permutations(Replicas)
=============================================================================
