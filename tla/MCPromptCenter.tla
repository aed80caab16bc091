---------------------------- MODULE MCPromptCenter ---------------------------
(***************************************************************************)
(* Instances of PromptCenter for TLC.                                      *)
(***************************************************************************)
EXTENDS PromptCenter, TLC

CONSTANTS p, q, tenant

MCTemplates == {p, q}
\* A global template alone, or beside one of the tenant.
MCSeeds == {p :> Global @@ q :> "none", p :> Global @@ q :> tenant}
=============================================================================
