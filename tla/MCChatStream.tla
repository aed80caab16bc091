---------------------------- MODULE MCChatStream -----------------------------
(***************************************************************************)
(* Instances of ChatStream for TLC.                                        *)
(***************************************************************************)
EXTENDS ChatStream, TLC

OneBreak == [f \in FaultKind |-> IF f = "net" THEN 1 ELSE 0]

Symmetry == Permutations(Messages)
=============================================================================
