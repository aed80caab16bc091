---------------------------- MODULE MCChatSession ----------------------------
(***************************************************************************)
(* Instances of ChatSession for TLC.                                       *)
(***************************************************************************)
EXTENDS ChatSession

\* One query throws, the server dies once.
OneFault == [f \in FaultKind |-> IF f \in {"server", "db"} THEN 1 ELSE 0]
=============================================================================
