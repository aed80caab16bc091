------------------------ MODULE MCDocumentProcessing -------------------------
(***************************************************************************)
(* Instances of DocumentProcessing for TLC: one document, uploaded twice.  *)
(***************************************************************************)
EXTENDS DocumentProcessing, TLC

CONSTANTS doc, u1, u2

OneJob == {doc}
TwoUploads == {u1, u2}
Sym == Permutations({u1, u2})

EachOnce == [f \in FaultKind |-> IF f = "net" THEN 0 ELSE 1]
=============================================================================
