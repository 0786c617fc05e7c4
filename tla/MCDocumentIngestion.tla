------------------------ MODULE MCDocumentIngestion ------------------------
(* Instances of DocumentIngestion for TLC.                                 *)
EXTENDS DocumentIngestion, TLC

(* Clients and documents are interchangeable in the safety properties.     *)
Symmetry == Permutations(Clients) \cup Permutations(Docs)
=============================================================================
