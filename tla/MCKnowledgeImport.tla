-------------------------- MODULE MCKnowledgeImport --------------------------
(*************************************************************************)
(* Small instances of KnowledgeImport.  Two contents share a chunk and   *)
(* differ in one each, so that a replacement retains, drops and adds.    *)
(*************************************************************************)
EXTENDS KnowledgeImport, TLC

CONSTANTS v1, v2

Overlapping == v1 :> {"a", "b"} @@ v2 :> {"b", "c"}

\* What the DocReader extracts from a binary format is not its raw bytes.
Extracted == v1 :> {"p"} @@ v2 :> {"q"}

RequestSymmetry == Permutations(Requests)
=============================================================================
