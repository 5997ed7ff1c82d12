---------------------------- MODULE MCSessionContent ----------------------------
(***************************************************************************)
(* SessionContent for TLC: documents, Sessions and ids are interchangeable. *)
(***************************************************************************)
EXTENDS SessionContent

Symmetry == Permutations(Document) \union Permutations(Session) \union Permutations(Id)
=============================================================================
