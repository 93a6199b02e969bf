------------------------ MODULE MCRunbookRepository ------------------------
(* A small instance of RunbookRepository for TLC. *)
EXTENDS RunbookRepository, TLC

RepositorySymmetry ==
  Permutations(Incident) \cup Permutations(Name) \cup Permutations(Steps)
============================================================================
