-------------------------- MODULE MCPagedRegistry --------------------------
(* Model-checking instances of PagedRegistry. *)
EXTENDS PagedRegistry

\* Handlers and container ids are interchangeable; templates are too, but the
\* LRU runs keep them apart where a liveness property is checked.
SafetySymmetry ==
  Permutations(Tasks) \union Permutations(Containers) \union Permutations(Configured)
=============================================================================
