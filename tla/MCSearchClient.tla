--------------------------- MODULE MCSearchClient ---------------------------
(* Small instances of the search client, one per kind of provider.         *)
EXTENDS SearchClient, TLC

Symmetry == Permutations(Callers) \cup Permutations(Queries)
=============================================================================
