----------------------------- MODULE MCReadModel ---------------------------
\* An instance of ReadModel: two processes, two readers, a change.
EXTENDS ReadModel, TLC

Interchangeable == Permutations(Processes) \cup Permutations(Readers)
=============================================================================
